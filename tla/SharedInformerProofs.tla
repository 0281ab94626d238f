------------------------- MODULE SharedInformerProofs -------------------------
(***************************************************************************)
(* The safety properties of the shared informer, for any finite set of     *)
(* keys, any handlers, any history of the API server and any interleaving  *)
(* of lists, watches, resyncs and pops: the one the code of DeltaFIFO says *)
(* it depends on (delta_fifo.go:101-103), the meaning of HasSynced, that   *)
(* deletions reach every handler, that deltas are in the order of the      *)
(* history, and that a caught up indexer equals the API server.            *)
(***************************************************************************)
EXTENDS SharedInformer, SequenceFacts

\* An object has a version; only of a deletion it does not matter.
LiveDelta == {d \in Delta : IsDeletion(d) \/ d.rv # 0}

SingleDeletions(ds) ==
  \A i \in 2 .. Len(ds) : ~(IsDeletion(ds[i - 1]) /\ IsDeletion(ds[i]))

\* The same live deltas, and deletions, in the same places.
SameOrder(e, ds) ==
  /\ Len(e) = Len(ds)
  /\ \A i \in 1 .. Len(ds) : /\ IsDeletion(e[i]) <=> IsDeletion(ds[i])
                             /\ ~IsDeletion(ds[i]) => e[i] = ds[i]

(***************************************************************************)
(* queueActionLocked drops the delta, merges it into a deletion that is    *)
(* last, or appends it ...                                                 *)
(***************************************************************************)
LEMMA QueuedCases ==
  ASSUME NEW ds \in Seq(LiveDelta), NEW d \in LiveDelta
  PROVE  \/ d.type = "Sync" /\ willObjectBeDeleted(ds) /\ Queued(ds, d) = ds
         \/ /\ IsDeletion(d) /\ willObjectBeDeleted(ds)
            /\ Queued(ds, d) \in Seq(LiveDelta) /\ SameOrder(Queued(ds, d), ds)
         \/ /\ ~(d.type = "Sync" /\ willObjectBeDeleted(ds))
            /\ ~(IsDeletion(d) /\ willObjectBeDeleted(ds))
            /\ Queued(ds, d) = Append(ds, d)
<1> DEFINE n == Len(ds)
           e == Append(ds, d)
<1>0. n \in Nat
  OBVIOUS
<1>1. CASE d.type = "Sync" /\ willObjectBeDeleted(ds)
  BY <1>1 DEF Queued
<1>2. CASE ~(d.type = "Sync" /\ willObjectBeDeleted(ds))
  <2>0. Queued(ds, d) = dedupDeltas(e)
    BY <1>2 DEF Queued
  <2>1. /\ e \in Seq(LiveDelta) /\ Len(e) = n + 1 /\ e[n + 1] = d
        /\ \A i \in 1 .. n : e[i] = ds[i]
    OBVIOUS
  <2>2. CASE n >= 1 /\ IsDeletion(d) /\ IsDeletion(ds[n])
    <3> DEFINE x == IF ds[n].type = "Tombstone" THEN d ELSE ds[n]
               q == SubSeq(e, 1, n - 1) \o <<x>>
    <3>1. dedupDeltas(e) = q
      <4>1. Len(e) >= 2 /\ e[Len(e)] = d /\ e[Len(e) - 1] = ds[n] /\ Len(e) - 2 = n - 1
        BY <1>0, <2>1, <2>2
      <4> HIDE DEF e
      <4>2. Len(e) >= 2 /\ IsDeletion(e[Len(e)]) /\ IsDeletion(e[Len(e) - 1])
        BY <2>2, <4>1
      <4>3. dedupDeltas(e) = SubSeq(e, 1, Len(e) - 2)
              \o <<IF e[Len(e) - 1].type = "Tombstone" THEN e[Len(e)] ELSE e[Len(e) - 1]>>
        BY <4>2 DEF dedupDeltas
      <4> QED BY <4>1, <4>3
    <3>2. x \in LiveDelta /\ IsDeletion(x)
      BY <1>0, <2>2
    <3>3. /\ q \in Seq(LiveDelta) /\ Len(q) = n /\ q[n] = x
          /\ \A i \in 1 .. n - 1 : q[i] = ds[i]
      <4> HIDE DEF x, e
      <4>1. n - 1 \in 0 .. Len(e)
        BY <1>0, <2>1, <2>2
      <4>2. /\ SubSeq(e, 1, n - 1) \in Seq(LiveDelta) /\ Len(SubSeq(e, 1, n - 1)) = n - 1
            /\ \A i \in 1 .. n - 1 : SubSeq(e, 1, n - 1)[i] = e[i]
        BY <2>1, <4>1, PrefixFacts
      <4>3. \A i \in 1 .. n - 1 : SubSeq(e, 1, n - 1)[i] = ds[i]
        BY <1>0, <2>1, <4>2
      <4> QED BY <1>0, <2>2, <3>2, <4>2, <4>3
    <3> HIDE DEF q, x
    <3>4. SameOrder(q, ds)
      BY <1>0, <2>2, <3>2, <3>3 DEF SameOrder
    <3>5. willObjectBeDeleted(ds)
      BY <1>0, <2>2 DEF willObjectBeDeleted
    <3> QED BY <2>0, <2>2, <3>1, <3>3, <3>4, <3>5
  <2>3. CASE ~(n >= 1 /\ IsDeletion(d) /\ IsDeletion(ds[n]))
    <3>1. dedupDeltas(e) = e
      <4> HIDE DEF e
      <4>1. ~(Len(e) >= 2 /\ IsDeletion(e[Len(e)]) /\ IsDeletion(e[Len(e) - 1]))
        <5>1. Len(e) - 1 = n /\ (Len(e) >= 2 => n >= 1 /\ e[n] = ds[n])
          BY <1>0, <2>1
        <5> QED BY <2>1, <2>3, <5>1
      <4> QED BY <4>1 DEF dedupDeltas
    <3>2. ~(IsDeletion(d) /\ willObjectBeDeleted(ds))
      BY <1>0, <2>3 DEF willObjectBeDeleted
    <3> QED BY <1>2, <2>0, <3>1, <3>2
  <2> QED BY <2>2, <2>3
<1> QED BY <1>1, <1>2

\* ... so it leaves a key with at least one delta and without two deletions in
\* a row.
LEMMA QueuedFacts ==
  ASSUME NEW ds \in Seq(LiveDelta), SingleDeletions(ds), NEW d \in LiveDelta
  PROVE  /\ Queued(ds, d) \in Seq(LiveDelta)
         /\ Queued(ds, d) # <<>>
         /\ SingleDeletions(Queued(ds, d))
<1> DEFINE n == Len(ds)
           e == Append(ds, d)
           q == Queued(ds, d)
<1>0. n \in Nat
  OBVIOUS
<1>1. CASE d.type = "Sync" /\ willObjectBeDeleted(ds) /\ q = ds
  BY <1>1 DEF willObjectBeDeleted
<1>2. CASE /\ IsDeletion(d) /\ willObjectBeDeleted(ds)
           /\ q \in Seq(LiveDelta) /\ SameOrder(q, ds)
  <2>1. n >= 1
    BY <1>2 DEF willObjectBeDeleted
  <2> HIDE DEF q
  <2>2. Len(q) = n /\ \A i \in 1 .. n : IsDeletion(q[i]) <=> IsDeletion(ds[i])
    BY <1>2 DEF SameOrder
  <2>3. SingleDeletions(q)
    BY <1>0, <2>2 DEF SingleDeletions
  <2>4. q # <<>>
    BY <2>1, <2>2
  <2> QED BY <1>2, <2>3, <2>4 DEF q
<1>3. CASE ~(d.type = "Sync" /\ willObjectBeDeleted(ds)) /\ q = e
           /\ ~(IsDeletion(d) /\ willObjectBeDeleted(ds))
  <2>1. /\ e \in Seq(LiveDelta) /\ Len(e) = n + 1 /\ e[n + 1] = d
        /\ \A i \in 1 .. n : e[i] = ds[i]
    OBVIOUS
  <2> HIDE DEF e
  <2>2. SingleDeletions(e)
    <3> SUFFICES ASSUME NEW i \in 2 .. n + 1
                 PROVE  ~(IsDeletion(e[i - 1]) /\ IsDeletion(e[i]))
      BY <2>1 DEF SingleDeletions
    <3>1. CASE i = n + 1
      <4>1. e[i - 1] = ds[n] /\ ds # <<>> /\ e[i] = d
        BY <1>0, <2>1, <3>1
      <4> QED BY <1>3, <4>1 DEF willObjectBeDeleted
    <3>2. CASE i # n + 1
      <4>1. i \in 2 .. n /\ e[i] = ds[i] /\ e[i - 1] = ds[i - 1]
        BY <1>0, <2>1, <3>2
      <4> QED BY <4>1 DEF SingleDeletions
    <3> QED BY <3>1, <3>2
  <2>3. e # <<>>
    BY <1>0, <2>1
  <2> QED BY <1>3, <2>1, <2>2, <2>3
<1> QED BY <1>1, <1>2, <1>3, QueuedCases

-----------------------------------------------------------------------------
(***************************************************************************)
(* The inductive invariant: types of what the queue works on, and that the *)
(* queue lists the keys with deltas.                                       *)
(***************************************************************************)
FIFOInv == /\ items \in [Key -> Seq(LiveDelta)]
           /\ queue \in Seq(Key)
           /\ store \in [Key -> Nat]
           /\ Range(queue) = Pending
           /\ NoRepeats(queue)
           /\ \A k \in Key : SingleDeletions(items[k])

\* The keys that join the queue are those of the set that had no deltas.
LEMMA JoiningFacts ==
  ASSUME NEW S \in SUBSET Key, NEW p \in Joining(S)
  PROVE  /\ p \in Seq(Key)
         /\ Range(p) = {k \in S : items[k] = <<>>}
         /\ Len(p) = Cardinality({k \in S : items[k] = <<>>})
         /\ NoRepeats(p)
<1> DEFINE T == {k \in S : items[k] = <<>>}
<1>1. T \in SUBSET Key /\ p \in SetToSeqs(T)
  BY DEF Joining
<1>2. IsFiniteSet(T)
  BY <1>1, KeyAssumption, FS_Subset
<1> HIDE DEF T
<1>3. p \in Seq(Key) /\ Range(p) = T /\ Len(p) = Cardinality(T) /\ NoRepeats(p)
  BY <1>1, <1>2, EnumerationFacts
<1> QED BY <1>3 DEF T

LEMMA LiveDeltas ==
  ASSUME NEW n \in Nat
  PROVE  /\ D("Deleted", n) \in LiveDelta /\ D("Tombstone", n) \in LiveDelta
         /\ n # 0 => /\ D("Added", n) \in LiveDelta /\ D("Updated", n) \in LiveDelta
                     /\ D("Sync", n) \in LiveDelta
BY DEF D, Delta, DeltaType, LiveDelta, IsDeletion

\* Add, Update and Delete keep it.
LEMMA EnqueueKeeps ==
  ASSUME FIFOInv, NEW k \in Key, NEW d \in LiveDelta, Enqueue(k, d)
  PROVE  FIFOInv'
<1>0. /\ items[k] \in Seq(LiveDelta) /\ SingleDeletions(items[k])
      /\ items' = [items EXCEPT ![k] = Queued(items[k], d)]
      /\ store' = store
  BY DEF FIFOInv, Enqueue
<1>1. /\ Queued(items[k], d) \in Seq(LiveDelta) /\ Queued(items[k], d) # <<>>
      /\ SingleDeletions(Queued(items[k], d))
  BY <1>0, QueuedFacts
<1>2. /\ items' \in [Key -> Seq(LiveDelta)]
      /\ \A j \in Key : SingleDeletions(items'[j])
      /\ Pending' = Pending \cup {k}
  BY <1>0, <1>1 DEF FIFOInv, Pending
<1>3. queue' \in Seq(Key) /\ Range(queue') = Range(queue) \cup {k} /\ NoRepeats(queue')
  <2>1. CASE items[k] = <<>>
    <3>1. queue' = Append(queue, k) /\ k \notin Range(queue)
      BY <2>1 DEF Enqueue, FIFOInv, Pending
    <3> QED BY <3>1, AppendFacts DEF FIFOInv
  <2>2. CASE items[k] # <<>>
    <3>1. queue' = queue /\ k \in Range(queue)
      BY <2>2 DEF Enqueue, FIFOInv, Pending
    <3> QED BY <3>1 DEF FIFOInv
  <2> QED BY <2>1, <2>2
<1> QED BY <1>0, <1>2, <1>3 DEF FIFOInv

\* Replace keeps it.
LEMMA ReplaceKeeps ==
  ASSUME FIFOInv, NEW list \in [Key -> Nat], Replace(list)
  PROVE  FIFOInv'
<1> DEFINE listed  == {k \in Key : list[k] # 0}
           missing == {k \in Key \ listed : store[k] # 0}
<1>0. /\ items' = [k \in Key |->
                    IF k \in listed THEN Queued(items[k], D("Sync", list[k]))
                    ELSE IF k \in missing
                    THEN Queued(items[k], D("Tombstone", store[k]))
                    ELSE items[k]]
      /\ store' = store
  BY DEF Replace
<1>1. PICK p \in Joining(listed), q \in Joining(missing) : queue' = queue \o p \o q
  BY DEF Replace
<1>2. listed \in SUBSET Key /\ missing \in SUBSET Key /\ listed \cap missing = {}
  OBVIOUS
<1>3. \A k \in Key : /\ k \in listed => D("Sync", list[k]) \in LiveDelta
                     /\ D("Tombstone", store[k]) \in LiveDelta
  BY LiveDeltas DEF FIFOInv
<1> HIDE DEF listed, missing
<1>4. ASSUME NEW k \in Key
      PROVE  /\ items'[k] \in Seq(LiveDelta) /\ SingleDeletions(items'[k])
             /\ items'[k] # <<>> <=> items[k] # <<>> \/ k \in listed \cup missing
  <2>1. items[k] \in Seq(LiveDelta) /\ SingleDeletions(items[k])
    BY DEF FIFOInv
  <2> QED BY <1>0, <1>3, <2>1, QueuedFacts
<1>5. /\ items' \in [Key -> Seq(LiveDelta)]
      /\ Pending' = Pending \cup listed \cup missing
  BY <1>0, <1>2, <1>4 DEF Pending
<1>6. /\ p \in Seq(Key) /\ NoRepeats(p) /\ Range(p) = {k \in listed : items[k] = <<>>}
      /\ q \in Seq(Key) /\ NoRepeats(q) /\ Range(q) = {k \in missing : items[k] = <<>>}
  BY <1>2, JoiningFacts
<1>7. queue \o p \in Seq(Key) /\ Range(queue \o p) = Range(queue) \cup Range(p)
      /\ NoRepeats(queue \o p)
  <2>1. Range(queue) \cap Range(p) = {}
    BY <1>6 DEF FIFOInv, Pending
  <2> QED BY <1>6, <2>1, ConcatFacts DEF FIFOInv
<1>8. queue' \in Seq(Key) /\ Range(queue') = Range(queue) \cup Range(p) \cup Range(q)
      /\ NoRepeats(queue')
  <2>1. Range(queue \o p) \cap Range(q) = {}
    BY <1>2, <1>6, <1>7 DEF FIFOInv, Pending
  <2> DEFINE s == queue \o p
  <2>2. queue' = s \o q
    BY <1>1
  <2>3. s \in Seq(Key) /\ NoRepeats(s) /\ Range(s) = Range(queue) \cup Range(p)
        /\ Range(s) \cap Range(q) = {}
    BY <1>7, <2>1
  <2> HIDE DEF s
  <2>4. /\ s \o q \in Seq(Key) /\ NoRepeats(s \o q)
        /\ Range(s \o q) = Range(s) \cup Range(q)
    BY <1>6, <2>3, ConcatFacts
  <2> QED BY <2>2, <2>3, <2>4
<1>9. Range(queue') = Pending'
  BY <1>2, <1>5, <1>6, <1>8 DEF FIFOInv, Pending
<1> QED BY <1>0, <1>4, <1>5, <1>8, <1>9 DEF FIFOInv

\* Resync keeps it.
LEMMA ResyncKeeps == ASSUME FIFOInv, Resync PROVE FIFOInv'
<1> DEFINE due == {k \in Key : store[k] # 0 /\ items[k] = <<>>}
<1>0. /\ items' = [k \in Key |-> IF k \in due THEN <<D("Sync", store[k])>>
                                 ELSE items[k]]
      /\ store' = store
  BY DEF Resync
<1>1. PICK p \in Joining(due) : queue' = queue \o p
  BY DEF Resync
<1>2. due \in SUBSET Key /\ \A k \in due : items[k] = <<>>
  OBVIOUS
<1>3. \A k \in due : D("Sync", store[k]) \in LiveDelta
  BY LiveDeltas DEF FIFOInv
<1> HIDE DEF due
<1>4. ASSUME NEW k \in Key
      PROVE  /\ items'[k] \in Seq(LiveDelta) /\ SingleDeletions(items'[k])
             /\ items'[k] # <<>> <=> items[k] # <<>> \/ k \in due
  <2>1. items[k] \in Seq(LiveDelta) /\ SingleDeletions(items[k])
    BY DEF FIFOInv
  <2>2. CASE k \in due
    <3>1. items'[k] = <<D("Sync", store[k])>>
      BY <1>0, <2>2
    <3> QED BY <1>3, <2>2, <3>1 DEF SingleDeletions
  <2> QED BY <1>0, <2>1, <2>2
<1>5. items' \in [Key -> Seq(LiveDelta)] /\ Pending' = Pending \cup due
  BY <1>0, <1>2, <1>4 DEF Pending
<1>6. p \in Seq(Key) /\ NoRepeats(p) /\ Range(p) = due
  BY <1>2, JoiningFacts
<1>7. Range(queue) \cap Range(p) = {}
  BY <1>2, <1>6 DEF FIFOInv, Pending
<1>8. queue' \in Seq(Key) /\ Range(queue') = Range(queue) \cup Range(p)
      /\ NoRepeats(queue')
  BY <1>1, <1>6, <1>7, ConcatFacts DEF FIFOInv
<1> QED BY <1>0, <1>4, <1>5, <1>6, <1>8 DEF FIFOInv

\* Pop keeps it, and finds deltas for the key it takes.
LEMMA PopKeeps == ASSUME FIFOInv, Pop PROVE FIFOInv'
<1> DEFINE k == Head(queue)
<1>1. k \in Key /\ k \in Range(queue) /\ queue' = Tail(queue)
  BY TailFacts DEF FIFOInv, Pop
<1>2. /\ queue' \in Seq(Key) /\ NoRepeats(queue')
      /\ Range(queue') = Range(queue) \ {k}
  BY TailFacts DEF FIFOInv, Pop
<1>3. items' = [items EXCEPT ![k] = <<>>] /\ items[k] # <<>>
  BY <1>1 DEF Pop, FIFOInv, Pending
<1>4. store' \in [Key -> Nat]
  <2>1. Last(items[k]) \in LiveDelta
    BY <1>1, <1>3 DEF Last, FIFOInv
  <2>2. Effect(Last(items[k])) \in Nat
    BY <2>1 DEF Effect, LiveDelta, Delta
  <2> QED BY <2>2 DEF Pop, FIFOInv
<1> HIDE DEF k
<1>5. /\ items' \in [Key -> Seq(LiveDelta)]
      /\ Pending' = Pending \ {k}
  BY <1>1, <1>3 DEF FIFOInv, Pending
<1>6. \A j \in Key : SingleDeletions(items'[j])
  BY <1>1, <1>3 DEF FIFOInv, SingleDeletions
<1> QED BY <1>2, <1>4, <1>5, <1>6 DEF FIFOInv

-----------------------------------------------------------------------------
(***************************************************************************)
(* HasSynced.  The count it waits for is the number of keys of the first   *)
(* list that are still queued, and these are the first of the queue: later *)
(* events only append, and every pop takes one of them off.  Before the    *)
(* first list there is nothing to wait for, since neither a watch nor a    *)
(* resync can run.                                                         *)
(***************************************************************************)
First(n) == {queue[i] : i \in 1 .. n}

AwaitInv ==
  /\ initialPopulationCount \in Nat
  /\ populated => /\ initialPopulationCount <= Len(queue)
                  /\ awaited = First(initialPopulationCount)
  /\ ~populated => /\ queue = <<>> /\ store = Nothing
                   /\ reflector # "watch" /\ ~resync

Grows == /\ queue' \in Seq(Key)
         /\ Len(queue) <= Len(queue')
         /\ \A i \in 1 .. Len(queue) : queue'[i] = queue[i]

\* A longer queue begins with the same keys.
LEMMA FirstStays ==
  ASSUME queue \in Seq(Key), Grows, AwaitInv, populated, populated',
         initialPopulationCount' = initialPopulationCount, awaited' = awaited
  PROVE  AwaitInv'
<1>1. Len(queue) \in Nat /\ Len(queue') \in Nat
  BY DEF Grows
<1>2. \A i \in 1 .. initialPopulationCount : queue'[i] = queue[i]
  BY <1>1 DEF AwaitInv, Grows
<1>3. First(initialPopulationCount)' = First(initialPopulationCount)
  BY <1>2 DEF First
<1> QED BY <1>1, <1>3 DEF AwaitInv, Grows

\* Appending is one way to grow.
LEMMA ConcatGrows ==
  ASSUME queue \in Seq(Key), NEW t \in Seq(Key), queue' = queue \o t
  PROVE  Grows
BY DEF Grows

LEMMA EnqueueGrows ==
  ASSUME FIFOInv, NEW k \in Key, NEW d, Enqueue(k, d)
  PROVE  Grows
BY DEF FIFOInv, Enqueue, Grows

LEMMA ResyncGrows == ASSUME FIFOInv, Resync PROVE Grows
<1> DEFINE due == {k \in Key : store[k] # 0 /\ items[k] = <<>>}
<1>1. PICK p \in Joining(due) : queue' = queue \o p
  BY DEF Resync
<1>2. p \in Seq(Key)
  BY JoiningFacts
<1> QED BY <1>1, <1>2, ConcatGrows DEF FIFOInv

LEMMA ReplaceGrows ==
  ASSUME FIFOInv, NEW list, Replace(list)
  PROVE  Grows
<1> DEFINE listed  == {k \in Key : list[k] # 0}
           missing == {k \in Key \ listed : store[k] # 0}
<1>1. PICK p \in Joining(listed), q \in Joining(missing) : queue' = queue \o p \o q
  BY DEF Replace
<1>2. listed \in SUBSET Key /\ missing \in SUBSET Key
  OBVIOUS
<1> HIDE DEF listed, missing
<1>3. p \in Seq(Key) /\ q \in Seq(Key)
  BY <1>2, JoiningFacts
<1> QED BY <1>1, <1>3 DEF FIFOInv, Grows

\* The first Replace: the queue is empty before it, and lists afterwards the
\* keys to wait for.
LEMMA FirstReplace ==
  ASSUME FIFOInv, AwaitInv, ~populated, NEW list \in [Key -> Nat], Replace(list),
         awaited' = {k \in Key : list[k] # 0}
  PROVE  AwaitInv'
<1> DEFINE listed  == {k \in Key : list[k] # 0}
           missing == {k \in Key \ listed : store[k] # 0}
<1>1. PICK p \in Joining(listed), q \in Joining(missing) : queue' = queue \o p \o q
  BY DEF Replace
<1>2. queue = <<>> /\ missing = {} /\ listed \in SUBSET Key
  BY DEF AwaitInv, Nothing
<1>3. /\ populated' = TRUE
      /\ initialPopulationCount' = Cardinality(listed \cup missing)
  BY DEF Replace
<1>4. awaited' = listed
  OBVIOUS
<1>5. Pending = {}
  BY <1>2 DEF FIFOInv, Range
<1> HIDE DEF listed, missing
<1>6. {k \in listed : items[k] = <<>>} = listed
  BY <1>2, <1>5 DEF Pending
<1>7. p \in Seq(Key) /\ Range(p) = listed /\ Len(p) = Cardinality(listed)
  BY <1>2, <1>6, JoiningFacts
<1>8. q \in Seq(Key)
  BY <1>2, JoiningFacts
<1>9. initialPopulationCount' = Len(p)
  BY <1>2, <1>3, <1>7
<1>10. /\ Len(p) \in Nat /\ Len(p) <= Len(queue')
       /\ \A i \in 1 .. Len(p) : queue'[i] = p[i]
  BY <1>1, <1>2, <1>7, <1>8
<1>11. DOMAIN p = 1 .. Len(p)
  BY <1>7
<1>12. First(initialPopulationCount)' = Range(p)
  BY <1>9, <1>10, <1>11 DEF First, Range
<1> QED BY <1>3, <1>4, <1>7, <1>9, <1>10, <1>12 DEF AwaitInv

\* A pop takes the first awaited key off, if there is one.
LEMMA PopAwaits ==
  ASSUME FIFOInv, AwaitInv, Pop, awaited' = awaited \ {Head(queue)}
  PROVE  AwaitInv'
<1> DEFINE n == initialPopulationCount
           q == queue
<1>1. /\ populated /\ populated' /\ n \in Nat /\ n <= Len(q) /\ awaited = First(n)
      /\ q \in Seq(Key) /\ q # <<>> /\ queue' = Tail(q)
      /\ n' = IF n > 0 THEN n - 1 ELSE 0
  BY DEF AwaitInv, FIFOInv, Pop
<1>2. /\ Len(q) \in Nat \ {0} /\ DOMAIN q = 1 .. Len(q) /\ Head(q) = q[1]
      /\ Len(queue') = Len(q) - 1
      /\ \A i \in 1 .. Len(q) - 1 : queue'[i] = q[i + 1]
  BY <1>1
<1>3. \A i, j \in 1 .. Len(q) : q[i] = q[j] => i = j
  BY <1>2 DEF FIFOInv, NoRepeats
<1>4. CASE n = 0
  BY <1>1, <1>2, <1>4 DEF AwaitInv, First
<1>5. CASE n > 0
  <2>1. First(n)' = {q[i + 1] : i \in 1 .. n - 1}
    <3>1. \A i \in 1 .. n - 1 : queue'[i] = q[i + 1]
      BY <1>1, <1>2
    <3>2. n' = n - 1
      BY <1>1, <1>5
    <3> QED BY <3>1, <3>2 DEF First
  <2>2. ASSUME NEW y \in awaited' PROVE y \in {q[i + 1] : i \in 1 .. n - 1}
    <3>1. PICK i \in 1 .. n : y = q[i] /\ i # 1
      BY <1>1, <1>2 DEF First
    <3>2. i - 1 \in 1 .. n - 1 /\ y = q[(i - 1) + 1]
      BY <1>1, <3>1
    <3> QED BY <3>2
  <2>3. ASSUME NEW i \in 1 .. n - 1 PROVE q[i + 1] \in awaited'
    <3>1. i + 1 \in 1 .. n /\ i + 1 \in 1 .. Len(q) /\ 1 \in 1 .. Len(q) /\ i + 1 # 1
      BY <1>1, <1>2
    <3>2. q[i + 1] # Head(q)
      BY <1>2, <1>3, <3>1
    <3>3. q[i + 1] \in awaited
      BY <1>1, <3>1 DEF First
    <3> QED BY <3>2, <3>3
  <2>4. awaited' = {q[i + 1] : i \in 1 .. n - 1}
    BY <2>2, <2>3
  <2> QED BY <1>1, <1>2, <1>5, <2>1, <2>4 DEF AwaitInv
<1> QED BY <1>1, <1>4, <1>5

-----------------------------------------------------------------------------
(***************************************************************************)
(* What the handlers believe.                                              *)
(***************************************************************************)
ViewInv == /\ view \in [Listener -> [Key -> Nat]]
           /\ joined \subseteq Listener
           /\ NoGhostObjects

\* The largest of finitely many positions that include the last one.
LEMMA LastIsMax ==
  ASSUME NEW n \in Nat, NEW S \in SUBSET (1 .. n), n \in S
  PROVE  Max(S) = n
<1>1. n \in S /\ \A y \in S : n >= y
  OBVIOUS
<1>2. \A x \in S : (\A y \in S : x >= y) => x = n
  BY <1>1
<1> QED BY <1>1, <1>2 DEF Max

\* A bounded set of numbers that is not empty has a largest one.
LEMMA MaxExists ==
  ASSUME NEW n \in Nat, NEW S \in SUBSET (0 .. n), S # {}
  PROVE  Max(S) \in S /\ \A y \in S : Max(S) >= y
<1> DEFINE T == {n - x : x \in S}
<1>1. T \subseteq Nat /\ T # {}
  OBVIOUS
<1>2. PICK t \in T : \A u \in T : ~(<<u, t>> \in OpToRel(<, Nat))
  BY <1>1, NatLessThanWellFounded, WFMin
<1>3. PICK x \in S : t = n - x
  OBVIOUS
<1>4. ASSUME NEW y \in S PROVE x >= y
  <2>1. n - y \in T /\ n - y \in Nat /\ t \in Nat
    BY <1>1
  <2>2. ~(n - y < t)
    BY <1>2, <2>1 DEF OpToRel
  <2> QED BY <1>3, <2>2
<1>5. \E z \in S : \A y \in S : z >= y
  BY <1>4
<1> QED BY <1>5 DEF Max

\* If the last delta is a deletion, every handler sees it; if not, the object
\* is in the indexer afterwards.
LEMMA HandleKeeps ==
  ASSUME FIFOInv, ViewInv, HandleDeltas
  PROVE  ViewInv'
<1> DEFINE k == Head(queue)
           ds == items[k]
           n == Len(ds)
           Seen(l) == {i \in DOMAIN ds : Sees(l, ds[i])}
<1>1. k \in Key /\ k \in Range(queue)
  BY TailFacts DEF FIFOInv, HandleDeltas, Pop
<1>2. ds \in Seq(LiveDelta) /\ ds # <<>> /\ n \in Nat \ {0} /\ DOMAIN ds = 1 .. n
  BY <1>1 DEF FIFOInv, Pending
<1>3. /\ store' = [store EXCEPT ![k] = Effect(ds[n])]
      /\ joined' = joined
      /\ view' = [l \in Listener |-> IF l \in joined /\ Seen(l) # {}
                                     THEN [view[l] EXCEPT ![k] = Effect(ds[Max(Seen(l))])]
                                     ELSE view[l]]
  BY DEF HandleDeltas, Pop, Last
<1>4. \A i \in 1 .. n : ds[i] \in LiveDelta /\ Effect(ds[i]) \in Nat
  BY <1>2 DEF LiveDelta, Delta, Effect
<1>5. \A l \in Listener : Seen(l) \in SUBSET (1 .. n)
  BY <1>2
<1> HIDE DEF k, ds, n, Seen
<1>6. view' \in [Listener -> [Key -> Nat]]
  <2> SUFFICES ASSUME NEW l \in Listener PROVE view'[l] \in [Key -> Nat]
    BY <1>3
  <2>1. view[l] \in [Key -> Nat]
    BY DEF ViewInv
  <2>2. CASE l \in joined /\ Seen(l) # {}
    <3>1. Max(Seen(l)) \in 1 .. n
      <4>1. n \in Nat /\ Seen(l) \in SUBSET (1 .. n)
        BY <1>2, <1>5
      <4>2. Seen(l) \in SUBSET (0 .. n)
        BY <4>1
      <4>3. Max(Seen(l)) \in Seen(l)
        BY <2>2, <4>1, <4>2, MaxExists
      <4> QED BY <4>1, <4>3
    <3>2. view'[l] = [view[l] EXCEPT ![k] = Effect(ds[Max(Seen(l))])]
      BY <1>3, <2>2
    <3> QED BY <1>4, <2>1, <3>1, <3>2
  <2>3. CASE ~(l \in joined /\ Seen(l) # {})
    BY <1>3, <2>1, <2>3
  <2> QED BY <2>2, <2>3
<1>7. ASSUME NEW l \in joined, NEW j \in Key, store'[j] = 0
      PROVE  view'[l][j] = 0
  <2>1. l \in Listener /\ view[l] \in [Key -> Nat] /\ store \in [Key -> Nat]
    BY DEF ViewInv, FIFOInv
  <2>2. CASE j # k
    <3>1. view[l][j] = 0
      BY <1>3, <1>7, <2>1, <2>2 DEF ViewInv, NoGhostObjects
    <3>2. view'[l] = view[l] \/ view'[l] = [view[l] EXCEPT ![k] = Effect(ds[Max(Seen(l))])]
      BY <1>3, <2>1
    <3> QED BY <2>1, <2>2, <3>1, <3>2
  <2>3. CASE j = k
    <3>1. n \in 1 .. n
      BY <1>2
    <3>2. Effect(ds[n]) = 0 /\ ds[n] \in LiveDelta
      BY <1>1, <1>3, <1>4, <1>7, <2>1, <2>3, <3>1
    <3>3. IsDeletion(ds[n])
      BY <3>2 DEF Effect, LiveDelta
    <3>4. n \in Seen(l)
      BY <1>2, <3>1, <3>3 DEF Seen, Sees, IsDeletion
    <3>5. Max(Seen(l)) = n
      BY <1>2, <1>5, <2>1, <3>4, LastIsMax
    <3>6. view'[l] = [view[l] EXCEPT ![k] = Effect(ds[n])]
      BY <1>3, <2>1, <3>4, <3>5
    <3> QED BY <1>1, <2>1, <2>3, <3>2, <3>6
  <2> QED BY <2>2, <2>3
<1> QED BY <1>3, <1>6, <1>7 DEF ViewInv, NoGhostObjects

-----------------------------------------------------------------------------
(***************************************************************************)
(* The whole informer.                                                     *)
(***************************************************************************)
LogInv == /\ log \in Seq([key : Key, state : [Key -> Nat]])
          /\ rv \in 0 .. Len(log)

InformerInv == FIFOInv /\ LogInv /\ AwaitInv /\ ViewInv

LEMMA AtType ==
  ASSUME LogInv, NEW r \in 0 .. Len(log)
  PROVE  At(r) \in [Key -> Nat]
<1>1. CASE r = 0
  BY <1>1 DEF At, Nothing
<1>2. CASE r # 0
  <2> DEFINE Entry == [key : Key, state : [Key -> Nat]]
  <2>1. log \in Seq(Entry) /\ Len(log) \in Nat
    BY DEF LogInv
  <2>2. r \in 1 .. Len(log)
    BY <1>2, <2>1
  <2> HIDE DEF Entry
  <2>3. log[r] \in Entry
    BY <2>1, <2>2
  <2> QED BY <1>2, <2>3 DEF At, Entry
<1> QED BY <1>1, <1>2

LEMMA InformerInit == Init => InformerInv
<1> SUFFICES ASSUME Init PROVE InformerInv
  OBVIOUS
<1> USE DEF Init, FIFOInit
<1>1. FIFOInv
  BY DEF FIFOInv, Pending, Range, NoRepeats, SingleDeletions
<1>2. LogInv
  BY DEF LogInv
<1>3. AwaitInv
  BY DEF AwaitInv, Nothing
<1>4. ViewInv
  BY DEF ViewInv, NoGhostObjects, Nothing
<1> QED BY <1>1, <1>2, <1>3, <1>4 DEF InformerInv

\* The steps that leave the queue, the indexer and the handlers alone.
LEMMA QuietStep ==
  ASSUME InformerInv, UNCHANGED <<fifoVars, store, joined, view, awaited>>,
         resync' => resync \/ populated,
         reflector' = "watch" => reflector = "watch", LogInv'
  PROVE  InformerInv'
<1> USE DEF InformerInv, fifoVars
<1>1. FIFOInv'
  BY DEF FIFOInv, Pending
<1>2. AwaitInv'
  BY DEF AwaitInv, First
<1>3. ViewInv'
  BY DEF ViewInv, NoGhostObjects
<1> QED BY <1>1, <1>2, <1>3

\* The steps of the reflector that add to the queue.
LEMMA ProducerStep ==
  ASSUME InformerInv, FIFOInv', AwaitInv', LogInv', UNCHANGED <<store, joined, view>>
  PROVE  InformerInv'
BY DEF InformerInv, ViewInv, NoGhostObjects

LEMMA WatchEventStep == ASSUME InformerInv, WatchEvent PROVE InformerInv'
<1> DEFINE r == rv + 1
           k == log[r].key
           Entry == [key : Key, state : [Key -> Nat]]
<1>0. FIFOInv /\ LogInv /\ AwaitInv
  BY DEF InformerInv
<1>1. /\ log \in Seq(Entry) /\ Len(log) \in Nat /\ rv \in Nat
      /\ rv < Len(log) /\ rv' = rv + 1 /\ log' = log
  BY <1>0 DEF LogInv, WatchEvent
<1>2. r \in 1 .. Len(log) /\ r \in Nat /\ r # 0
  BY <1>1
<1>3. k \in Key
  <2> HIDE DEF Entry, r
  <2>1. log[r] \in Entry
    BY <1>1, <1>2
  <2> QED BY <2>1 DEF Entry
<1>4. LogInv'
  BY <1>0, <1>1 DEF LogInv
<1>5. populated
  BY <1>0 DEF AwaitInv, WatchEvent
<1>6. /\ UNCHANGED <<joined, view, awaited>>
      /\ Add(k, r) \/ Update(k, r) \/ Delete(k, r)
  BY DEF WatchEvent, listenVars, historyVars
<1> HIDE DEF r, k, Entry
<1>7. ASSUME NEW d \in LiveDelta, Enqueue(k, d) PROVE InformerInv'
  <2>1. FIFOInv'
    BY <1>0, <1>3, <1>7, EnqueueKeeps
  <2>2. Grows
    BY <1>0, <1>3, <1>7, EnqueueGrows
  <2>3. /\ populated' /\ store' = store
        /\ initialPopulationCount' = initialPopulationCount
    BY <1>7 DEF Enqueue
  <2>4. AwaitInv'
    BY <1>0, <1>5, <1>6, <2>2, <2>3, FirstStays DEF FIFOInv
  <2> QED BY <1>4, <1>6, <2>1, <2>3, <2>4, ProducerStep
<1>8. CASE Add(k, r)
  BY <1>2, <1>7, <1>8, LiveDeltas DEF Add
<1>9. CASE Update(k, r)
  BY <1>2, <1>7, <1>9, LiveDeltas DEF Update
<1>10. CASE Delete(k, r) /\ store[k] = 0 /\ items[k] = <<>>
  <2>1. UNCHANGED <<items, queue, initialPopulationCount, store>> /\ populated'
    BY <1>10 DEF Delete
  <2>2. FIFOInv'
    BY <1>0, <2>1 DEF FIFOInv, Pending
  <2>3. AwaitInv'
    BY <1>0, <1>5, <1>6, <2>1 DEF AwaitInv, First
  <2> QED BY <1>4, <1>6, <2>1, <2>2, <2>3, ProducerStep
<1>11. CASE Delete(k, r) /\ ~(store[k] = 0 /\ items[k] = <<>>)
  BY <1>2, <1>7, <1>11, LiveDeltas DEF Delete
<1> QED BY <1>6, <1>8, <1>9, <1>10, <1>11

LEMMA ListStep == ASSUME InformerInv, ListAndReplace PROVE InformerInv'
<1>0. FIFOInv /\ LogInv /\ AwaitInv
  BY DEF InformerInv
<1>1. PICK r \in 0 .. Len(log) :
        /\ Replace(At(r))
        /\ rv' = r
        /\ awaited' = IF populated THEN awaited ELSE {k \in Key : At(r)[k] # 0}
  BY DEF ListAndReplace
<1>2. r \in 0 .. Len(log) /\ log' = log
  BY <1>0 DEF LogInv, ListAndReplace
<1>3. LogInv'
  BY <1>0, <1>1, <1>2 DEF LogInv
<1>4. At(r) \in [Key -> Nat]
  BY <1>0, <1>2, AtType
<1>5. FIFOInv'
  BY <1>0, <1>1, <1>4, ReplaceKeeps
<1>6. UNCHANGED <<store, joined, view>>
  BY <1>1 DEF ListAndReplace, Replace, listenVars
<1>7. CASE populated
  <2>1. Grows
    BY <1>0, <1>1, ReplaceGrows
  <2>2. populated' /\ initialPopulationCount' = initialPopulationCount
    BY <1>1, <1>7 DEF Replace
  <2>3. AwaitInv'
    BY <1>0, <1>1, <1>7, <2>1, <2>2, FirstStays DEF FIFOInv
  <2> QED BY <1>3, <1>5, <1>6, <2>3, ProducerStep
<1>8. CASE ~populated
  <2>1. AwaitInv'
    BY <1>0, <1>1, <1>4, <1>8, FirstReplace
  <2> QED BY <1>3, <1>5, <1>6, <2>1, ProducerStep
<1> QED BY <1>7, <1>8

LEMMA ResyncStep == ASSUME InformerInv, ResyncStore PROVE InformerInv'
<1>0. FIFOInv /\ LogInv /\ AwaitInv
  BY DEF InformerInv
<1>1. /\ Resync /\ populated /\ UNCHANGED <<log, rv, joined, view, awaited>>
  BY <1>0 DEF ResyncStore, AwaitInv, listenVars, historyVars
<1>2. FIFOInv' /\ Grows
  BY <1>0, <1>1, ResyncKeeps, ResyncGrows
<1>3. /\ populated' /\ initialPopulationCount' = initialPopulationCount
      /\ store' = store
  BY <1>1 DEF Resync
<1>4. AwaitInv'
  BY <1>0, <1>1, <1>2, <1>3, FirstStays DEF FIFOInv
<1>5. LogInv'
  BY <1>0, <1>1 DEF LogInv
<1> QED BY <1>1, <1>2, <1>3, <1>4, <1>5, ProducerStep

LEMMA HandleStep == ASSUME InformerInv, HandleDeltas PROVE InformerInv'
<1>0. FIFOInv /\ LogInv /\ AwaitInv /\ ViewInv
  BY DEF InformerInv
<1>1. Pop /\ awaited' = awaited \ {Head(queue)} /\ UNCHANGED <<log, rv>>
  BY DEF HandleDeltas, reflectVars
<1>2. FIFOInv' /\ AwaitInv'
  BY <1>0, <1>1, PopKeeps, PopAwaits
<1>3. ViewInv'
  BY <1>0, HandleKeeps
<1>4. LogInv'
  BY <1>0, <1>1 DEF LogInv
<1> QED BY <1>2, <1>3, <1>4 DEF InformerInv

LEMMA ChangeStep ==
  ASSUME InformerInv, NEW k \in Key, NEW alive \in BOOLEAN, Change(k, alive)
  PROVE  InformerInv'
<1> DEFINE Entry == [key : Key, state : [Key -> Nat]]
           version == IF alive THEN Len(log) + 1 ELSE 0
           e == [key |-> k, state |-> [Now EXCEPT ![k] = version]]
<1>0. LogInv /\ log \in Seq(Entry) /\ Len(log) \in Nat /\ rv \in 0 .. Len(log)
  BY DEF InformerInv, LogInv
<1>1. Now \in [Key -> Nat]
  <2>1. Len(log) \in 0 .. Len(log)
    BY <1>0
  <2> QED BY <1>0, <2>1, AtType DEF Now
<1>2. version \in Nat
  BY <1>0
<1> HIDE DEF version
<1>3. e \in Entry
  BY <1>1, <1>2
<1>4. log' = Append(log, e) /\ rv' = rv
  BY DEF Change, version, reflectVars
<1> HIDE DEF e, Entry
<1>5. log' \in Seq(Entry) /\ Len(log') = Len(log) + 1
  BY <1>0, <1>3, <1>4
<1>6. LogInv'
  BY <1>0, <1>4, <1>5 DEF LogInv, Entry
<1> QED BY <1>6, QuietStep DEF Change, reflectVars, listenVars, historyVars

LEMMA AddHandlerStep ==
  ASSUME InformerInv, NEW l \in Listener, AddEventHandler(l)
  PROVE  InformerInv'
<1> USE DEF AddEventHandler, InformerInv, fifoVars, reflectVars, historyVars
<1>1. FIFOInv'
  BY DEF FIFOInv, Pending
<1>2. AwaitInv'
  BY DEF AwaitInv, First
<1>3. LogInv'
  BY DEF LogInv
<1>4. view' \in [Listener -> [Key -> Nat]] /\ joined' \subseteq Listener
  BY DEF ViewInv, FIFOInv
<1>5. NoGhostObjects'
  <2> SUFFICES ASSUME NEW m \in joined', NEW k \in Key, store'[k] = 0
               PROVE  view'[m][k] = 0
    BY DEF NoGhostObjects
  <2>1. CASE m = l
    BY <2>1 DEF ViewInv
  <2>2. CASE m # l
    BY <2>2 DEF ViewInv, NoGhostObjects
  <2> QED BY <2>1, <2>2
<1> QED BY <1>1, <1>2, <1>3, <1>4, <1>5 DEF ViewInv

LEMMA InformerStep == InformerInv /\ [Next]_informerVars => InformerInv'
<1> SUFFICES ASSUME InformerInv, [Next]_informerVars PROVE InformerInv'
  OBVIOUS
<1> USE DEF popVars, reflectVars, listenVars, historyVars
<1>0. LogInv
  BY DEF InformerInv
<1>1. ASSUME NEW k \in Key, NEW alive \in BOOLEAN, Change(k, alive) PROVE InformerInv'
  BY <1>1, ChangeStep
<1>2. CASE ListAndReplace
  BY <1>2, ListStep
<1>3. CASE WatchEvent
  BY <1>3, WatchEventStep
<1>4. CASE WatchFails
  BY <1>0, <1>4, QuietStep DEF WatchFails, LogInv
<1>5. CASE ShouldResync
  <2>1. UNCHANGED <<fifoVars, store, popVars, log, reflector, rv, stopCh, joined, view,
                    historyVars>>
    BY <1>5 DEF ShouldResync
  <2>2. populated
    BY <1>5 DEF ShouldResync
  <2> QED BY <1>0, <2>1, <2>2, QuietStep DEF LogInv
<1>6. CASE ResyncStore
  BY <1>6, ResyncStep
<1>7. CASE HandleDeltas
  BY <1>7, HandleStep
<1>8. CASE PopperStep
  BY <1>0, <1>8, QuietStep DEF PopperStep, PopEmpty, PopWait, LogInv
<1>9. ASSUME NEW l \in Listener, AddEventHandler(l) PROVE InformerInv'
  BY <1>9, AddHandlerStep
<1>10. CASE Stop
  BY <1>0, <1>10, QuietStep DEF Stop, LogInv
<1>11. CASE ReflectorStops
  BY <1>0, <1>11, QuietStep DEF ReflectorStops, LogInv
<1>12. CASE CloseQueue
  BY <1>0, <1>12, QuietStep DEF CloseQueue, Close, LogInv
<1>13. CASE UNCHANGED informerVars
  BY <1>0, <1>13, QuietStep DEF informerVars, fifoVars, LogInv
<1> QED
  BY <1>1, <1>2, <1>3, <1>4, <1>5, <1>6, <1>7, <1>8, <1>9, <1>10, <1>11, <1>12,
     <1>13 DEF Next

LEMMA InformerInvariant == Safety => []InformerInv
BY InformerInit, InformerStep, PTL DEF Safety

(***************************************************************************)
(* The queue lists each key that has deltas once and no other, and no key  *)
(* has two deletions in a row: Pop always finds deltas for the key it      *)
(* takes off (delta_fifo.go:430-436).                                      *)
(***************************************************************************)
THEOREM QueueAndItemsAgree == Safety => []QueueListsItems
<1>1. InformerInv => QueueListsItems
  BY DEF InformerInv, FIFOInv, QueueListsItems, NoRepeats, SingleDeletions
<1> QED BY <1>1, InformerInvariant, PTL

(***************************************************************************)
(* HasSynced is true exactly when every object of the first list has been  *)
(* popped, however large the list is and whatever happens meanwhile        *)
(* (delta_fifo.go:165-169).                                                *)
(***************************************************************************)
THEOREM HasSyncedIsExact == Safety => []SyncedMeansPopped
<1>1. InformerInv => SyncedMeansPopped
  <2> SUFFICES ASSUME AwaitInv, queue \in Seq(Key), populated
               PROVE  initialPopulationCount = 0 <=> awaited = {}
    BY DEF InformerInv, FIFOInv, SyncedMeansPopped, HasSynced
  <2> QED BY DEF AwaitInv, First
<1> QED BY <1>1, InformerInvariant, PTL

(***************************************************************************)
(* A handler never believes in an object that the indexer does not have    *)
(* (shared_informer.go:344-373).                                           *)
(***************************************************************************)
THEOREM NoGhosts == Safety => []NoGhostObjects
<1>1. InformerInv => NoGhostObjects
  BY DEF InformerInv, ViewInv
<1> QED BY <1>1, InformerInvariant, PTL

-----------------------------------------------------------------------------
(***************************************************************************)
(* The order of deltas.  What follows is about one key, and needs only its *)
(* history h: the version it has at each revision of the API server, 0 if  *)
(* it does not exist.  The reflector is at revision r, and the key has the *)
(* deltas ds pending, is stored as s, and was stored as l at most.         *)
(***************************************************************************)

\* Versions are revisions, and an object that is back has a newer one.
Steady(h, n) ==
  /\ h \in [0 .. n -> Nat] /\ h[0] = 0
  /\ \A r \in 0 .. n : h[r] <= r /\ h[h[r]] = h[r]
  /\ \A r \in 0 .. n : \A q \in 0 .. r :
       h[r] # 0 => h[r] >= h[q] /\ (h[q] = 0 => h[r] > q)

Version(h, r, v) == v \in 1 .. r /\ h[v] = v

GoneAfter(h, r, v) == \E q \in v .. r : h[q] = 0

\* DeltasInOrder, for one key.
Ordered(ds, s, l) ==
  \A j \in 1 .. Len(ds) :
    LET Gone(i) == (i = 0 /\ s = 0)
                     \/ \E m \in i .. j - 1 : m >= 1 /\ IsDeletion(ds[m])
        Before(i) == IF i = 0 THEN l ELSE ds[i].rv
    IN  ~IsDeletion(ds[j]) =>
          \A i \in {0} \cup {m \in 1 .. j - 1 : ~IsDeletion(ds[m])} :
            IF Gone(i) THEN ds[j].rv > Before(i) ELSE ds[j].rv >= Before(i)

\* Every delta is from the history, and each deletion, pending or done, is
\* witnessed by a revision after what it deletes.
Sound(h, r, ds, s, l) ==
  /\ l \in 0 .. r /\ (l # 0 => Version(h, r, l))
  /\ s # 0 => s = l
  /\ s = 0 => GoneAfter(h, r, l)
  /\ \A j \in 1 .. Len(ds) : ~IsDeletion(ds[j]) => Version(h, r, ds[j].rv)
  /\ \A j \in 1 .. Len(ds) : IsDeletion(ds[j]) =>
       /\ GoneAfter(h, r, l)
       /\ \A i \in 1 .. j - 1 : ~IsDeletion(ds[i]) => GoneAfter(h, r, ds[i].rv)
  /\ Ordered(ds, s, l)

\* What the indexer has of the key when all is popped.
Final(ds, s) == IF ds = <<>> THEN s ELSE Effect(Last(ds))

LEMMA SoundExtends ==
  ASSUME NEW h, NEW g, NEW r \in Nat, NEW q \in Nat, r <= q, \A x \in 0 .. r : g[x] = h[x],
         NEW ds, NEW s, NEW l, Sound(h, r, ds, s, l)
  PROVE  Sound(g, q, ds, s, l)
<1>1. \A v : Version(h, r, v) => Version(g, q, v)
  BY DEF Version
<1>2. ASSUME NEW v \in Nat, GoneAfter(h, r, v) PROVE GoneAfter(g, q, v)
  <2>1. PICK x \in v .. r : h[x] = 0
    BY <1>2 DEF GoneAfter
  <2>2. x \in v .. q /\ x \in 0 .. r
    OBVIOUS
  <2> QED BY <2>1, <2>2 DEF GoneAfter
<1>3. l \in Nat /\ l \in 0 .. q
  BY DEF Sound
<1>4. \A j \in 1 .. Len(ds) : ~IsDeletion(ds[j]) => Version(h, r, ds[j].rv) /\ ds[j].rv \in Nat
  BY DEF Sound, Version
<1>5. ASSUME NEW j \in 1 .. Len(ds), IsDeletion(ds[j]), NEW i \in 1 .. j - 1, ~IsDeletion(ds[i]),
             Len(ds) \in Nat
      PROVE  GoneAfter(g, q, ds[i].rv)
  <2>1. GoneAfter(h, r, ds[i].rv)
    BY <1>5 DEF Sound
  <2>2. i \in 1 .. Len(ds)
    BY <1>5
  <2> QED BY <1>2, <1>4, <1>5, <2>1, <2>2
<1> QED BY <1>1, <1>2, <1>3, <1>4, <1>5 DEF Sound

\* The reflector goes back to q, but the key has not changed since.
LEMMA SoundBack ==
  ASSUME NEW h, NEW n \in Nat, Steady(h, n), NEW r \in 0 .. n, NEW q \in 0 .. r,
         \A x \in q .. r : h[x] = h[q],
         NEW ds, NEW s, NEW l, Sound(h, r, ds, s, l)
  PROVE  Sound(h, q, ds, s, l)
<1>0. q \in Nat /\ r \in Nat /\ q \in 0 .. n /\ h[q] \in Nat /\ h[q] <= q
  BY DEF Steady
<1>1. ASSUME NEW v, Version(h, r, v) PROVE Version(h, q, v) /\ v \in 0 .. q
  <2>1. v \in 1 .. r /\ h[v] = v
    BY <1>1 DEF Version
  <2>2. CASE v \in q .. r
    <3>1. v = h[q]
      BY <2>1, <2>2
    <3> QED BY <1>0, <2>1, <3>1 DEF Version
  <2>3. CASE v \in 1 .. q
    BY <1>0, <2>1, <2>3 DEF Version
  <2> QED BY <1>0, <2>1, <2>2, <2>3
<1>2. ASSUME NEW v \in 0 .. q, GoneAfter(h, r, v) PROVE GoneAfter(h, q, v)
  <2>1. PICK x \in v .. r : h[x] = 0
    BY <1>2 DEF GoneAfter
  <2>2. CASE x \in v .. q
    BY <2>1, <2>2 DEF GoneAfter
  <2>3. CASE x \in q .. r
    <3>1. h[q] = 0 /\ q \in v .. q
      BY <1>0, <2>1, <2>3
    <3> QED BY <3>1 DEF GoneAfter
  <2> QED BY <1>0, <2>1, <2>2, <2>3
<1>3. l \in 0 .. q /\ (l # 0 => Version(h, q, l))
  BY <1>0, <1>1 DEF Sound
<1>4. \A j \in 1 .. Len(ds) : ~IsDeletion(ds[j]) => /\ Version(h, q, ds[j].rv)
                                                   /\ ds[j].rv \in 0 .. q
  BY <1>1 DEF Sound
<1>5. ASSUME NEW j \in 1 .. Len(ds), IsDeletion(ds[j]), NEW i \in 1 .. j - 1, ~IsDeletion(ds[i]),
             Len(ds) \in Nat
      PROVE  GoneAfter(h, q, ds[i].rv)
  <2>1. GoneAfter(h, r, ds[i].rv)
    BY <1>5 DEF Sound
  <2>2. i \in 1 .. Len(ds)
    BY <1>5
  <2> QED BY <1>2, <1>4, <1>5, <2>1, <2>2
<1>6. (s = 0 => GoneAfter(h, q, l)) /\ \A j \in 1 .. Len(ds) : IsDeletion(ds[j]) => GoneAfter(h, q, l)
  BY <1>2, <1>3 DEF Sound
<1> QED BY <1>3, <1>4, <1>5, <1>6 DEF Sound

LEMMA SoundSame ==
  ASSUME NEW h, NEW r, NEW ds, NEW e, NEW s, NEW l, Len(ds) \in Nat,
         SameOrder(e, ds), Sound(h, r, ds, s, l)
  PROVE  Sound(h, r, e, s, l)
<1>1. /\ Len(e) = Len(ds)
      /\ \A j \in 1 .. Len(ds) : \A i \in 1 .. j - 1 :
           /\ IsDeletion(e[i]) <=> IsDeletion(ds[i])
           /\ ~IsDeletion(ds[i]) => e[i] = ds[i]
  BY DEF SameOrder
<1>2. Ordered(e, s, l)
  <2> SUFFICES ASSUME NEW j \in 1 .. Len(ds), ~IsDeletion(ds[j]),
                      NEW i \in {0} \cup {m \in 1 .. j - 1 : ~IsDeletion(ds[m])}
               PROVE  LET g == (i = 0 /\ s = 0)
                                 \/ \E m \in i .. j - 1 : m >= 1 /\ IsDeletion(ds[m])
                          b == IF i = 0 THEN l ELSE ds[i].rv
                      IN  IF g THEN ds[j].rv > b ELSE ds[j].rv >= b
    <3>1. \A j \in 1 .. Len(ds) : /\ IsDeletion(e[j]) <=> IsDeletion(ds[j])
                                  /\ ~IsDeletion(ds[j]) => e[j] = ds[j]
      BY DEF SameOrder
    <3>2. ASSUME NEW j \in 1 .. Len(ds), NEW i \in 0 .. j - 1
          PROVE  (\E m \in i .. j - 1 : m >= 1 /\ IsDeletion(e[m]))
                   <=> (\E m \in i .. j - 1 : m >= 1 /\ IsDeletion(ds[m]))
      BY <1>1, <3>2
    <3>3. ASSUME NEW j \in 1 .. Len(ds)
          PROVE  {m \in 1 .. j - 1 : ~IsDeletion(e[m])} = {m \in 1 .. j - 1 : ~IsDeletion(ds[m])}
      BY <1>1
    <3> QED BY <1>1, <3>1, <3>2, <3>3 DEF Ordered
  <2> QED BY DEF Sound, Ordered
<1> QED BY <1>1, <1>2 DEF Sound, SameOrder

LEMMA SoundAppend ==
  ASSUME NEW h, NEW n \in Nat, Steady(h, n), NEW r \in 0 .. n,
         NEW ds \in Seq(LiveDelta), NEW s, NEW l, Sound(h, r, ds, s, l),
         NEW d \in LiveDelta, IF IsDeletion(d) THEN h[r] = 0 ELSE d.rv = h[r]
  PROVE  Sound(h, r, Append(ds, d), s, l)
<1> DEFINE e == Append(ds, d)
           z == Len(ds)
<1>0. z \in Nat
  OBVIOUS
<1>1. Len(e) = z + 1 /\ e[z + 1] = d /\ \A i \in 1 .. z : e[i] = ds[i]
  OBVIOUS
<1>2. \A v \in 0 .. r : v \in Nat
  OBVIOUS
<1>3. \A i \in 1 .. z : ~IsDeletion(ds[i]) => Version(h, r, ds[i].rv) /\ ds[i].rv \in 0 .. r
  BY <1>0 DEF Sound, Version
<1>4. l \in 0 .. r /\ (l # 0 => Version(h, r, l))
  BY DEF Sound
<1>5. ~IsDeletion(d) => d.rv \in Nat /\ d.rv # 0 /\ d.rv = h[r] /\ Version(h, r, d.rv)
  BY DEF LiveDelta, Delta, Steady, Version
\* The version read at r is newer than any object that is gone.
<1>6. ASSUME NEW v \in 0 .. r, v = 0 \/ Version(h, r, v), ~IsDeletion(d)
      PROVE  d.rv >= v /\ (GoneAfter(h, r, v) => d.rv > v)
  <2>1. d.rv >= v
    BY <1>5, <1>6 DEF Version, Steady
  <2>2. ASSUME GoneAfter(h, r, v) PROVE d.rv > v
    <3>1. PICK q \in v .. r : h[q] = 0
      BY <2>2 DEF GoneAfter
    <3>2. q \in 0 .. r /\ q >= v
      OBVIOUS
    <3>3. h[r] > q
      BY <1>5, <1>6, <3>1, <3>2 DEF Steady
    <3> QED BY <1>5, <1>6, <3>2, <3>3
  <2> QED BY <2>1, <2>2
<1>7. IsDeletion(d) => \A v \in 0 .. r : GoneAfter(h, r, v)
  BY DEF GoneAfter
<1> HIDE DEF e, z
<1>8. Ordered(e, s, l)
  <2> SUFFICES ASSUME NEW j \in 1 .. z + 1, ~IsDeletion(e[j]),
                      NEW i \in {0} \cup {m \in 1 .. j - 1 : ~IsDeletion(e[m])}
               PROVE  LET g == (i = 0 /\ s = 0)
                                 \/ \E m \in i .. j - 1 : m >= 1 /\ IsDeletion(e[m])
                          b == IF i = 0 THEN l ELSE e[i].rv
                      IN  IF g THEN e[j].rv > b ELSE e[j].rv >= b
    BY <1>1 DEF Ordered
  <2>0. \A m \in 1 .. j - 1 : m \in 1 .. z /\ e[m] = ds[m]
    BY <1>0, <1>1
  <2>1. CASE j \in 1 .. z
    <3>1. e[j] = ds[j] /\ {m \in 1 .. j - 1 : ~IsDeletion(e[m])} = {m \in 1 .. j - 1 : ~IsDeletion(ds[m])}
      BY <1>1, <2>0, <2>1
    <3>2. (\E m \in i .. j - 1 : m >= 1 /\ IsDeletion(e[m]))
             <=> (\E m \in i .. j - 1 : m >= 1 /\ IsDeletion(ds[m]))
      BY <2>0
    <3>3. i # 0 => e[i] = ds[i]
      BY <2>0
    <3> QED BY <2>1, <3>1, <3>2, <3>3 DEF Sound, Ordered, z
  <2>2. CASE j = z + 1
    <3>1. e[j] = d /\ ~IsDeletion(d)
      BY <1>1, <2>2
    <3>2. CASE i = 0
      <4>1. ASSUME (i = 0 /\ s = 0) \/ \E m \in i .. j - 1 : m >= 1 /\ IsDeletion(e[m])
            PROVE  GoneAfter(h, r, l)
        <5>1. CASE s = 0
          BY <5>1 DEF Sound
        <5>2. CASE \E m \in i .. j - 1 : m >= 1 /\ IsDeletion(e[m])
          <6>1. PICK m \in i .. j - 1 : m >= 1 /\ IsDeletion(e[m])
            BY <5>2
          <6>2. m \in 1 .. z /\ IsDeletion(ds[m])
            BY <1>0, <2>0, <3>2, <6>1
          <6> QED BY <6>2 DEF Sound, z
        <5> QED BY <4>1, <5>1, <5>2
      <4> QED BY <1>4, <1>6, <3>1, <3>2, <4>1
    <3>3. CASE i # 0
      <4>1. i \in 1 .. z /\ ~IsDeletion(ds[i]) /\ e[i] = ds[i]
        BY <2>0, <3>3
      <4>2. ASSUME \E m \in i .. j - 1 : m >= 1 /\ IsDeletion(e[m])
            PROVE  GoneAfter(h, r, ds[i].rv)
        <5>1. PICK m \in i .. j - 1 : m >= 1 /\ IsDeletion(e[m])
          BY <4>2
        <5>2. m \in 1 .. z /\ IsDeletion(ds[m])
          BY <1>0, <2>0, <3>3, <5>1
        <5>3. i \in 1 .. m - 1
          BY <1>0, <4>1, <5>1, <5>2
        <5> QED BY <4>1, <5>2, <5>3 DEF Sound, z
      <4> QED BY <1>3, <1>6, <3>1, <3>3, <4>1, <4>2
    <3> QED BY <3>2, <3>3
  <2> QED BY <1>0, <2>1, <2>2
<1>9. \A j \in 1 .. z + 1 : ~IsDeletion(e[j]) => Version(h, r, e[j].rv)
  BY <1>0, <1>1, <1>3, <1>5
<1>10. ASSUME NEW j \in 1 .. z + 1, IsDeletion(e[j])
       PROVE  /\ GoneAfter(h, r, l)
              /\ \A i \in 1 .. j - 1 : ~IsDeletion(e[i]) => GoneAfter(h, r, e[i].rv)
  <2>0. \A m \in 1 .. j - 1 : m \in 1 .. z /\ e[m] = ds[m]
    BY <1>0, <1>1
  <2>1. CASE j \in 1 .. z
    <3>1. IsDeletion(ds[j])
      BY <1>1, <1>10, <2>1
    <3> QED BY <2>0, <2>1, <3>1 DEF Sound, z
  <2>2. CASE j = z + 1
    BY <1>1, <1>3, <1>4, <1>7, <1>10, <2>0, <2>2
  <2> QED BY <1>0, <2>1, <2>2
<1>11. (s # 0 => s = l) /\ (s = 0 => GoneAfter(h, r, l))
  BY DEF Sound
<1>12. Sound(h, r, e, s, l)
  BY <1>1, <1>4, <1>8, <1>9, <1>10, <1>11 DEF Sound
<1> QED BY <1>12 DEF e

\* A delta with what the reflector has read decides what the key comes to,
\* unless it is a Sync that is dropped, ...
LEMMA QueuedFinal ==
  ASSUME NEW v, NEW ds \in Seq(LiveDelta), NEW s,
         NEW d \in LiveDelta, IF IsDeletion(d) THEN v = 0 ELSE d.rv = v,
         ~(d.type = "Sync" /\ willObjectBeDeleted(ds))
  PROVE  Final(Queued(ds, d), s) = v
<1> DEFINE q == Queued(ds, d)
<1>1. CASE /\ IsDeletion(d) /\ willObjectBeDeleted(ds)
           /\ SameOrder(q, ds)
  <2>1. ds # <<>> /\ IsDeletion(ds[Len(ds)])
    BY <1>1 DEF willObjectBeDeleted
  <2>2. Len(ds) \in 1 .. Len(ds)
    BY <2>1
  <2> HIDE DEF q
  <2>3. Len(q) = Len(ds) /\ IsDeletion(q[Len(ds)])
    BY <1>1, <2>1, <2>2 DEF SameOrder
  <2>4. q # <<>>
    BY <2>2, <2>3
  <2> QED BY <1>1, <2>3, <2>4 DEF Final, Effect, Last, q
<1>2. CASE q = Append(ds, d)
  <2>1. Append(ds, d) # <<>> /\ Last(Append(ds, d)) = d
    BY DEF Last
  <2> QED BY <1>2, <2>1 DEF Final, Effect
<1> QED BY <1>1, <1>2, QueuedCases

\* ... and keeps the order.
LEMMA SoundQueued ==
  ASSUME NEW h, NEW n \in Nat, Steady(h, n), NEW r \in 0 .. n,
         NEW ds \in Seq(LiveDelta), NEW s, NEW l, Sound(h, r, ds, s, l),
         NEW d \in LiveDelta, IF IsDeletion(d) THEN h[r] = 0 ELSE d.rv = h[r]
  PROVE  Sound(h, r, Queued(ds, d), s, l)
<1> DEFINE q == Queued(ds, d)
<1>0. Len(ds) \in Nat
  OBVIOUS
<1>1. CASE q = ds
  BY <1>1
<1>2. CASE SameOrder(q, ds)
  BY <1>0, <1>2, SoundSame
<1>3. CASE q = Append(ds, d)
  BY <1>3, SoundAppend
<1> QED BY <1>1, <1>2, <1>3, QueuedCases

\* A Sync of the stored object, when nothing is pending.
LEMMA ResyncFinal == ASSUME NEW s PROVE Final(<<D("Sync", s)>>, s) = s
<1> DEFINE e == <<D("Sync", s)>>
<1>1. Len(e) = 1 /\ ~IsDeletion(e[1]) /\ e[1].rv = s
  BY DEF D, IsDeletion
<1> HIDE DEF e
<1>2. e # <<>> /\ Last(e) = e[1]
  BY <1>1 DEF Last
<1> QED BY <1>1, <1>2 DEF Final, Effect, e

LEMMA SoundResync ==
  ASSUME NEW h, NEW r \in Nat, NEW s \in Nat, s # 0, NEW l, Sound(h, r, <<>>, s, l)
  PROVE  Sound(h, r, <<D("Sync", s)>>, s, l)
<1> DEFINE e == <<D("Sync", s)>>
<1>1. Len(e) = 1 /\ ~IsDeletion(e[1]) /\ e[1].rv = s
  BY DEF D, IsDeletion
<1>2. s = l /\ l \in 0 .. r /\ Version(h, r, l)
  BY DEF Sound
<1> HIDE DEF e
<1>3. Ordered(e, s, l)
  <2> SUFFICES ASSUME NEW j \in 1 .. 1, ~IsDeletion(e[j]),
                      NEW i \in {0} \cup {m \in 1 .. j - 1 : ~IsDeletion(e[m])}
               PROVE  LET g == (i = 0 /\ s = 0)
                                 \/ \E m \in i .. j - 1 : m >= 1 /\ IsDeletion(e[m])
                          b == IF i = 0 THEN l ELSE e[i].rv
                      IN  IF g THEN e[j].rv > b ELSE e[j].rv >= b
    BY <1>1 DEF Ordered
  <2>1. j = 1 /\ i = 0
    OBVIOUS
  <2>2. ~ \E m \in 0 .. 0 : m >= 1
    OBVIOUS
  <2> QED BY <1>1, <1>2, <2>1, <2>2
<1>4. \A j \in 1 .. Len(e) : j = 1
  BY <1>1
<1>5. Sound(h, r, e, s, l)
  BY <1>1, <1>2, <1>3, <1>4 DEF Sound
<1> QED BY <1>5 DEF e

\* HandleDeltas replays the deltas: the order is kept for those to come.
LEMMA SoundPop ==
  ASSUME NEW h, NEW r \in Nat, NEW ds \in Seq(LiveDelta), ds # <<>>,
         NEW s, NEW l, Sound(h, r, ds, s, l)
  PROVE  Sound(h, r, <<>>, Effect(Last(ds)), Max({l} \cup {Effect(d) : d \in Range(ds)}))
<1> DEFINE z == Len(ds)
           S == {l} \cup {Effect(d) : d \in Range(ds)}
           x == Max(S)
           t == Effect(Last(ds))
<1>0. z \in Nat /\ z \in 1 .. z /\ Last(ds) = ds[z] /\ \A i \in 1 .. z : ds[i] \in LiveDelta
  BY DEF Last
<1>1. S = {l} \cup {Effect(ds[i]) : i \in 1 .. z}
  BY <1>0 DEF Range
<1>2. l \in 0 .. r /\ (l # 0 => Version(h, r, l))
  BY DEF Sound
<1>3. \A i \in 1 .. z : IF IsDeletion(ds[i]) THEN Effect(ds[i]) = 0
                        ELSE /\ Effect(ds[i]) = ds[i].rv /\ ds[i].rv # 0
                             /\ Version(h, r, ds[i].rv) /\ ds[i].rv \in 0 .. r
  BY <1>0 DEF Effect, Sound, Version, LiveDelta
<1> HIDE DEF z
<1>4. S \in SUBSET (0 .. r) /\ S # {} /\ \A v \in S : v # 0 => Version(h, r, v)
  <2>1. \A i \in 1 .. z : /\ Effect(ds[i]) \in 0 .. r
                          /\ Effect(ds[i]) # 0 => Version(h, r, Effect(ds[i]))
    <3> SUFFICES ASSUME NEW i \in 1 .. z
                 PROVE  /\ Effect(ds[i]) \in 0 .. r
                        /\ Effect(ds[i]) # 0 => Version(h, r, Effect(ds[i]))
      OBVIOUS
    <3>1. 0 \in 0 .. r
      OBVIOUS
    <3>2. CASE IsDeletion(ds[i])
      <4>1. Effect(ds[i]) = 0
        BY <1>3, <3>2
      <4> QED BY <3>1, <4>1
    <3>3. CASE ~IsDeletion(ds[i])
      <4>1. Effect(ds[i]) = ds[i].rv /\ Version(h, r, ds[i].rv) /\ ds[i].rv \in 0 .. r
        BY <1>3, <3>3
      <4> QED BY <4>1
    <3> QED BY <3>2, <3>3
  <2>2. \A v \in S : v = l \/ \E i \in 1 .. z : v = Effect(ds[i])
    BY <1>1
  <2>3. \A v \in S : v \in 0 .. r /\ (v # 0 => Version(h, r, v))
    BY <1>2, <2>1, <2>2
  <2> QED BY <2>3
<1>5. x \in S /\ \A y \in S : x >= y
  <2> HIDE DEF S
  <2> QED BY <1>4, MaxExists
<1>6. l \in S /\ \A i \in 1 .. z : Effect(ds[i]) \in S
  BY <1>1
<1> HIDE DEF x
\* The last delta is the newest, if it is no deletion.
<1>7. ASSUME t # 0 PROVE t = x
  <2>1. ~IsDeletion(ds[z]) /\ t = ds[z].rv /\ t \in S
    BY <1>0, <1>3, <1>6, <1>7
  <2>2. ASSUME NEW i \in {0} \cup {m \in 1 .. z - 1 : ~IsDeletion(ds[m])}
        PROVE  t >= IF i = 0 THEN l ELSE ds[i].rv
    <3>1. IF (i = 0 /\ s = 0) \/ \E m \in i .. z - 1 : m >= 1 /\ IsDeletion(ds[m])
          THEN ds[z].rv > (IF i = 0 THEN l ELSE ds[i].rv)
          ELSE ds[z].rv >= (IF i = 0 THEN l ELSE ds[i].rv)
      BY <1>0, <2>1, <2>2 DEF Sound, Ordered, z
    <3>2. ds[z].rv \in Nat /\ (IF i = 0 THEN l ELSE ds[i].rv) \in Nat
      BY <1>0, <1>2, <1>3, <2>1, <2>2
    <3> QED BY <2>1, <3>1, <3>2
  <2>3. ASSUME NEW i \in 1 .. z PROVE t >= Effect(ds[i])
    <3>1. CASE IsDeletion(ds[i])
      BY <1>3, <1>4, <2>1, <3>1
    <3>2. CASE ~IsDeletion(ds[i]) /\ i \in 1 .. z - 1
      BY <1>3, <2>2, <3>2
    <3>3. CASE i = z
      BY <1>3, <1>4, <2>1, <3>3
    <3> QED BY <1>0, <3>1, <3>2, <3>3
  <2>4. \A y \in S : t >= y
    BY <1>1, <2>2, <2>3
  <2>5. x \in 0 .. r /\ t \in 0 .. r /\ t >= x /\ x >= t
    BY <1>4, <1>5, <2>1, <2>4
  <2> HIDE DEF t
  <2> QED BY <2>5
<1>8. ASSUME t = 0 PROVE GoneAfter(h, r, x)
  <2>1. IsDeletion(ds[z])
    BY <1>0, <1>3, <1>8
  <2>2. /\ GoneAfter(h, r, l)
        /\ \A i \in 1 .. z - 1 : ~IsDeletion(ds[i]) => GoneAfter(h, r, ds[i].rv)
    BY <1>0, <2>1 DEF Sound, z
  <2>3. CASE x = l
    BY <2>2, <2>3
  <2>4. CASE x # l
    <3>1. PICK i \in 1 .. z : x = Effect(ds[i])
      BY <1>1, <1>5, <2>4
    <3>2. x # 0
      BY <1>2, <1>4, <1>5, <1>6, <2>4
    <3>3. ~IsDeletion(ds[i]) /\ x = ds[i].rv
      BY <1>3, <3>1, <3>2
    <3>4. i \in 1 .. z - 1
      BY <1>0, <2>1, <3>3
    <3> QED BY <2>2, <3>3, <3>4
  <2> QED BY <2>3, <2>4
<1>9. Len(<<>>) = 0 /\ 1 .. 0 = {}
  OBVIOUS
<1>10. Ordered(<<>>, t, x)
  BY <1>9 DEF Ordered
<1>11. x \in 0 .. r /\ (x # 0 => Version(h, r, x))
  BY <1>4, <1>5
<1> HIDE DEF t
<1>12. Sound(h, r, <<>>, t, x)
  BY <1>7, <1>8, <1>9, <1>10, <1>11 DEF Sound
<1> QED BY <1>12 DEF t, x

\* The history goes on: the key has the version it had, a new one or none.
LEMMA SteadyExtends ==
  ASSUME NEW n \in Nat, NEW h, Steady(h, n), NEW g \in [0 .. n + 1 -> Nat],
         \A q \in 0 .. n : g[q] = h[q], g[n + 1] \in {0, n + 1, h[n]}
  PROVE  Steady(g, n + 1)
<1>1. \A q \in 0 .. n : /\ h[q] \in Nat /\ h[q] <= q /\ h[q] \in 0 .. n
                        /\ h[h[q]] = h[q] /\ g[h[q]] = h[q]
  BY DEF Steady
<1>2. \A x \in 0 .. n : \A q \in 0 .. x :
        h[x] # 0 => h[x] >= h[q] /\ (h[q] = 0 => h[x] > q)
  BY DEF Steady
<1>3. g[0] = 0 /\ n \in 0 .. n
  BY DEF Steady
<1>4. ASSUME NEW x \in 0 .. n + 1 PROVE g[x] <= x /\ g[g[x]] = g[x]
  <2>1. CASE x \in 0 .. n
    BY <1>1, <2>1
  <2>2. CASE x = n + 1
    <3>1. CASE g[x] = 0
      BY <1>3, <3>1
    <3>2. CASE g[x] = n + 1
      BY <2>2, <3>2
    <3>3. CASE g[x] = h[n]
      BY <1>1, <1>3, <2>2, <3>3
    <3> QED BY <2>2, <3>1, <3>2, <3>3
  <2> QED BY <2>1, <2>2
<1>5. ASSUME NEW x \in 0 .. n + 1, NEW q \in 0 .. x, g[x] # 0
      PROVE  g[x] >= g[q] /\ (g[q] = 0 => g[x] > q)
  <2>1. CASE x \in 0 .. n
    <3>1. q \in 0 .. n /\ g[x] = h[x] /\ g[q] = h[q]
      BY <2>1
    <3> QED BY <1>2, <1>5, <2>1, <3>1
  <2>2. CASE x = n + 1 /\ q = n + 1
    BY <1>5, <2>2
  <2>3. CASE x = n + 1 /\ q \in 0 .. n
    <3>1. g[q] = h[q] /\ h[q] \in Nat /\ h[q] <= q /\ q <= n
      BY <1>1, <2>3
    <3>2. CASE g[x] = n + 1
      BY <3>1, <3>2
    <3>3. CASE g[x] = h[n]
      <4>1. h[n] >= h[q] /\ (h[q] = 0 => h[n] > q)
        BY <1>2, <1>3, <1>5, <2>3, <3>3
      <4> QED BY <3>1, <3>3, <4>1
    <3> QED BY <1>5, <2>3, <3>2, <3>3
  <2> QED BY <2>1, <2>2, <2>3
<1> QED BY <1>3, <1>4, <1>5 DEF Steady

-----------------------------------------------------------------------------
(***************************************************************************)
(* The order of the deltas of all keys.  A key that no Replace mistreated  *)
(* comes to what the reflector has read, once its deltas are popped; one   *)
(* that no list took back has its deltas in order.                         *)
(***************************************************************************)
History(k) == [q \in 0 .. Len(log) |-> At(q)[k]]

LogSteps == \A r \in 1 .. Len(log) : \A j \in Key :
              IF j = log[r].key THEN At(r)[j] \in {0, r} ELSE At(r)[j] = At(r - 1)[j]

LogRuns == \A b \in 0 .. Len(log) : \A a \in 0 .. b : \A j \in Key :
             (\A q \in a + 1 .. b : log[q].key # j) => At(b)[j] = At(a)[j]

KeyOrder(k) ==
  /\ Steady(History(k), Len(log))
  /\ k \notin back => Sound(History(k), rv, items[k], store[k], last[k])
  /\ k \notin blind => Final(items[k], store[k]) = At(rv)[k]

OrderInv == LogSteps /\ LogRuns /\ \A k \in Key : KeyOrder(k)

\* What the type invariant says of the variables that the others do not need.
RestInv == /\ populated \in BOOLEAN /\ closed \in BOOLEAN
           /\ popper \in {"ready", "testing", "waiting", "returned"}
           /\ reflector \in {"list", "watch", "stopped"}
           /\ resync \in BOOLEAN /\ stopCh \in BOOLEAN
           /\ syncing \subseteq joined
           /\ awaited \subseteq Key /\ last \in [Key -> Nat]
           /\ blind \subseteq Key /\ back \subseteq Key

DeliveryInv == InformerInv /\ OrderInv /\ RestInv

LEMMA DeliveryInit == Init => DeliveryInv
<1> SUFFICES ASSUME Init PROVE DeliveryInv
  OBVIOUS
<1>1. InformerInv
  BY InformerInit
<1>2. RestInv
  BY DEF Init, FIFOInit, RestInv, Nothing
<1>3. LogSteps /\ LogRuns
  <2>1. Len(log) = 0
    BY DEF Init
  <2>2. \A b \in 0 .. 0 : \A a \in 0 .. b : a = b
    OBVIOUS
  <2> QED BY <2>1, <2>2 DEF LogSteps, LogRuns
<1>4. ASSUME NEW k \in Key PROVE KeyOrder(k)
  <2>1. /\ Len(log) = 0 /\ rv = 0 /\ items[k] = <<>> /\ store[k] = 0 /\ last[k] = 0
        /\ At(0)[k] = 0
    BY DEF Init, FIFOInit, At, Nothing
  <2>2. PICK h : h = History(k)
    OBVIOUS
  <2>3. h \in [0 .. 0 -> Nat] /\ h[0] = 0
    <3>1. h = [q \in 0 .. 0 |-> At(q)[k]]
      BY <2>1, <2>2 DEF History
    <3>2. \A q \in 0 .. 0 : q = 0
      OBVIOUS
    <3> QED BY <2>1, <3>1, <3>2
  <2>4. Steady(h, 0)
    BY <2>3 DEF Steady
  <2>5. Sound(h, 0, <<>>, 0, 0)
    BY <2>3 DEF Sound, GoneAfter, Ordered
  <2>6. Final(<<>>, 0) = 0
    BY DEF Final
  <2> QED BY <2>1, <2>2, <2>4, <2>5, <2>6 DEF KeyOrder
<1> QED BY <1>1, <1>2, <1>3, <1>4 DEF DeliveryInv, OrderInv

\* What is known of a key that the reflector, going to r, may queue.
LEMMA KeyFacts ==
  ASSUME DeliveryInv, NEW k \in Key, NEW r \in 0 .. Len(log)
  PROVE  /\ Len(log) \in Nat
         /\ Steady(History(k), Len(log))
         /\ History(k)[r] = At(r)[k]
         /\ k \notin back /\ (\A q \in r + 1 .. rv : log[q].key # k)
              => Sound(History(k), r, items[k], store[k], last[k])
         /\ items[k] \in Seq(LiveDelta)
<1>1. Len(log) \in Nat /\ rv \in Nat /\ r \in Nat /\ rv \in 0 .. Len(log)
  BY DEF DeliveryInv, InformerInv, LogInv
<1>2. /\ Steady(History(k), Len(log)) /\ LogRuns
      /\ k \notin back => Sound(History(k), rv, items[k], store[k], last[k])
  BY DEF DeliveryInv, OrderInv, KeyOrder
<1>3. ASSUME k \notin back, \A q \in r + 1 .. rv : log[q].key # k
      PROVE  Sound(History(k), r, items[k], store[k], last[k])
  <2>1. CASE rv <= r
    BY <1>1, <1>2, <1>3, <2>1, SoundExtends
  <2>2. CASE r < rv
    <3>1. ASSUME NEW x \in r .. rv PROVE History(k)[x] = History(k)[r]
      <4>1. x \in 0 .. Len(log) /\ r \in 0 .. x /\ \A q \in r + 1 .. x : q \in r + 1 .. rv
        BY <1>1
      <4>2. At(x)[k] = At(r)[k]
        BY <1>2, <1>3, <4>1 DEF LogRuns
      <4> QED BY <4>1, <4>2 DEF History
    <3>2. r \in 0 .. rv
      BY <1>1, <2>2
    <3> QED BY <1>1, <1>2, <1>3, <3>1, <3>2, SoundBack
  <2> QED BY <1>1, <2>1, <2>2
<1>4. History(k)[r] = At(r)[k]
  BY <1>1 DEF History
<1>5. items[k] \in Seq(LiveDelta)
  BY DEF DeliveryInv, InformerInv, FIFOInv
<1> QED BY <1>1, <1>2, <1>3, <1>4, <1>5

\* The reflector goes to r and queues a delta with what it read ...
LEMMA KeyQueued ==
  ASSUME DeliveryInv, NEW k \in Key, NEW r \in 0 .. Len(log), NEW d \in LiveDelta,
         log' = log, rv' = r, items'[k] = Queued(items[k], d),
         store'[k] = store[k], k \notin back' => last'[k] = last[k],
         k \notin back' => k \notin back /\ \A q \in r + 1 .. rv : log[q].key # k,
         IF IsDeletion(d) THEN At(r)[k] = 0 ELSE d.rv = At(r)[k],
         d.type = "Sync" /\ willObjectBeDeleted(items[k]) => k \in blind'
  PROVE  KeyOrder(k)'
<1>1. PICK h : h = History(k)
  OBVIOUS
<1>2. /\ Len(log) \in Nat /\ Steady(h, Len(log)) /\ h[r] = At(r)[k]
      /\ k \notin back' => Sound(h, r, items[k], store[k], last[k])
      /\ items[k] \in Seq(LiveDelta)
  BY <1>1, KeyFacts
<1>3. k \notin back' => Sound(h, r, Queued(items[k], d), store[k], last[k])
  BY <1>2, SoundQueued
<1>4. ~(d.type = "Sync" /\ willObjectBeDeleted(items[k]))
           => Final(Queued(items[k], d), store[k]) = h[r]
  BY <1>2, QueuedFinal
<1>5. History(k)' = h
  BY <1>1 DEF History, At
<1>6. At(rv)'[k] = h[r]
  BY <1>2 DEF At
<1> QED BY <1>2, <1>3, <1>4, <1>5, <1>6 DEF KeyOrder

\* ... or nothing.
LEMMA KeyStays ==
  ASSUME DeliveryInv, NEW k \in Key, NEW r \in 0 .. Len(log),
         log' = log, rv' = r, items'[k] = items[k],
         store'[k] = store[k], k \notin back' => last'[k] = last[k],
         k \notin back' => k \notin back /\ \A q \in r + 1 .. rv : log[q].key # k,
         k \notin blind' => Final(items[k], store[k]) = At(r)[k]
  PROVE  KeyOrder(k)'
<1>1. PICK h : h = History(k)
  OBVIOUS
<1>2. /\ Steady(h, Len(log)) /\ h[r] = At(r)[k]
      /\ k \notin back' => Sound(h, r, items[k], store[k], last[k])
  BY <1>1, KeyFacts
<1>3. History(k)' = h
  BY <1>1 DEF History, At
<1>4. At(rv)'[k] = At(r)[k]
  BY DEF At
<1> QED BY <1>2, <1>3, <1>4 DEF KeyOrder

LEMMA LogStays == ASSUME LogSteps, LogRuns, log' = log PROVE LogSteps' /\ LogRuns'
BY DEF LogSteps, LogRuns, At, Nothing

\* The steps that touch neither the deltas nor the indexer nor the log.
LEMMA OrderQuiet ==
  ASSUME OrderInv, UNCHANGED <<log, rv, items, store, last, blind, back>>
  PROVE  OrderInv'
<1>1. ASSUME NEW k \in Key PROVE KeyOrder(k)'
  <2>1. History(k)' = History(k) /\ At(rv)' = At(rv)
    BY DEF History, At
  <2> QED BY <2>1 DEF OrderInv, KeyOrder
<1> QED BY <1>1, LogStays DEF OrderInv

LEMMA ChangeOrder ==
  ASSUME DeliveryInv, NEW k \in Key, NEW alive \in BOOLEAN, Change(k, alive)
  PROVE  OrderInv'
<1> DEFINE Entry == [key : Key, state : [Key -> Nat]]
<1>0. PICK n \in Nat : n = Len(log)
  BY DEF DeliveryInv, InformerInv, LogInv
<1>1. log \in Seq(Entry) /\ rv \in 0 .. n /\ n \in 0 .. n /\ LogInv
  BY <1>0 DEF DeliveryInv, InformerInv, LogInv
<1>2. PICK v \in {0, n + 1} :
        log' = Append(log, [key |-> k, state |-> [Now EXCEPT ![k] = v]])
  BY <1>0 DEF Change
<1>3. UNCHANGED <<rv, items, store, last, blind, back>>
  BY DEF Change, fifoVars, reflectVars, historyVars
<1>4. Now \in [Key -> Nat] /\ Now = At(n)
  BY <1>0, <1>1, AtType DEF Now
<1>5. PICK e : e = [key |-> k, state |-> [Now EXCEPT ![k] = v]]
  OBVIOUS
<1>6. e \in Entry /\ e.key = k /\ e.state = [Now EXCEPT ![k] = v]
  BY <1>4, <1>5
<1> HIDE DEF Entry
<1>7. /\ Len(log') = n + 1 /\ log'[n + 1] = e
      /\ \A q \in 1 .. n : log'[q] = log[q]
  BY <1>0, <1>1, <1>2, <1>5, <1>6
<1>8. (\A q \in 0 .. n : At(q)' = At(q)) /\ At(n + 1)' = [At(n) EXCEPT ![k] = v]
  <2>1. n + 1 # 0 /\ \A q \in 0 .. n : q = 0 \/ q \in 1 .. n
    OBVIOUS
  <2>2. At(n + 1)' = e.state
    BY <1>7, <2>1 DEF At
  <2>3. ASSUME NEW q \in 0 .. n PROVE At(q)' = At(q)
    BY <1>7, <2>1 DEF At, Nothing
  <2> QED BY <1>4, <1>6, <2>2, <2>3
<1>9. LogSteps'
  <2> SUFFICES ASSUME NEW r \in 1 .. n + 1, NEW j \in Key
               PROVE  IF j = log'[r].key THEN At(r)'[j] \in {0, r} ELSE At(r)'[j] = At(r - 1)'[j]
    BY <1>7 DEF LogSteps
  <2>1. CASE r = n + 1
    <3>1. r - 1 = n /\ n \in 0 .. n
      BY <2>1
    <3>2. At(r - 1)' = At(n)
      BY <1>8, <3>1
    <3>3. At(r)' = [At(n) EXCEPT ![k] = v] /\ log'[r].key = k
      BY <1>6, <1>7, <1>8, <2>1
    <3> QED BY <1>4, <2>1, <3>2, <3>3
  <2>2. CASE r \in 1 .. n
    <3>1. r \in 0 .. n /\ r - 1 \in 0 .. n /\ log'[r] = log[r]
      BY <1>7, <2>2
    <3>2. At(r)' = At(r) /\ At(r - 1)' = At(r - 1)
      BY <1>8, <3>1
    <3>3. IF j = log[r].key THEN At(r)[j] \in {0, r} ELSE At(r)[j] = At(r - 1)[j]
      BY <1>0, <2>2 DEF DeliveryInv, OrderInv, LogSteps
    <3> QED BY <3>1, <3>2, <3>3
  <2> QED BY <2>1, <2>2
<1>11. LogRuns'
  <2> SUFFICES ASSUME NEW b \in 0 .. n + 1, NEW a \in 0 .. b, NEW j \in Key,
                      \A q \in a + 1 .. b : log'[q].key # j
               PROVE  At(b)'[j] = At(a)'[j]
    BY <1>7 DEF LogRuns
  <2>0. \A c \in 0 .. n, d \in 0 .. n : d <= c /\ (\A q \in d + 1 .. c : log[q].key # j)
                                             => At(c)[j] = At(d)[j]
    BY <1>0 DEF DeliveryInv, OrderInv, LogRuns
  <2>1. CASE b \in 0 .. n
    <3>1. a \in 0 .. n /\ a <= b /\ \A q \in a + 1 .. b : log'[q] = log[q]
      BY <1>7, <2>1
    <3>2. At(b)[j] = At(a)[j]
      BY <2>0, <2>1, <3>1
    <3> QED BY <1>8, <2>1, <3>1, <3>2
  <2>2. CASE b = n + 1 /\ a = n + 1
    BY <2>2
  <2>3. CASE b = n + 1 /\ a \in 0 .. n
    <3>1. n + 1 \in a + 1 .. b /\ a <= n
      BY <2>3
    <3>2. j # k
      BY <1>6, <1>7, <3>1
    <3>3. \A q \in a + 1 .. n : log'[q] = log[q] /\ q \in a + 1 .. b
      BY <1>7, <2>3
    <3>4. At(n)[j] = At(a)[j]
      BY <1>1, <2>0, <2>3, <3>1, <3>3
    <3>5. At(n + 1)'[j] = At(n)[j]
      BY <1>4, <1>8, <3>2
    <3> QED BY <1>8, <2>3, <3>4, <3>5
  <2> QED BY <2>1, <2>2, <2>3
<1>10. ASSUME NEW j \in Key PROVE KeyOrder(j)'
  <2>1. PICK h : h = History(j)
    OBVIOUS
  <2>2. PICK g : g = [q \in 0 .. n + 1 |-> At(q)'[j]]
    OBVIOUS
  <2>3. History(j)' = g
    BY <1>7, <2>2 DEF History
  <2>4. /\ \A q \in 0 .. n : g[q] = h[q] /\ g[q] = At(q)[j]
        /\ g[n + 1] = [At(n) EXCEPT ![k] = v][j]
    <3>1. \A q \in 0 .. n : h[q] = At(q)[j]
      BY <1>0, <2>1 DEF History
    <3>2. \A q \in 0 .. n + 1 : g[q] = At(q)'[j]
      BY <2>2
    <3>3. \A q \in 0 .. n : q \in 0 .. n + 1 /\ g[q] = At(q)'[j]
      BY <3>2
    <3>4. \A q \in 0 .. n : At(q)'[j] = At(q)[j]
      BY <1>8
    <3>5. n + 1 \in 0 .. n + 1
      OBVIOUS
    <3>6. g[n + 1] = [At(n) EXCEPT ![k] = v][j]
      BY <1>8, <3>2, <3>5
    <3> QED BY <3>1, <3>3, <3>4, <3>6
  <2>5. /\ Steady(h, n) /\ (j \notin back => Sound(h, rv, items[j], store[j], last[j]))
        /\ j \notin blind => Final(items[j], store[j]) = At(rv)[j]
    BY <1>0, <2>1 DEF DeliveryInv, OrderInv, KeyOrder
  <2>6. g \in [0 .. n + 1 -> Nat] /\ g[n + 1] \in {0, n + 1, h[n]}
    <3>1. g[n + 1] \in {v, h[n]}
      <4>1. h[n] = At(n)[j]
        BY <1>1, <2>4
      <4> QED BY <1>4, <2>4, <4>1
    <3>2. \A q \in 0 .. n : g[q] \in Nat
      BY <2>4, <2>5 DEF Steady
    <3>3. h[n] \in Nat
      BY <1>1, <2>5 DEF Steady
    <3>4. \A q \in 0 .. n + 1 : q \in 0 .. n \/ q = n + 1
      OBVIOUS
    <3>5. \A q \in 0 .. n + 1 : g[q] \in Nat
      BY <3>1, <3>2, <3>3, <3>4
    <3>6. DOMAIN g = 0 .. n + 1 /\ g = [q \in 0 .. n + 1 |-> g[q]]
      BY <2>2
    <3> QED BY <3>1, <3>5, <3>6
  <2>7. Steady(g, n + 1)
    BY <2>4, <2>5, <2>6, SteadyExtends
  <2>8. j \notin back => Sound(g, rv, items[j], store[j], last[j])
    <3>1. rv \in Nat /\ rv <= rv /\ \A q \in 0 .. rv : g[q] = h[q]
      BY <1>1, <2>4
    <3> QED BY <2>5, <3>1, SoundExtends
  <2>9. At(rv)' = At(rv)
    BY <1>1, <1>3, <1>8
  <2> QED BY <1>3, <1>7, <2>3, <2>5, <2>7, <2>8, <2>9 DEF KeyOrder
<1> QED BY <1>9, <1>10, <1>11 DEF OrderInv

LEMMA ListOrder == ASSUME DeliveryInv, ListAndReplace PROVE OrderInv'
<1>1. PICK r \in 0 .. Len(log) :
        /\ Replace(At(r))
        /\ rv' = r
        /\ blind' = blind \cup SyncDropped(At(r)) \cup DeletionMissed(At(r))
        /\ back' = back \cup {log[q].key : q \in r + 1 .. rv}
  BY DEF ListAndReplace
<1>2. /\ log' = log /\ store' = store /\ store \in [Key -> Nat]
      /\ \A k \in Key : k \notin back' => last'[k] = last[k]
      /\ \A k : k \notin back' => k \notin back /\ \A q \in r + 1 .. rv : log[q].key # k
  BY <1>1 DEF ListAndReplace, Replace, DeliveryInv, InformerInv, FIFOInv, LogInv
<1>3. At(r) \in [Key -> Nat]
  BY <1>2, AtType DEF DeliveryInv, InformerInv
<1>4. ASSUME NEW k \in Key PROVE KeyOrder(k)'
  <2>0. items'[k] = IF At(r)[k] # 0 THEN Queued(items[k], D("Sync", At(r)[k]))
                    ELSE IF store[k] # 0 THEN Queued(items[k], D("Tombstone", store[k]))
                    ELSE items[k]
    <3> DEFINE listed  == {j \in Key : At(r)[j] # 0}
               missing == {j \in Key \ listed : store[j] # 0}
    <3>1. items' = [j \in Key |->
                      IF j \in listed THEN Queued(items[j], D("Sync", At(r)[j]))
                      ELSE IF j \in missing THEN Queued(items[j], D("Tombstone", store[j]))
                      ELSE items[j]]
      BY <1>1 DEF Replace
    <3> QED BY <3>1
  <2>1. CASE At(r)[k] # 0
    <3>1. PICK d : d = D("Sync", At(r)[k])
      OBVIOUS
    <3>2. d \in LiveDelta /\ ~IsDeletion(d) /\ d.rv = At(r)[k]
      BY <1>3, <2>1, <3>1, LiveDeltas DEF D, IsDeletion
    <3>3. willObjectBeDeleted(items[k]) => k \in blind'
      BY <1>1, <2>1 DEF SyncDropped
    <3> QED BY <1>1, <1>2, <2>0, <2>1, <3>1, <3>2, <3>3, KeyQueued
  <2>2. CASE At(r)[k] = 0 /\ store[k] # 0
    <3>1. PICK d : d = D("Tombstone", store[k])
      OBVIOUS
    <3>2. d \in LiveDelta /\ IsDeletion(d) /\ d.type # "Sync"
      BY <1>2, <3>1, LiveDeltas DEF D, IsDeletion
    <3> QED BY <1>1, <1>2, <2>0, <2>2, <3>1, <3>2, KeyQueued
  <2>3. CASE At(r)[k] = 0 /\ store[k] = 0
    <3>1. ASSUME k \notin blind' PROVE Final(items[k], store[k]) = 0
      <4>1. CASE items[k] = <<>>
        BY <2>3, <4>1 DEF Final
      <4>2. CASE items[k] # <<>>
        <5>1. willObjectBeDeleted(items[k])
          BY <1>1, <2>3, <3>1, <4>2 DEF DeletionMissed, Pending
        <5> QED BY <4>2, <5>1 DEF Final, willObjectBeDeleted, Effect, Last
      <4> QED BY <4>1, <4>2
    <3> QED BY <1>1, <1>2, <2>0, <2>3, <3>1, KeyStays
  <2> QED BY <2>1, <2>2, <2>3
<1>5. LogSteps' /\ LogRuns'
  BY <1>2, LogStays DEF DeliveryInv, OrderInv
<1> QED BY <1>4, <1>5 DEF OrderInv

LEMMA WatchOrder == ASSUME DeliveryInv, WatchEvent PROVE OrderInv'
<1> DEFINE Entry == [key : Key, state : [Key -> Nat]]
<1>1. /\ log \in Seq(Entry) /\ Len(log) \in Nat /\ rv \in Nat
      /\ rv < Len(log) /\ rv' = rv + 1 /\ log' = log /\ last' = last /\ blind' = blind
      /\ back' = back
  BY DEF DeliveryInv, InformerInv, LogInv, WatchEvent, historyVars
<1>2. PICK r \in 0 .. Len(log) : r = rv + 1
  BY <1>1
<1>2a. \A q \in r + 1 .. rv : FALSE
  BY <1>1, <1>2
<1>3. r \in 1 .. Len(log) /\ r \in Nat /\ r # 0 /\ r - 1 = rv
  BY <1>1, <1>2
<1>4. PICK k \in Key : k = log[r].key
  <2> HIDE DEF Entry
  <2>1. log[r] \in Entry
    BY <1>1, <1>3
  <2> QED BY <2>1 DEF Entry
<1>5. \/ At(r)[k] # 0 /\ Enqueue(k, D("Added", r))
      \/ At(r)[k] # 0 /\ Enqueue(k, D("Updated", r))
      \/ At(r)[k] = 0 /\ Delete(k, r)
  BY <1>2, <1>4 DEF WatchEvent, Add, Update
<1>6. \A j \in Key : IF j = k THEN At(r)[j] \in {0, r} ELSE At(r)[j] = At(rv)[j]
  <2>1. \A j \in Key : IF j = k THEN At(r)[j] \in {0, r} ELSE At(r)[j] = At(r - 1)[j]
    BY <1>3, <1>4 DEF DeliveryInv, OrderInv, LogSteps
  <2> QED BY <1>3, <2>1
<1>7. items \in [Key -> Seq(LiveDelta)]
  BY DEF DeliveryInv, InformerInv, FIFOInv
\* The other keys are as they were at the API server, too.
<1>8. ASSUME NEW j \in Key, j # k, items'[j] = items[j], store' = store
      PROVE  KeyOrder(j)'
  <2>1. j \notin blind => Final(items[j], store[j]) = At(r)[j]
    BY <1>6, <1>8 DEF DeliveryInv, OrderInv, KeyOrder
  <2> QED BY <1>1, <1>2, <1>2a, <1>8, <2>1, KeyStays
<1>9. ASSUME NEW d \in LiveDelta, Enqueue(k, d), d.type # "Sync",
             IF IsDeletion(d) THEN At(r)[k] = 0 ELSE d.rv = At(r)[k],
             NEW j \in Key
      PROVE  KeyOrder(j)'
  <2>1. items' = [items EXCEPT ![k] = Queued(items[k], d)] /\ store' = store
    BY <1>9 DEF Enqueue
  <2>2. CASE j = k
    <3>1. items'[k] = Queued(items[k], d)
      BY <1>7, <2>1
    <3>2. KeyOrder(k)'
      BY <1>1, <1>2, <1>2a, <1>9, <2>1, <3>1, KeyQueued
    <3> QED BY <2>2, <3>2
  <2>3. CASE j # k
    <3>1. items'[j] = items[j]
      BY <1>7, <2>1, <2>3
    <3> QED BY <1>8, <2>1, <2>3, <3>1
  <2> QED BY <2>2, <2>3
<1>10. ASSUME NEW j \in Key PROVE KeyOrder(j)'
  <2>1. CASE At(r)[k] # 0 /\ Enqueue(k, D("Added", r))
    <3>1. PICK d : d = D("Added", r)
      OBVIOUS
    <3>2. d \in LiveDelta /\ ~IsDeletion(d) /\ d.rv = r /\ d.type # "Sync"
      BY <1>3, <3>1, LiveDeltas DEF D, IsDeletion
    <3> QED BY <1>6, <1>9, <2>1, <3>1, <3>2
  <2>2. CASE At(r)[k] # 0 /\ Enqueue(k, D("Updated", r))
    <3>1. PICK d : d = D("Updated", r)
      OBVIOUS
    <3>2. d \in LiveDelta /\ ~IsDeletion(d) /\ d.rv = r /\ d.type # "Sync"
      BY <1>3, <3>1, LiveDeltas DEF D, IsDeletion
    <3> QED BY <1>6, <1>9, <2>2, <3>1, <3>2
  <2>3. CASE At(r)[k] = 0 /\ Delete(k, r) /\ ~(store[k] = 0 /\ items[k] = <<>>)
    <3>1. PICK d : d = D("Deleted", r)
      OBVIOUS
    <3>2. d \in LiveDelta /\ IsDeletion(d) /\ d.type # "Sync"
      BY <1>3, <3>1, LiveDeltas DEF D, IsDeletion
    <3>3. Enqueue(k, d)
      BY <2>3, <3>1 DEF Delete
    <3> QED BY <1>9, <2>3, <3>2, <3>3
  <2>4. CASE At(r)[k] = 0 /\ Delete(k, r) /\ store[k] = 0 /\ items[k] = <<>>
    <3>1. items' = items /\ store' = store
      BY <2>4 DEF Delete
    <3>2. Final(items[k], store[k]) = At(r)[k]
      BY <2>4 DEF Final
    <3>3. KeyOrder(k)'
      BY <1>1, <1>2, <1>2a, <3>1, <3>2, KeyStays
    <3> QED BY <1>8, <3>1, <3>3
  <2> QED BY <1>5, <2>1, <2>2, <2>3, <2>4
<1>11. LogSteps' /\ LogRuns'
  BY <1>1, LogStays DEF DeliveryInv, OrderInv
<1> QED BY <1>10, <1>11 DEF OrderInv

LEMMA ResyncOrder == ASSUME DeliveryInv, ResyncStore PROVE OrderInv'
<1>1. /\ UNCHANGED <<log, rv, store, last, blind, back>>
      /\ items' = [k \in Key |-> IF store[k] # 0 /\ items[k] = <<>>
                                 THEN <<D("Sync", store[k])>> ELSE items[k]]
  BY DEF ResyncStore, Resync, historyVars
<1>2. rv \in Nat /\ store \in [Key -> Nat]
  BY DEF DeliveryInv, InformerInv, LogInv, FIFOInv
<1>3. ASSUME NEW k \in Key PROVE KeyOrder(k)'
  <2>1. History(k)' = History(k) /\ At(rv)' = At(rv)
    BY <1>1 DEF History, At
  <2>2. KeyOrder(k)
    BY DEF DeliveryInv, OrderInv
  <2>3. CASE store[k] # 0 /\ items[k] = <<>>
    <3>1. items'[k] = <<D("Sync", store[k])>> /\ store[k] \in Nat
      BY <1>1, <1>2, <2>3
    <3>2. k \notin back => Sound(History(k), rv, <<>>, store[k], last[k])
      BY <2>2, <2>3 DEF KeyOrder
    <3>3. /\ k \notin back => Sound(History(k), rv, <<D("Sync", store[k])>>, store[k], last[k])
          /\ Final(<<D("Sync", store[k])>>, store[k]) = store[k]
      BY <1>2, <2>3, <3>1, <3>2, SoundResync, ResyncFinal
    <3>4. Final(items[k], store[k]) = store[k]
      BY <2>3 DEF Final
    <3> QED BY <1>1, <2>1, <2>2, <3>1, <3>3, <3>4 DEF KeyOrder
  <2>4. CASE ~(store[k] # 0 /\ items[k] = <<>>)
    <3>1. items'[k] = items[k]
      BY <1>1, <2>4
    <3> QED BY <1>1, <2>1, <2>2, <3>1 DEF KeyOrder
  <2> QED BY <2>3, <2>4
<1> QED BY <1>1, <1>3, LogStays DEF OrderInv, DeliveryInv

LEMMA HandleOrder ==
  ASSUME DeliveryInv, HandleDeltas
  PROVE  OrderInv' /\ last' \in [Key -> Nat]
<1>0. /\ queue \in Seq(Key) /\ queue # <<>> /\ Range(queue) = Pending
      /\ items \in [Key -> Seq(LiveDelta)] /\ store \in [Key -> Nat] /\ last \in [Key -> Nat]
      /\ rv \in Nat
  <2>1. FIFOInv /\ RestInv /\ LogInv
    BY DEF DeliveryInv, InformerInv
  <2>2. queue # <<>>
    BY DEF HandleDeltas, Pop
  <2>3. rv \in Nat
    BY <2>1 DEF LogInv
  <2>4. last \in [Key -> Nat]
    BY <2>1 DEF RestInv
  <2> QED BY <2>1, <2>2, <2>3, <2>4 DEF FIFOInv
<1>1. PICK k \in Key : k = Head(queue) /\ items[k] # <<>>
  BY <1>0, TailFacts DEF Pending
<1>2. PICK t : t = Effect(Last(items[k]))
  OBVIOUS
<1>3. PICK x : x = Max({last[k]} \cup {Effect(d) : d \in Range(items[k])})
  OBVIOUS
<1>4. /\ items' = [items EXCEPT ![k] = <<>>]
      /\ store' = [store EXCEPT ![k] = t]
      /\ last' = IF k \in back THEN last ELSE [last EXCEPT ![k] = x]
      /\ UNCHANGED <<log, rv, blind, back>>
  <2>1. /\ items' = [items EXCEPT ![k] = <<>>] /\ store' = [store EXCEPT ![k] = t]
    BY <1>1, <1>2 DEF HandleDeltas, Pop
  <2>2. UNCHANGED <<log, rv, blind, back>>
    BY DEF HandleDeltas, reflectVars
  <2>3. last' = IF k \in back THEN last ELSE [last EXCEPT ![k] = x]
    BY <1>1, <1>3 DEF HandleDeltas
  <2> QED BY <2>1, <2>2, <2>3
<1>5. PICK h : h = History(k)
  OBVIOUS
<1>6. /\ Steady(h, Len(log)) /\ (k \notin back => Sound(h, rv, items[k], store[k], last[k]))
      /\ k \notin blind => Final(items[k], store[k]) = At(rv)[k]
  BY <1>5 DEF DeliveryInv, OrderInv, KeyOrder
<1>7. Final(<<>>, t) = Final(items[k], store[k])
  BY <1>1, <1>2 DEF Final
<1>8. ASSUME k \notin back PROVE Sound(h, rv, <<>>, t, x) /\ x \in Nat
  <2>1. PICK ds \in Seq(LiveDelta) : ds = items[k]
    BY <1>0
  <2>2. PICK s, l : s = store[k] /\ l = last[k]
    OBVIOUS
  <2>3. ds # <<>> /\ Sound(h, rv, ds, s, l)
    BY <1>1, <1>6, <1>8, <2>1, <2>2
  <2>4. Sound(h, rv, <<>>, Effect(Last(ds)), Max({l} \cup {Effect(d) : d \in Range(ds)}))
    BY <1>0, <2>3, SoundPop
  <2>5. t = Effect(Last(ds)) /\ x = Max({l} \cup {Effect(d) : d \in Range(ds)})
    BY <1>2, <1>3, <2>1, <2>2
  <2>6. Sound(h, rv, <<>>, t, x)
    BY <2>4, <2>5
  <2> QED BY <1>0, <2>6 DEF Sound
<1>9. last' \in [Key -> Nat]
  BY <1>0, <1>4, <1>8
<1>10. ASSUME NEW j \in Key PROVE KeyOrder(j)'
  <2>1. History(j)' = History(j) /\ At(rv)' = At(rv)
    BY <1>4 DEF History, At
  <2>2. CASE j = k
    <3>1. items'[k] = <<>> /\ store'[k] = t /\ (k \notin back => last'[k] = x)
      BY <1>0, <1>4
    <3>2. KeyOrder(k)'
      BY <1>4, <1>5, <1>6, <1>7, <1>8, <2>1, <2>2, <3>1 DEF KeyOrder
    <3> QED BY <2>2, <3>2
  <2>3. CASE j # k
    <3>1. items'[j] = items[j] /\ store'[j] = store[j] /\ last'[j] = last[j]
      BY <1>0, <1>4, <2>3
    <3> QED BY <1>4, <2>1, <3>1 DEF DeliveryInv, OrderInv, KeyOrder
  <2> QED BY <2>2, <2>3
<1>11. LogSteps' /\ LogRuns'
  BY <1>4, LogStays DEF DeliveryInv, OrderInv
<1> QED BY <1>9, <1>10, <1>11 DEF OrderInv

LEMMA OrderStep == ASSUME DeliveryInv, [Next]_informerVars PROVE OrderInv'
<1>0. OrderInv
  BY DEF DeliveryInv
<1> USE DEF fifoVars, popVars, reflectVars, listenVars, historyVars
<1>1. ASSUME NEW k \in Key, NEW alive \in BOOLEAN, Change(k, alive) PROVE OrderInv'
  BY <1>1, ChangeOrder
<1>2. CASE ListAndReplace
  BY <1>2, ListOrder
<1>3. CASE WatchEvent
  BY <1>3, WatchOrder
<1>4. CASE WatchFails
  BY <1>0, <1>4, OrderQuiet DEF WatchFails
<1>5. CASE ShouldResync
  BY <1>0, <1>5, OrderQuiet DEF ShouldResync
<1>6. CASE ResyncStore
  BY <1>6, ResyncOrder
<1>7. CASE HandleDeltas
  BY <1>7, HandleOrder
<1>8. CASE PopperStep
  BY <1>0, <1>8, OrderQuiet DEF PopperStep, PopEmpty, PopWait
<1>9. ASSUME NEW l \in Listener, AddEventHandler(l) PROVE OrderInv'
  BY <1>0, <1>9, OrderQuiet DEF AddEventHandler
<1>10. CASE Stop
  BY <1>0, <1>10, OrderQuiet DEF Stop
<1>11. CASE ReflectorStops
  BY <1>0, <1>11, OrderQuiet DEF ReflectorStops
<1>12. CASE CloseQueue
  BY <1>0, <1>12, OrderQuiet DEF CloseQueue, Close
<1>13. CASE UNCHANGED informerVars
  BY <1>0, <1>13, OrderQuiet DEF informerVars
<1> QED
  BY <1>1, <1>2, <1>3, <1>4, <1>5, <1>6, <1>7, <1>8, <1>9, <1>10, <1>11, <1>12,
     <1>13 DEF Next

LEMMA RestStep == ASSUME DeliveryInv, [Next]_informerVars PROVE RestInv'
<1>0. RestInv /\ InformerInv
  BY DEF DeliveryInv
<1> USE DEF fifoVars, popVars, reflectVars, listenVars, historyVars, RestInv, Woken
<1>1. ASSUME NEW k \in Key, NEW alive \in BOOLEAN, Change(k, alive) PROVE RestInv'
  BY <1>0, <1>1 DEF Change
<1>2. CASE ListAndReplace
  <2>1. back' \subseteq Key
    <3> DEFINE Entry == [key : Key, state : [Key -> Nat]]
    <3>1. /\ log \in Seq(Entry) /\ Len(log) \in Nat /\ rv \in 0 .. Len(log)
          /\ back \subseteq Key
      BY <1>0 DEF InformerInv, LogInv
    <3>2. PICK r \in Nat : back' = back \cup {log[q].key : q \in r + 1 .. rv}
      <4>1. PICK r \in 0 .. Len(log) : back' = back \cup {log[q].key : q \in r + 1 .. rv}
        BY <1>2 DEF ListAndReplace
      <4>2. r \in Nat
        BY <3>1
      <4> QED BY <4>1, <4>2
    <3> HIDE DEF Entry
    <3>3. ASSUME NEW q \in r + 1 .. rv PROVE log[q] \in Entry
      <4>1. q \in 1 .. Len(log)
        BY <3>1
      <4> QED BY <3>1, <4>1
    <3>4. \A q \in r + 1 .. rv : log[q].key \in Key
      BY <3>3 DEF Entry
    <3> QED BY <3>1, <3>2, <3>4
  <2> QED BY <1>0, <1>2, <2>1 DEF ListAndReplace, Replace, SyncDropped, DeletionMissed, Pending
<1>3. CASE WatchEvent
  BY <1>0, <1>3 DEF WatchEvent, Add, Update, Delete, Enqueue
<1>4. CASE WatchFails
  BY <1>0, <1>4 DEF WatchFails
<1>5. CASE ShouldResync
  BY <1>0, <1>5 DEF ShouldResync
<1>6. CASE ResyncStore
  BY <1>0, <1>6 DEF ResyncStore, Resync
<1>7. CASE HandleDeltas
  <2>1. last' \in [Key -> Nat]
    BY <1>7, HandleOrder
  <2> QED BY <1>0, <1>7, <2>1 DEF HandleDeltas, Pop
<1>8. CASE PopperStep
  BY <1>0, <1>8 DEF PopperStep, PopEmpty, PopWait
<1>9. ASSUME NEW l \in Listener, AddEventHandler(l) PROVE RestInv'
  BY <1>0, <1>9 DEF AddEventHandler
<1>10. CASE Stop
  BY <1>0, <1>10 DEF Stop
<1>11. CASE ReflectorStops
  BY <1>0, <1>11 DEF ReflectorStops
<1>12. CASE CloseQueue
  BY <1>0, <1>12 DEF CloseQueue, Close
<1>13. CASE UNCHANGED informerVars
  BY <1>0, <1>13 DEF informerVars
<1> QED
  BY <1>1, <1>2, <1>3, <1>4, <1>5, <1>6, <1>7, <1>8, <1>9, <1>10, <1>11, <1>12,
     <1>13 DEF Next

LEMMA DeliveryInvariant == Safety => []DeliveryInv
<1>1. ASSUME DeliveryInv, [Next]_informerVars PROVE DeliveryInv'
  <2>1. InformerInv'
    BY <1>1, InformerStep DEF DeliveryInv
  <2> QED BY <1>1, <2>1, OrderStep, RestStep DEF DeliveryInv
<1>2. DeliveryInv /\ [Next]_informerVars => DeliveryInv'
  BY <1>1
<1> QED BY <1>2, DeliveryInit, PTL DEF Safety

\* The variables have their types; in particular the reflector is never ahead
\* of the API server, and the listeners that resync are registered.
THEOREM TypeCorrectness == Safety => []TypeOK
<1>1. DeliveryInv => TypeOK
  <2> SUFFICES ASSUME DeliveryInv PROVE TypeOK
    OBVIOUS
  <2>1. InformerInv /\ RestInv
    BY DEF DeliveryInv
  <2>2. items \in [Key -> Seq(Delta)]
    <3>1. LiveDelta \subseteq Delta /\ items \in [Key -> Seq(LiveDelta)]
      BY <2>1 DEF LiveDelta, InformerInv, FIFOInv
    <3>2. ASSUME NEW k \in Key PROVE items[k] \in Seq(Delta)
      <4>1. items[k] \in Seq(LiveDelta)
        BY <3>1
      <4> HIDE DEF LiveDelta
      <4>2. \A i \in 1 .. Len(items[k]) : items[k][i] \in Delta
        BY <3>1, <4>1
      <4> QED BY <4>1, <4>2
    <3> QED BY <3>1, <3>2
  <2>3. FIFOTypeOK
    BY <2>1, <2>2 DEF FIFOTypeOK, InformerInv, FIFOInv, AwaitInv, RestInv
  <2> QED BY <2>1, <2>3 DEF TypeOK, InformerInv, LogInv, ViewInv, RestInv
<1> QED BY <1>1, DeliveryInvariant, PTL

(***************************************************************************)
(* Whoever replays the pending deltas of a key never goes back in time,    *)
(* however lists, watch events, resyncs and pops interleave, unless a list *)
(* older than what the reflector has read (reflector.go:172-175) took the  *)
(* key back: the race that syncKeyLocked guards against                    *)
(* (delta_fifo.go:555-565) cannot happen.                                  *)
(***************************************************************************)
THEOREM DeltasStayInOrder == Safety => []DeltasInOrder
<1>1. DeliveryInv => DeltasInOrder
  <2> SUFFICES ASSUME DeliveryInv PROVE DeltasInOrder
    OBVIOUS
  <2>1. \A k \in Key \ back : Ordered(items[k], store[k], last[k])
    BY DEF DeliveryInv, OrderInv, KeyOrder, Sound
  <2>2. \A k \in Key : DOMAIN items[k] = 1 .. Len(items[k])
    BY DEF DeliveryInv, InformerInv, FIFOInv
  <2> QED BY <2>1, <2>2 DEF DeltasInOrder, Ordered
<1> QED BY <1>1, DeliveryInvariant, PTL

(***************************************************************************)
(* A caught up indexer equals the API server, except for the keys that a   *)
(* Replace mistreated: those whose Sync it dropped because of a pending    *)
(* deletion, and those whose deletion it missed because they were pending, *)
(* but not stored (delta_fifo.go:466-522).                                 *)
(***************************************************************************)
THEOREM StoreCatchesUp == Safety => []StoreMatchesUnlessBlind
<1>1. DeliveryInv => StoreMatchesUnlessBlind
  <2> SUFFICES ASSUME DeliveryInv, CaughtUp, NEW k \in Key \ blind
               PROVE  store[k] = Now[k]
    BY DEF StoreMatchesUnlessBlind
  <2>1. queue = <<>> /\ rv = Len(log) /\ Range(queue) = Pending
    BY DEF CaughtUp, DeliveryInv, InformerInv, FIFOInv
  <2>2. items[k] = <<>>
    BY <2>1 DEF Pending, Range
  <2>3. Final(items[k], store[k]) = At(rv)[k]
    BY DEF DeliveryInv, OrderInv, KeyOrder
  <2> QED BY <2>1, <2>2, <2>3 DEF Final, Now
<1> QED BY <1>1, DeliveryInvariant, PTL
=============================================================================
