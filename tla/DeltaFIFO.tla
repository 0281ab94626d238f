------------------------------ MODULE DeltaFIFO ------------------------------
(***************************************************************************)
(* The queue between a reflector and a shared informer                     *)
(* (client-go/tools/cache/delta_fifo.go), with the informer's indexer as   *)
(* its knownObjects and the one goroutine that pops (controller.go,        *)
(* processLoop).                                                           *)
(*                                                                         *)
(* An object is represented by the resource version (rv) of its last       *)
(* change, 0 standing for "no object".  items[k] = <<>> stands for a key   *)
(* that is not in f.items.  Every method holds f.lock, so each is one      *)
(* action; Close takes another lock, closedLock, and so may run while Pop  *)
(* holds f.lock, between its test of IsClosed and its cond.Wait            *)
(* (popper = "testing").                                                   *)
(***************************************************************************)
EXTENDS Integers, Sequences, FiniteSets, Functions, SequencesExt

CONSTANTS Key        \* the keys of the objects of the watched resource

ASSUME KeyAssumption == IsFiniteSet(Key)

VARIABLES items,                   \* f.items: the deltas pending for each key
          queue,                   \* f.queue
          populated,               \* f.populated
          initialPopulationCount,  \* f.initialPopulationCount
          store,                   \* knownObjects, the indexer of the informer
          closed,                  \* f.closed
          popper                   \* where the goroutine in Pop is

fifoVars == <<items, queue, populated, initialPopulationCount>>
popVars  == <<closed, popper>>

(***************************************************************************)
(* Deltas.  A "Tombstone" is a Deleted delta whose object is a             *)
(* DeletedFinalStateUnknown: Replace found the object missing.             *)
(***************************************************************************)
DeltaType == {"Added", "Updated", "Deleted", "Tombstone", "Sync"}
Delta == [type : DeltaType, rv : Nat]

IsDeletion(d) == d.type \in {"Deleted", "Tombstone"}

D(type, rv) == [type |-> type, rv |-> rv]

\* Slip: any two deltas of the same type are merged, the newer one dropped.
dedupDeltasSameType(ds) ==
  LET n == Len(ds)
  IN  IF n >= 2 /\ ds[n].type = ds[n - 1].type
      THEN SubSeq(ds, 1, n - 2) \o <<ds[n - 1]>>
      ELSE ds

\* dedupDeltas, isDup, isDeletionDup: of two deletions in a row the older one
\* is kept, unless its final state is unknown.
dedupDeltas(ds) ==
  LET n == Len(ds)
  IN  IF n >= 2 /\ IsDeletion(ds[n]) /\ IsDeletion(ds[n - 1])
      THEN SubSeq(ds, 1, n - 2)
             \o <<IF ds[n - 1].type = "Tombstone" THEN ds[n] ELSE ds[n - 1]>>
      ELSE ds

willObjectBeDeleted(ds) == ds # <<>> /\ IsDeletion(ds[Len(ds)])

\* queueActionLocked, for one key: the deltas that are pending after it.  A
\* Sync of an object whose last delta is a deletion is dropped.
Queued(ds, d) == IF d.type = "Sync" /\ willObjectBeDeleted(ds)
                 THEN ds
                 ELSE dedupDeltas(Append(ds, d))

Pending == {k \in Key : items[k] # <<>>}

FIFOInit == /\ items = [k \in Key |-> <<>>]
            /\ queue = <<>>
            /\ populated = FALSE
            /\ initialPopulationCount = 0
            /\ store = [k \in Key |-> 0]
            /\ closed = FALSE
            /\ popper = "ready"

-----------------------------------------------------------------------------
(***************************************************************************)
(* Producers.  They need f.lock, which Pop holds from its test of IsClosed *)
(* until cond.Wait releases it, and they wake the popper (cond.Broadcast). *)
(***************************************************************************)
Lockable == popper # "testing"

Woken == IF popper = "waiting" THEN "ready" ELSE popper

\* The keys of S that were not queued join the queue, in some order.
Joining(S) == SetToSeqs({k \in S : items[k] = <<>>})

\* Slip: the key is queued again although it is queued already.
EnqueueAgain(k, d) ==
  /\ Lockable
  /\ populated' = TRUE
  /\ items' = [items EXCEPT ![k] = Queued(@, d)]
  /\ queue' = Append(queue, k)
  /\ popper' = Woken
  /\ UNCHANGED <<initialPopulationCount, store, closed>>

\* queueActionLocked for an event of the watch.
Enqueue(k, d) ==
  /\ Lockable
  /\ populated' = TRUE
  /\ items' = [items EXCEPT ![k] = Queued(@, d)]
  /\ queue' = IF items[k] = <<>> THEN Append(queue, k) ELSE queue
  /\ popper' = Woken
  /\ UNCHANGED <<initialPopulationCount, store, closed>>

Add(k, rv)    == Enqueue(k, D("Added", rv))
Update(k, rv) == Enqueue(k, D("Updated", rv))

\* Slip: the deletion is ignored if the object is not stored, although it may
\* be pending.
DeleteIfStored(k, rv) ==
  IF store[k] = 0
  THEN /\ Lockable
       /\ populated' = TRUE
       /\ UNCHANGED <<items, queue, initialPopulationCount, store, closed, popper>>
  ELSE Enqueue(k, D("Deleted", rv))

\* Deleting a key that is neither stored nor pending is not worth a delta.
Delete(k, rv) ==
  IF store[k] = 0 /\ items[k] = <<>>
  THEN /\ Lockable
       /\ populated' = TRUE
       /\ UNCHANGED <<items, queue, initialPopulationCount, store, closed, popper>>
  ELSE Enqueue(k, D("Deleted", rv))

\* Slip: every Replace sets the count that HasSynced waits for.
ReplaceRecounts(list) ==
  LET listed  == {k \in Key : list[k] # 0}
      missing == {k \in Key \ listed : store[k] # 0}
  IN  /\ Lockable
      /\ items' = [k \in Key |->
                     IF k \in listed THEN Queued(items[k], D("Sync", list[k]))
                     ELSE IF k \in missing
                     THEN Queued(items[k], D("Tombstone", store[k]))
                     ELSE items[k]]
      /\ \E p \in Joining(listed), q \in Joining(missing) :
            queue' = queue \o p \o q
      /\ populated' = TRUE
      /\ initialPopulationCount' = Cardinality(listed \cup missing)
      /\ popper' = IF listed \cup missing = {} THEN popper ELSE Woken
      /\ UNCHANGED <<store, closed>>

\* Replace, with the listed objects as a function from keys to versions: a
\* Sync for every listed object, in the order of the list, then a tombstone
\* for every stored object that is not listed.
Replace(list) ==
  LET listed  == {k \in Key : list[k] # 0}
      missing == {k \in Key \ listed : store[k] # 0}
  IN  /\ Lockable
      /\ items' = [k \in Key |->
                     IF k \in listed THEN Queued(items[k], D("Sync", list[k]))
                     ELSE IF k \in missing
                     THEN Queued(items[k], D("Tombstone", store[k]))
                     ELSE items[k]]
      /\ \E p \in Joining(listed), q \in Joining(missing) :
            queue' = queue \o p \o q
      /\ populated' = TRUE
      /\ initialPopulationCount' =
           IF populated THEN initialPopulationCount
           ELSE Cardinality(listed \cup missing)
      /\ popper' = IF listed \cup missing = {} THEN popper ELSE Woken
      /\ UNCHANGED <<store, closed>>

\* Slip: the stored object is queued although newer deltas are pending.
ResyncAll ==
  LET due == {k \in Key : store[k] # 0}
  IN  /\ Lockable
      /\ items' = [k \in Key |-> IF k \in due THEN Queued(items[k], D("Sync", store[k]))
                                 ELSE items[k]]
      /\ \E p \in Joining(due) : queue' = queue \o p
      /\ popper' = IF due = {} THEN popper ELSE Woken
      /\ UNCHANGED <<populated, initialPopulationCount, store, closed>>

\* Resync, syncKeyLocked: a Sync of every stored object that has no delta
\* pending.
Resync ==
  LET due == {k \in Key : store[k] # 0 /\ items[k] = <<>>}
  IN  /\ Lockable
      /\ items' = [k \in Key |-> IF k \in due THEN <<D("Sync", store[k])>>
                                 ELSE items[k]]
      /\ \E p \in Joining(due) : queue' = queue \o p
      /\ popper' = IF due = {} THEN popper ELSE Woken
      /\ UNCHANGED <<populated, initialPopulationCount, store, closed>>

-----------------------------------------------------------------------------
(* The popper *)

\* What a delta leaves in the indexer (HandleDeltas).
Effect(d) == IF IsDeletion(d) THEN 0 ELSE d.rv

\* Slip: the count goes down with every pop.
PopCountsAll ==
  /\ popper = "ready"
  /\ queue # <<>>
  /\ LET k == Head(queue)
     IN  /\ items' = [items EXCEPT ![k] = <<>>]
         /\ store' = [store EXCEPT ![k] = Effect(Last(items[k]))]
  /\ queue' = Tail(queue)
  /\ initialPopulationCount' = initialPopulationCount - 1
  /\ UNCHANGED <<populated, closed, popper>>

\* Pop takes the deltas of the first key off the queue and runs HandleDeltas
\* on them, from oldest to newest, without releasing f.lock.  (A queued key
\* always has deltas, so the "continue" of Pop is never taken.)
Pop ==
  /\ popper = "ready"
  /\ queue # <<>>
  /\ LET k == Head(queue)
     IN  /\ items' = [items EXCEPT ![k] = <<>>]
         /\ store' = [store EXCEPT ![k] = Effect(Last(items[k]))]
  /\ queue' = Tail(queue)
  /\ initialPopulationCount' = IF initialPopulationCount > 0
                               THEN initialPopulationCount - 1 ELSE 0
  /\ UNCHANGED <<populated, closed, popper>>

\* Pop finds the queue empty: it returns FIFOClosedError if the queue is
\* closed, and else is about to wait.
PopEmpty ==
  /\ popper = "ready"
  /\ queue = <<>>
  /\ popper' = IF closed THEN "returned" ELSE "testing"
  /\ UNCHANGED <<fifoVars, store, closed>>

\* cond.Wait puts the goroutine on the list of those to wake, releases f.lock
\* and sleeps.
PopWait ==
  /\ popper = "testing"
  /\ popper' = "waiting"
  /\ UNCHANGED <<fifoVars, store, closed>>

\* Close sets closed and wakes whoever sleeps at that moment.
Close ==
  /\ ~closed
  /\ closed' = TRUE
  /\ popper' = Woken
  /\ UNCHANGED <<fifoVars, store>>

HasSynced == populated /\ initialPopulationCount = 0

-----------------------------------------------------------------------------
(* Correctness *)

FIFOTypeOK ==
  /\ items \in [Key -> Seq(Delta)]
  /\ queue \in Seq(Key)
  /\ populated \in BOOLEAN
  /\ initialPopulationCount \in Nat
  /\ store \in [Key -> Nat]
  /\ closed \in BOOLEAN
  /\ popper \in {"ready", "testing", "waiting", "returned"}

\* delta_fifo.go:101-103: the queue lists each key that has deltas once, and
\* no other key; and no key has two deletions in a row.
QueueListsItems ==
  /\ Range(queue) = Pending
  /\ \A i, j \in DOMAIN queue : queue[i] = queue[j] => i = j
  /\ \A k \in Key : \A i \in 2 .. Len(items[k]) :
       ~(IsDeletion(items[k][i - 1]) /\ IsDeletion(items[k][i]))

\* delta_fifo.go:416-418: once Close is called, Pop returns when the queue is
\* drained.
PopReturns == closed ~> popper = "returned"
=============================================================================
