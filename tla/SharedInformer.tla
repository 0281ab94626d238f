---------------------------- MODULE SharedInformer ----------------------------
(***************************************************************************)
(* A shared informer: the reflector that lists and watches the API server  *)
(* and feeds a DeltaFIFO (reflector.go), the goroutine that resyncs, and   *)
(* the consumer that keeps the indexer and the registered handlers up to   *)
(* date (controller.go, shared_informer.go).                               *)
(*                                                                         *)
(* The API server is the log of the changes to the watched resource, each  *)
(* with the key changed and the versions of all objects after it; the      *)
(* resource version of a change is its place in the log.  Lists are served *)
(* from caches that may be behind the log, and behind what the reflector   *)
(* has seen.  A watch that is closed and opened again goes on where it     *)
(* was, so only its failure is a step.                                     *)
(***************************************************************************)
EXTENDS DeltaFIFO, FiniteSetsExt

CONSTANTS Listener,     \* the event handlers that may be added
          Resyncing,    \* those of them that have a resync period
          MaxRV,        \* bound: the number of changes at the API server
          MaxDeltas,    \* bound: the number of deltas pending for one key
          MaxBack       \* bound: lists go back in time until they have taken
                        \* so many keys back

ASSUME ListenerAssumption == Resyncing \subseteq Listener
ASSUME BoundAssumption == {MaxRV, MaxDeltas, MaxBack} \subseteq Nat

VARIABLES log,        \* the API server's history: the key changed and the state
          reflector,  \* where ListAndWatch is
          rv,         \* its resourceVersion
          resync,     \* the resync goroutine has asked shouldResync, not yet
                      \* called store.Resync
          stopCh,     \* the informer's stop channel is closed
          joined,     \* p.listeners
          syncing,    \* p.syncingListeners
          view,       \* what each handler knows once it has handled all the
                      \* notifications it was sent
          awaited,    \* history: keys of the first list not popped yet
          last,       \* history: newest version of each key ever stored, 0 once
                      \* a list has taken the key back
          blind,      \* history: keys that a Replace has mistreated
          back        \* history: keys that a list has taken back in time

reflectVars  == <<reflector, rv, resync, stopCh>>
listenVars   == <<joined, syncing, view>>
historyVars  == <<awaited, last, blind, back>>
informerVars == <<items, queue, populated, initialPopulationCount, store, closed,
                  popper, log, reflector, rv, resync, stopCh, joined, syncing,
                  view, awaited, last, blind, back>>

\* The state of the resource after the first r changes.
Nothing == [k \in Key |-> 0]
At(r) == IF r = 0 THEN Nothing ELSE log[r].state

Now == At(Len(log))

Init == /\ FIFOInit
        /\ log = <<>>
        /\ reflector = "list" /\ rv = 0
        /\ resync = FALSE /\ stopCh = FALSE
        /\ joined = {} /\ syncing = {}
        /\ view = [l \in Listener |-> Nothing]
        /\ awaited = {} /\ last = Nothing /\ blind = {} /\ back = {}

-----------------------------------------------------------------------------
(* The API server *)

Change(k, alive) ==
  /\ Len(log) < MaxRV
  /\ alive \/ Now[k] # 0
  /\ LET version == IF alive THEN Len(log) + 1 ELSE 0
     IN  log' = Append(log, [key |-> k, state |-> [Now EXCEPT ![k] = version]])
  /\ UNCHANGED <<fifoVars, store, popVars, reflectVars, listenVars, historyVars>>

-----------------------------------------------------------------------------
(* The reflector *)

Bounded == \A k \in Key : Len(items'[k]) <= MaxDeltas

\* A Sync that Replace drops (the object was created again while its deletion
\* is pending, or the list is older than the deletion), and a deletion it does
\* not see (the object is pending, but not stored yet).
SyncDropped(list) == {k \in Key : list[k] # 0 /\ willObjectBeDeleted(items[k])}
DeletionMissed(list) == {k \in Pending : /\ list[k] = 0 /\ store[k] = 0
                                         /\ ~willObjectBeDeleted(items[k])}

\* ListAndWatch lists the resource and replaces the content of the queue.  It
\* always asks for resource version 0, which any cache may answer: the list can
\* be older than what this reflector has seen, and takes the keys changed in
\* between back in time.
ListAndReplace ==
  /\ reflector = "list"
  /\ \E r \in 0 .. Len(log) :
       /\ r >= rv \/ Cardinality(back) < MaxBack
       /\ Replace(At(r))
       /\ rv' = r
       /\ awaited' = IF populated THEN awaited ELSE {k \in Key : At(r)[k] # 0}
       /\ blind' = blind \cup SyncDropped(At(r)) \cup DeletionMissed(At(r))
       /\ back' = back \cup {log[q].key : q \in r + 1 .. rv}
  /\ Bounded
  /\ reflector' = "watch"
  /\ last' = [k \in Key |-> IF k \in back' THEN 0 ELSE last[k]]
  /\ UNCHANGED <<log, resync, stopCh, listenVars>>

\* watchHandler receives the next event.
WatchEvent ==
  /\ reflector = "watch"
  /\ rv < Len(log)
  /\ LET r == rv + 1
         k == log[r].key
     IN  \/ At(r)[k] # 0 /\ At(rv)[k] = 0 /\ Add(k, r)
         \/ At(r)[k] # 0 /\ At(rv)[k] # 0 /\ Update(k, r)
         \/ At(r)[k] = 0 /\ Delete(k, r)
  /\ Bounded
  /\ rv' = rv + 1
  /\ UNCHANGED <<log, reflector, resync, stopCh, listenVars, historyVars>>

\* The watch cannot be opened, ends with an error event (the version is too
\* old) or is closed at once: ListAndWatch returns and is called again.
WatchFails ==
  /\ reflector = "watch"
  /\ reflector' = "list"
  /\ UNCHANGED <<fifoVars, store, popVars, log, rv, resync, stopCh, listenVars,
                 historyVars>>

\* The resync timer has fired: shouldResync collects the listeners whose
\* period is over, all of which share the resync that follows.  The goroutine
\* starts after a list.  It may be past its select when the watch ends, and so
\* outlive it; the next one may start while it has still to resync.
ShouldResync ==
  /\ populated /\ reflector # "stopped"
  /\ \E due \in SUBSET (joined \cap Resyncing) :
       /\ syncing' = due
       /\ resync' = (resync \/ due # {})
  /\ Resyncing # {}
  /\ UNCHANGED <<fifoVars, store, popVars, log, reflector, rv, stopCh, joined, view,
                 historyVars>>

\* ... and the store is told to resync, whatever the reflector does meanwhile.
ResyncStore ==
  /\ resync
  /\ Resync
  /\ resync' = FALSE
  /\ UNCHANGED <<log, reflector, rv, stopCh, listenVars, historyVars>>

-----------------------------------------------------------------------------
(* The consumer and the handlers *)

\* Slip: a deletion is distributed like a Sync.
SeesOnlyWhenSyncing(l, d) == l \in syncing \/ d.type \in {"Added", "Updated"}

\* distribute: a Sync goes to the syncing listeners, all else to all.
Sees(l, d) == d.type = "Sync" => l \in syncing

\* HandleDeltas: store and handlers follow the deltas, oldest first, so the
\* last one a handler sees decides what it knows.
HandleDeltas ==
  /\ Pop
  /\ LET k  == Head(queue)
         ds == items[k]
         Seen(l) == {i \in DOMAIN ds : Sees(l, ds[i])}
     IN  /\ view' = [l \in Listener |->
                       IF l \in joined /\ Seen(l) # {}
                       THEN [view[l] EXCEPT ![k] = Effect(ds[Max(Seen(l))])]
                       ELSE view[l]]
         /\ awaited' = awaited \ {k}
         /\ last' = IF k \in back THEN last
                    ELSE [last EXCEPT ![k] = Max({@} \cup {Effect(d) : d \in Range(ds)})]
  /\ UNCHANGED <<log, reflectVars, joined, syncing, blind, back>>

PopperStep ==
  /\ PopEmpty \/ PopWait
  /\ UNCHANGED <<log, reflectVars, listenVars, historyVars>>

\* Run has returned, once the reflector and the popper have.
Stopped == reflector = "stopped" /\ popper = "returned"

\* AddEventHandlerWithResyncPeriod, before or after the informer started: the
\* new handler is sent an add for everything in the indexer.
AddEventHandler(l) ==
  /\ l \notin joined /\ ~Stopped
  /\ joined' = joined \cup {l}
  /\ syncing' = syncing \cup {l}
  /\ view' = [view EXCEPT ![l] = store]
  /\ UNCHANGED <<fifoVars, store, popVars, log, reflectVars, historyVars>>

-----------------------------------------------------------------------------
(* Stopping *)

Stop ==
  /\ ~stopCh /\ stopCh' = TRUE
  /\ UNCHANGED <<fifoVars, store, popVars, log, reflector, rv, resync, listenVars,
                 historyVars>>

\* The reflector notices that stopCh is closed.
ReflectorStops ==
  /\ stopCh /\ reflector # "stopped"
  /\ reflector' = "stopped"
  /\ UNCHANGED <<fifoVars, store, popVars, log, rv, resync, stopCh, listenVars,
                 historyVars>>

\* controller.Run closes the queue.
CloseQueue ==
  /\ stopCh
  /\ Close
  /\ UNCHANGED <<log, reflectVars, listenVars, historyVars>>

Next == \/ \E k \in Key, alive \in BOOLEAN : Change(k, alive)
        \/ ListAndReplace \/ WatchEvent \/ WatchFails
        \/ ShouldResync \/ ResyncStore
        \/ HandleDeltas \/ PopperStep
        \/ \E l \in Listener : AddEventHandler(l)
        \/ Stop \/ ReflectorStops \/ CloseQueue

(***************************************************************************)
(* The goroutines of the informer run when they can.  Lists are answered,  *)
(* and whoever waits for f.lock gets it, although Pop and resyncs may have *)
(* it any number of times before (a sync.Mutex does not starve a waiter);  *)
(* a watch that is opened again and again delivers its next event.  The    *)
(* reflector's fairness is strong for these reasons.  The caches that serve*)
(* lists catch up, so lists do not go back in time again and again.        *)
(***************************************************************************)
Fairness == /\ <>[][rv' >= rv]_rv
            /\ SF_informerVars(ListAndReplace)
            /\ SF_informerVars(WatchEvent)
            /\ WF_informerVars(ResyncStore)
            /\ WF_informerVars(HandleDeltas \/ PopperStep)
            /\ WF_informerVars(ReflectorStops) /\ WF_informerVars(CloseQueue)

Safety == Init /\ [][Next]_informerVars

Spec == Safety /\ Fairness

-----------------------------------------------------------------------------
(* Correctness *)

TypeOK ==
  /\ FIFOTypeOK
  /\ log \in Seq([key : Key, state : [Key -> Nat]])
  /\ reflector \in {"list", "watch", "stopped"}
  /\ rv \in 0 .. Len(log)
  /\ resync \in BOOLEAN /\ stopCh \in BOOLEAN
  /\ joined \subseteq Listener /\ syncing \subseteq joined
  /\ view \in [Listener -> [Key -> Nat]]
  /\ awaited \subseteq Key /\ last \in [Key -> Nat]
  /\ blind \subseteq Key /\ back \subseteq Key

\* HasSynced answers true exactly when every object of the first list has been
\* popped, whatever was listed, watched and resynced while it waited in the
\* queue (delta_fifo.go:163-169): a later Replace that empties or extends the
\* queue neither hastens nor delays the answer.
SyncedMeansPopped == populated => (HasSynced <=> awaited = {})

\* Whoever replays the pending deltas of a key on the indexer never goes back
\* in time, unless a list did ("potentially be delayed", reflector.go:172-175):
\* versions never decrease, and an object is back after a deletion only with a
\* newer version than any the indexer ever had.  So neither the watch, nor a
\* resync, nor a list that is merely behind the server has this effect.  (The
\* test in syncKeyLocked, delta_fifo.go:555-565, is there "to avoid the race,
\* in which the resync comes with the previous value of object".)
DeltasInOrder ==
  \A k \in Key \ back : \A j \in DOMAIN items[k] :
    LET ds == items[k]
        Gone(i) == (i = 0 /\ store[k] = 0)
                     \/ \E m \in i .. j - 1 : m >= 1 /\ IsDeletion(ds[m])
        Before(i) == IF i = 0 THEN last[k] ELSE ds[i].rv
    IN  ~IsDeletion(ds[j]) =>
          \A i \in {0} \cup {m \in 1 .. j - 1 : ~IsDeletion(ds[m])} :
            IF Gone(i) THEN ds[j].rv > Before(i) ELSE ds[j].rv >= Before(i)

CaughtUp == reflector = "watch" /\ rv = Len(log) /\ queue = <<>>

\* Once the reflector has seen every change and the queue is empty, the
\* indexer equals the API server.
StoreMatchesServer == CaughtUp => store = Now

\* The part of it that holds: a key can only be wrong if a relist met a
\* deletion of it that was pending, or missed one since the object was
\* pending and not stored.
StoreMatchesUnlessBlind ==
  CaughtUp => \A k \in Key \ blind : store[k] = Now[k]

\* However lists, watches, their failures, resyncs and pops interleave, the
\* indexer ends up equal to the API server for all other keys.
Converges == <>[](stopCh \/ \A k \in Key \ blind : store[k] = Now[k])

\* No handler believes in an object the indexer no longer has: deletions reach
\* every handler, those that do not resync and those that joined late too.
NoGhostObjects ==
  \A l \in joined, k \in Key : store[k] = 0 => view[l][k] = 0

\* Every handler knows what the indexer knows (controller.go:163-176).
HandlersInformed == \A l \in joined : view[l] = store
=============================================================================
