-------------------------------- MODULE Cacher --------------------------------
(***************************************************************************)
(* The watch cache of the API server (apiserver/pkg/storage/cacher): one   *)
(* watch of etcd feeds a store, a window of the last events, and through   *)
(* dispatchEvents all who watch.                                           *)
(*                                                                         *)
(* An event is a revision, at which etcd has the new state of the object,  *)
(* and the state the cache had before.  What is done under the lock of     *)
(* the watch cache is one step.  The channel of results is not modelled:   *)
(* a goroutine that waits for a slow client takes no step.  A watch with   *)
(* an index is one of the pods (say) of a node, and gets only events that  *)
(* have to do with the node.  Stop of the whole cacher is left out.        *)
(***************************************************************************)
EXTENDS Store

CONSTANTS Watcher,    \* the goroutines that handle a watch
          Indexed,    \* the values that are watched through an index
          Capacity,   \* of the window of events
          InCap,      \* of the channel incoming
          ChanSize,   \* of the channel input of a watcher
          MaxBreaks   \* bound: how often a list fails or the watch breaks

ASSUME CacherAssumption ==
  /\ Indexed \subseteq Val
  /\ {Capacity, InCap, ChanSize} \subseteq Nat \ {0} /\ MaxBreaks \in Nat

VARIABLES conn,      \* where startCaching is
          ready,     \* the field ready
          stored,    \* the object in the store: its mod revision
          rv,        \* resourceVersion of the watch cache
          listRV,    \* listResourceVersion
          window,    \* the cyclic buffer
          incoming,  \* events to be dispatched
          breaks,
          wpc,       \* where a call of Watch, or its goroutine, is
          asked,     \* the revision it is to start from, and what it selects
          initial,   \* initEvents that are still to be sent
          from,      \* only events after this revision are sent
          input,     \* the channel of events
          listed,    \* it is in c.watchers
          done,      \* it was stopped
          got,       \* what was sent to the client
          since,     \* history: the revision the client's knowledge starts at
          doubtful   \* history: it was registered in a way that may go wrong

cacheVars == <<conn, ready, stored, rv, listRV, window, incoming, breaks>>
callVars  == <<wpc, asked, initial, from, input, listed, done, got, since, doubtful>>
cacherVars == <<storeVars, cacheVars, callVars>>

Nothing == [rv |-> 0, select |-> {}]

CacherInit ==
  /\ StoreInit
  /\ conn = "off" /\ ready = FALSE
  /\ stored = 0 /\ rv = 0 /\ listRV = 0
  /\ window = <<>> /\ incoming = <<>> /\ breaks = 0
  /\ wpc = [w \in Watcher |-> "none"]
  /\ asked = [w \in Watcher |-> Nothing]
  /\ initial = [w \in Watcher |-> <<>>] /\ from = [w \in Watcher |-> 0]
  /\ input = [w \in Watcher |-> <<>>]
  /\ listed = [w \in Watcher |-> FALSE] /\ done = [w \in Watcher |-> FALSE]
  /\ got = [w \in Watcher |-> <<>>] /\ since = [w \in Watcher |-> 0]
  /\ doubtful = [w \in Watcher |-> FALSE]

Break == breaks < MaxBreaks /\ breaks' = breaks + 1

-----------------------------------------------------------------------------
(* watchCache and startCaching *)

\* terminateAllWatchers: those that are listed are stopped.
terminateAllWatchers ==
  /\ conn = "off"
  /\ conn' = "list"
  /\ done' = [w \in Watcher |-> done[w] \/ listed[w]]
  /\ listed' = [w \in Watcher |-> FALSE]
  /\ UNCHANGED <<storeVars, ready, stored, rv, listRV, window, incoming, breaks, wpc,
                 asked, initial, from, input, got, since, doubtful>>

\* Replace: the window starts anew with the list; or the list has failed.
Replace ==
  /\ conn = "list"
  /\ \/ /\ conn' = "watch" /\ ready' = TRUE
        /\ stored' = ModRev(Rev) /\ rv' = Rev /\ listRV' = Rev
        /\ window' = <<>>
        /\ UNCHANGED breaks
     \/ Break /\ conn' = "off" /\ UNCHANGED <<ready, stored, rv, listRV, window>>
  /\ UNCHANGED <<storeVars, incoming, callVars>>

\* updateCache: the oldest event leaves a window that is full.
updateCache(e) ==
  window' = Append(IF Len(window) = Capacity THEN Tail(window) ELSE window, e)

\* The next event of etcd.  (processEvent waits for room in incoming.)
processEvent ==
  /\ conn = "watch" /\ Len(incoming) < InCap
  /\ \E r \in rv + 1..Rev :
       LET e == [rev |-> r, prev |-> Value(stored)] IN
       /\ Changed(r) /\ \A q \in rv + 1..r - 1 : ~Changed(q)
       /\ incoming' = Append(incoming, e)
       /\ updateCache(e)
       /\ rv' = r /\ stored' = ModRev(r)
  /\ UNCHANGED <<storeVars, conn, ready, listRV, breaks, callVars>>

\* ListAndWatch returns.
WatchBreaks ==
  /\ conn = "watch" /\ Break
  /\ conn' = "off" /\ ready' = FALSE
  /\ UNCHANGED <<storeVars, stored, rv, listRV, window, incoming, callVars>>

\* The least revision whose event can be delivered.
Oldest == IF Len(window) = Capacity THEN window[1].rev ELSE listRV + 1

\* The window from the first event after r on.
After(r) ==
  LET first == Min({i \in 1..Len(window) : window[i].rev > r} \cup {Len(window) + 1})
  IN  SubSeq(window, first, Len(window))

\* GetAllEventsSince: the object as it is, or what has happened since r.
EventsSince(r) ==
  IF r > 0 THEN After(r)
  ELSE IF stored = 0 THEN <<>> ELSE <<[rev |-> rv, prev |-> None]>>

-----------------------------------------------------------------------------
(* Watch *)

\* Everything, or the objects of one value, for which there is an index.
Selections == {Val} \cup {{v} : v \in Indexed}

\* A goroutine handles one request at a time.  (Bound: a watch is the last.)
Free(g) == /\ g \in Updater => upc[g] = "idle"
           /\ g \in Watcher => wpc[g] = "none"

WatchReady(w) ==
  /\ Free(w) /\ ready
  /\ wpc' = [wpc EXCEPT ![w] = "ready"]
  /\ \E r \in 0..Rev, s \in Selections : asked' = [asked EXCEPT ![w] = [rv |-> r, select |-> s]]
  /\ UNCHANGED <<storeVars, cacheVars, initial, from, input, listed, done, got, since,
                 doubtful>>

TooOld(w) ==
  /\ wpc[w] = "ready" /\ asked[w].rv # 0 /\ asked[w].rv < Oldest - 1
  /\ wpc' = [wpc EXCEPT ![w] = "closed"] /\ asked' = [asked EXCEPT ![w] = Nothing]
  /\ UNCHANGED <<storeVars, cacheVars, initial, from, input, listed, done, got,
                 since, doubtful>>

\* Slip: the watcher gets what is on its way a second time.
StartsFromAsked(w) == asked[w].rv

\* What is on its way and was in the initial events is not sent again.
StartsFrom(w) ==
  LET i == EventsSince(asked[w].rv) IN IF i = <<>> THEN asked[w].rv ELSE Last(i).rev

\* The watcher is registered, whether the cache is ready still or not.
Register(w) ==
  /\ wpc[w] = "ready" /\ (asked[w].rv = 0 \/ asked[w].rv >= Oldest - 1)
  /\ wpc' = [wpc EXCEPT ![w] = "open"]
  /\ initial' = [initial EXCEPT ![w] = EventsSince(asked[w].rv)]
  /\ from' = [from EXCEPT ![w] = StartsFrom(w)]
  /\ listed' = [listed EXCEPT ![w] = TRUE]
  /\ since' = [since EXCEPT ![w] = IF asked[w].rv = 0 THEN rv ELSE asked[w].rv]
  /\ doubtful' = [doubtful EXCEPT ![w] =
       \/ conn = "list"
       \/ asked[w].rv = 0 /\ stored = 0 /\ incoming # <<>>]
  /\ UNCHANGED <<storeVars, cacheVars, asked, input, done, got>>

-----------------------------------------------------------------------------
(* dispatchEvents *)

\* Slip: the value an object had is forgotten.
TriggersNew(e) == {log[e.rev]}

\* The values of the object, new and old, that an index is for.
Triggers(e) == {log[e.rev], e.prev} \ {None}

Concerns(e, w) == listed[w] /\ (asked[w].select = Val \/ asked[w].select \cap Triggers(e) # {})

\* dispatchEvent: a watcher whose channel stays full is forgotten and stopped.
dispatchEvent ==
  /\ incoming # <<>>
  /\ incoming' = Tail(incoming)
  /\ LET e == Head(incoming)
         slow(w) == Concerns(e, w) /\ Len(input[w]) = ChanSize IN
     /\ input' = [w \in Watcher |-> IF Concerns(e, w) /\ ~slow(w)
                                    THEN Append(input[w], e) ELSE input[w]]
     /\ listed' = [w \in Watcher |-> listed[w] /\ ~slow(w)]
     /\ done' = [w \in Watcher |-> done[w] \/ slow(w)]
  /\ UNCHANGED <<storeVars, conn, ready, stored, rv, listRV, window, breaks, wpc, asked,
                 initial, from, got, since, doubtful>>

-----------------------------------------------------------------------------
(* cacheWatcher *)

\* What a client that selects s hears when the object changes from old to new.
Heard(s, old, new, r) ==
  CASE new \in s /\ old \notin s -> <<[type |-> "ADDED", rev |-> r]>>
    [] new \in s /\ old \in s -> <<[type |-> "MODIFIED", rev |-> r]>>
    [] new \notin s /\ old \in s -> <<[type |-> "DELETED", rev |-> r]>>
    [] OTHER -> <<>>

\* sendWatchCacheEvent: nothing is sent after the watcher was stopped.
Send(w, e) ==
  got' = IF done[w] THEN got
         ELSE [got EXCEPT ![w] = @ \o Heard(asked[w].select, e.prev, log[e.rev], e.rev)]

SendInitial(w) ==
  /\ wpc[w] = "open" /\ initial[w] # <<>>
  /\ initial' = [initial EXCEPT ![w] = Tail(@)]
  /\ Send(w, Head(initial[w]))
  /\ UNCHANGED <<storeVars, cacheVars, wpc, asked, from, input, listed, done, since,
                 doubtful>>

SendNext(w) ==
  /\ wpc[w] = "open" /\ initial[w] = <<>> /\ input[w] # <<>>
  /\ input' = [input EXCEPT ![w] = Tail(@)]
  /\ IF Head(input[w]).rev > from[w] THEN Send(w, Head(input[w])) ELSE UNCHANGED got
  /\ UNCHANGED <<storeVars, cacheVars, wpc, asked, initial, from, listed, done, since,
                 doubtful>>

\* The client stops the watcher.
StopWatch(w) ==
  /\ wpc[w] = "open" /\ ~done[w]
  /\ listed' = [listed EXCEPT ![w] = FALSE]
  /\ done' = [done EXCEPT ![w] = TRUE]
  /\ UNCHANGED <<storeVars, cacheVars, wpc, asked, initial, from, input, got, since,
                 doubtful>>

\* The channel is closed and empty.  (What was sent is of no interest any more.)
ProcessEnds(w) ==
  /\ wpc[w] = "open" /\ initial[w] = <<>> /\ input[w] = <<>> /\ done[w]
  /\ wpc' = [wpc EXCEPT ![w] = "closed"]
  /\ asked' = [asked EXCEPT ![w] = Nothing] /\ got' = [got EXCEPT ![w] = <<>>]
  /\ from' = [from EXCEPT ![w] = 0] /\ since' = [since EXCEPT ![w] = 0]
  /\ doubtful' = [doubtful EXCEPT ![w] = FALSE]
  /\ UNCHANGED <<storeVars, cacheVars, initial, input, listed, done>>

-----------------------------------------------------------------------------
Watching(w) == TooOld(w) \/ Register(w) \/ SendInitial(w) \/ SendNext(w) \/ ProcessEnds(w)

\* A request is handled; the cache makes the suggestion.
Requests ==
  /\ \/ WriteElsewhere \/ UpdateElsewhere \/ Create \/ unconditionalDelete
     \/ \E u \in Updater : \/ Free(u) /\ (GuaranteedUpdate(u, stored) \/ conditionalDelete(u))
                          \/ Handle(u)
  /\ UNCHANGED <<cacheVars, callVars>>

CacherNext == \/ Requests \/ terminateAllWatchers \/ Replace \/ processEvent \/ WatchBreaks
              \/ dispatchEvent
              \/ \E w \in Watcher : WatchReady(w) \/ Watching(w) \/ StopWatch(w)

CacherSafety == CacherInit /\ [][CacherNext]_cacherVars

\* Goroutines go on, and etcd answers in the end.
CacherSpec == /\ CacherSafety
              /\ WF_cacherVars(terminateAllWatchers) /\ WF_cacherVars(Replace)
              /\ WF_cacherVars(processEvent) /\ WF_cacherVars(dispatchEvent)
              /\ \A w \in Watcher : WF_cacherVars(Watching(w))

-----------------------------------------------------------------------------
(* Properties *)

\* What the client of w is to hear of revision r: the object as it is, if it
\* asked for it, and then each change of it.
Told(w, r) ==
  LET s == asked[w].select IN
  CASE r = since[w] /\ asked[w].rv = 0 -> Heard(s, None, log[r], r)
    [] r > since[w] /\ Changed(r) -> Heard(s, log[r - 1], log[r], r)
    [] OTHER -> <<>>

\* No client misses an event, hears one twice or out of order, though it was
\* registered while events were on their way, the cache was filled again, or
\* it was too slow and stopped: each thing it has heard is the next it was to
\* hear.  Except when it is registered between the end of a watch and the next
\* list, or from 0 when there is no object but there are events on their way.
WatchIsConsecutive ==
  \A w \in Watcher : wpc[w] = "open" /\ ~doubtful[w] =>
    \A i \in 1..Len(got[w]) :
      LET r    == got[w][i].rev
          next == IF i = 1 THEN since[w] ELSE got[w][i - 1].rev + 1 IN
      /\ r \in next..Rev /\ Told(w, r) = <<got[w][i]>>
      /\ \A q \in next..r - 1 : Told(w, q) = <<>>

\* A client that is not stopped hears of everything in the end.
WatchersHear ==
  <>[](\A w \in Watcher : wpc[w] = "open" /\ ~done[w] /\ ~doubtful[w] =>
         \A r \in since[w]..Rev : Told(w, r) # <<>> =>
           \E i \in 1..Len(got[w]) : got[w][i].rev = r)
=============================================================================
