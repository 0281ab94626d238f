------------------------------ MODULE WorkQueue ------------------------------
(***************************************************************************)
(* The work queue every Kubernetes controller is built on                  *)
(* (client-go/util/workqueue/queue.go), with the worker goroutines that    *)
(* call Get, process the item and call Done, and any number of goroutines  *)
(* that call Add and ShutDown.                                             *)
(*                                                                         *)
(* Every method holds q.cond.L from its first to its last line, so a       *)
(* method is one action; Get is split where cond.Wait releases the lock.   *)
(* A worker that was signalled is back at the test of the for loop around  *)
(* cond.Wait ("get") and competes for the lock with everybody else, so     *)
(* another worker may take the item it was woken for.                      *)
(***************************************************************************)
EXTENDS Naturals, Sequences, FiniteSets, Functions, SequencesExt

CONSTANTS Item,     \* the keys put in the queue
          NoItem,   \* nil: what a worker holds between Done and Get
          Worker    \* the goroutines that run the Get/Done loop

ASSUME WorkerAssumption == IsFiniteSet(Worker)
ASSUME ItemAssumption   == NoItem \notin Item

VARIABLES queue,         \* q.queue: the items to hand out, in order
          dirty,         \* q.dirty: the items that need processing
          processing,    \* q.processing: the items handed out, not yet Done
          shuttingDown,  \* q.shuttingDown
          pc,            \* where each worker is in its loop
          held           \* the item each worker got from its last Get

queueVars == <<queue, dirty, processing, shuttingDown>>
wqVars    == <<queue, dirty, processing, shuttingDown, pc, held>>

\* "get": calling Get, not (or no longer) asleep; "wait": asleep in
\* cond.Wait; "work": between Get and Done; "exit": saw shutdown = true.
PC == {"get", "wait", "work", "exit"}

WQInit == /\ queue = <<>>
          /\ dirty = {}
          /\ processing = {}
          /\ shuttingDown = FALSE
          /\ pc = [w \in Worker |-> "get"]
          /\ held = [w \in Worker |-> NoItem]

(***************************************************************************)
(* cond.Signal wakes one goroutine asleep in cond.Wait, if there is one;   *)
(* cond.Broadcast wakes them all.  Both give the set of the program        *)
(* counters that may result.                                               *)
(***************************************************************************)
Asleep(p) == {w \in Worker : p[w] = "wait"}

Signal(p) == IF Asleep(p) = {} THEN {p}
             ELSE {[p EXCEPT ![w] = "get"] : w \in Asleep(p)}

Broadcast(p) == {[w \in Worker |-> IF p[w] = "wait" THEN "get" ELSE p[w]]}

-----------------------------------------------------------------------------
\* Slip: the item is queued although it is being processed.
AddNewUnchecked(x) ==
  /\ dirty' = dirty \cup {x}
  /\ queue' = Append(queue, x) /\ pc' \in Signal(pc)
  /\ UNCHANGED <<processing, shuttingDown, held>>

\* Slip: the item is queued and nobody is woken for it.
AddNewSilent(x) ==
  /\ dirty' = dirty \cup {x}
  /\ queue' = IF x \in processing THEN queue ELSE Append(queue, x)
  /\ UNCHANGED <<processing, shuttingDown, pc, held>>

\* Add, past its first test: the item enters dirty, and the queue too unless
\* it is being processed (Done will queue it then).
AddNew(x) ==
  /\ dirty' = dirty \cup {x}
  /\ IF x \in processing
     THEN UNCHANGED <<queue, pc>>
     ELSE queue' = Append(queue, x) /\ pc' \in Signal(pc)
  /\ UNCHANGED <<processing, shuttingDown, held>>

Add(x) == IF shuttingDown \/ x \in dirty
          THEN UNCHANGED wqVars
          ELSE AddNew(x)

\* Get finds nothing to do and sleeps in cond.Wait.
GetWait(w) ==
  /\ pc[w] = "get"
  /\ queue = <<>> /\ ~shuttingDown
  /\ pc' = [pc EXCEPT ![w] = "wait"]
  /\ UNCHANGED <<queueVars, held>>

\* Slip: the worker is handed the last item added instead of the first.
GetItemLIFO(w) ==
  /\ pc[w] = "get"
  /\ queue # <<>>
  /\ LET x == queue[Len(queue)]
     IN  /\ queue' = Front(queue)
         /\ processing' = processing \cup {x}
         /\ dirty' = dirty \ {x}
         /\ held' = [held EXCEPT ![w] = x]
  /\ pc' = [pc EXCEPT ![w] = "work"]
  /\ UNCHANGED shuttingDown

\* Get returns the head of the queue.
GetItem(w) ==
  /\ pc[w] = "get"
  /\ queue # <<>>
  /\ queue' = Tail(queue)
  /\ processing' = processing \cup {Head(queue)}
  /\ dirty' = dirty \ {Head(queue)}
  /\ held' = [held EXCEPT ![w] = Head(queue)]
  /\ pc' = [pc EXCEPT ![w] = "work"]
  /\ UNCHANGED shuttingDown

\* Slip: a shutdown ends the worker even if items are queued.
GetShutdownEager(w) ==
  /\ pc[w] = "get"
  /\ shuttingDown
  /\ pc' = [pc EXCEPT ![w] = "exit"]
  /\ UNCHANGED <<queueVars, held>>

\* Get returns shutdown = true and the worker ends.
GetShutdown(w) ==
  /\ pc[w] = "get"
  /\ queue = <<>> /\ shuttingDown
  /\ pc' = [pc EXCEPT ![w] = "exit"]
  /\ UNCHANGED <<queueVars, held>>

\* Slip: the item is forgotten before it is queued again.
DoneForgetsFirst(w) ==
  /\ pc[w] = "work"
  /\ processing' = processing \ {held[w]}
  /\ held' = [held EXCEPT ![w] = NoItem]
  /\ LET back == [pc EXCEPT ![w] = "get"]
     IN  IF held[w] \in dirty
         THEN queue' = Append(queue, held'[w]) /\ pc' \in Signal(back)
         ELSE pc' = back /\ UNCHANGED queue
  /\ UNCHANGED <<dirty, shuttingDown>>

\* The worker has processed its item and goes back to Get.  An item marked
\* dirty in the meantime goes to the end of the queue.
Done(w) ==
  /\ pc[w] = "work"
  /\ processing' = processing \ {held[w]}
  /\ held' = [held EXCEPT ![w] = NoItem]
  /\ LET back == [pc EXCEPT ![w] = "get"]
     IN  IF held[w] \in dirty
         THEN queue' = Append(queue, held[w]) /\ pc' \in Signal(back)
         ELSE pc' = back /\ UNCHANGED queue
  /\ UNCHANGED <<dirty, shuttingDown>>

\* Slip: one waiting worker is told of the shutdown, not all of them.
ShutDownSignal ==
  /\ shuttingDown' = TRUE
  /\ pc' \in Signal(pc)
  /\ UNCHANGED <<queue, dirty, processing, held>>

ShutDown ==
  /\ shuttingDown' = TRUE
  /\ pc' \in Broadcast(pc)
  /\ UNCHANGED <<queue, dirty, processing, held>>

-----------------------------------------------------------------------------
Get(w) == GetWait(w) \/ GetItem(w) \/ GetShutdown(w)

WQNext == \/ \E x \in Item : Add(x)
          \/ \E w \in Worker : Get(w) \/ Done(w)
          \/ ShutDown

(***************************************************************************)
(* The Go scheduler runs every runnable goroutine and a sync.Mutex does    *)
(* not starve a waiter, so a worker at Get takes a step; the function a    *)
(* controller runs on an item returns.  Nobody has to call Add or          *)
(* ShutDown.                                                               *)
(***************************************************************************)
WorkerFairness == \A w \in Worker : WF_wqVars(Get(w)) /\ WF_wqVars(Done(w))

WQSafety == WQInit /\ [][WQNext]_wqVars

WQSpec == WQSafety /\ WorkerFairness

-----------------------------------------------------------------------------
(* Correctness *)

\* The state of the queue and its workers is well formed.
WQTypeOK ==
  /\ queue \in Seq(Item)
  /\ dirty \subseteq Item
  /\ processing \subseteq Item
  /\ shuttingDown \in BOOLEAN
  /\ pc \in [Worker -> PC]
  /\ held \in [Worker -> Item \cup {NoItem}]

\* queue.go:66-68 says every queued item is dirty and not being processed.
\* The converse is what keeps work from being lost: a dirty item that nobody
\* processes is queued, and queued once.
QueueIsDirtyWork ==
  /\ Range(queue) = dirty \ processing
  /\ \A i, j \in DOMAIN queue : queue[i] = queue[j] => i = j

\* The processing set is exactly what the workers hold, and no two workers
\* hold the same item, however often it is added while it is processed.
ExclusiveProcessing ==
  /\ processing = {held[w] : w \in {v \in Worker : pc[v] = "work"}}
  /\ \A v, w \in Worker : pc[v] = "work" /\ pc[w] = "work" /\ held[v] = held[w]
                            => v = w

\* No wakeup is lost: as long as a worker sleeps, every queued item has a
\* worker awake at Get that comes for it, and after ShutDown nobody sleeps.
AwakeAtGet == {w \in Worker : pc[w] = "get"}

NoLostWakeup ==
  Asleep(pc) # {} => /\ ~shuttingDown
                     /\ Len(queue) <= Cardinality(AwakeAtGet)

\* The workers drain the queue before they exit (queue.go:178-180): a worker
\* is gone only after ShutDown, and if all are, no dirty item is left behind.
DrainedOnExit ==
  \A w \in Worker : pc[w] = "exit" =>
    /\ shuttingDown
    /\ (\A v \in Worker : pc[v] = "exit") => dirty = {} /\ processing = {}

\* The queue keeps the promise of WorkSet.  Its fairness is what FIFO order,
\* the re-queueing in Done and the signalling buy together: an item that is
\* pending and not being run is run, even if other items are added forever.
Abstract == INSTANCE WorkSet WITH pending <- dirty, active <- processing,
                                  closed <- shuttingDown

RefinesWorkSet == Abstract!Spec

\* After ShutDown every worker drains what is left and exits.
WorkersExit == shuttingDown ~> \A w \in Worker : pc[w] = "exit"
=============================================================================
