-------------------------- MODULE RateLimitingQueue --------------------------
(***************************************************************************)
(* The queue controllers use: the work queue (WorkQueue), wrapped by the   *)
(* delaying queue (delaying_queue.go) and by the rate limiting queue       *)
(* (rate_limitting_queue.go, default_rate_limiters.go), with the workers   *)
(* of a controller (processNextWorkItem: Get, sync, then Forget or         *)
(* AddRateLimited, then the deferred Done) and other goroutines that call  *)
(* AddAfter.                                                               *)
(*                                                                         *)
(* Time is what is left until an entry's readyAt; Tick lets one unit pass  *)
(* for all of them, and an entry with nothing left stays at 0.  No step is *)
(* urgent: any goroutine may be delayed for any number of ticks.           *)
(***************************************************************************)
EXTENDS WorkQueue

CONSTANTS Adder,         \* goroutines, other than workers, that call AddAfter
          ChanCap,       \* capacity of waitingForAddCh (1000 in the code)
          BaseDelay,     \* of the exponential rate limiter
          MaxDelay,      \* of the exponential rate limiter, in ticks
          MaxFailures    \* bound: failures are counted up to this number

ASSUME DelayAssumption == /\ ChanCap \in Nat \ {0}
                          /\ BaseDelay \in Nat \ {0}
                          /\ MaxDelay \in Nat \ {0}
                          /\ MaxFailures \in Nat

VARIABLES failures,   \* the exponential rate limiter's failures, per item
          sending,    \* the waitFor each caller of AddAfter offers, if any
          step,       \* how far each working worker is with its item
          channel,    \* waitingForAddCh
          waiting,    \* waitingForQueue and waitingEntryByData: item to time left
          ready,      \* entries found due in this turn of the waiting loop
          timer,      \* what nextReadyAt waits for; Never if there is no entry
          loop,       \* where the waiting loop is
          stopped     \* stopCh is closed

delayVars == <<failures, sending, step, channel, waiting, ready, timer, loop,
               stopped>>
rlVars == <<wqVars, delayVars>>
loopVars == <<waiting, ready, timer, loop>>

Caller == Worker \cup Adder
Delay  == 0 .. MaxDelay
WaitFor == [data : Item, left : Delay]
NoSend == [data |-> NoItem, left |-> 0]
Never  == MaxDelay + 1
Lesser(i, j) == IF i < j THEN i ELSE j

RLInit == /\ WQInit
          /\ failures = [x \in Item |-> 0]
          /\ sending = [c \in Caller |-> NoSend]
          /\ step = [w \in Worker |-> "sync"]
          /\ channel = <<>>
          /\ waiting = [x \in {} |-> 0]
          /\ ready = {}
          /\ timer = Never
          /\ loop = "top"
          /\ stopped = FALSE

-----------------------------------------------------------------------------
(***************************************************************************)
(* ItemExponentialFailureRateLimiter.When: baseDelay * 2^failures, at most *)
(* maxDelay.  MaxOfRateLimiter takes the worst of it and of the token      *)
(* bucket, whose answer (golang.org/x/time/rate) may be any delay.  The    *)
(* count stops at MaxFailures, where the delay no longer grows if          *)
(* BaseDelay * 2^MaxFailures >= MaxDelay.                                  *)
(***************************************************************************)
Exponential(x) == Lesser(BaseDelay * 2^failures[x], MaxDelay)

When(x) == {d \in Delay : d >= Exponential(x)}

\* AddAfter, from its first test to the select: nothing happens if the queue
\* is shutting down; an item without delay is added at once; for any other
\* readyAt is fixed here, and the caller offers the entry to the channel.
AddAfter(c, x, d) ==
  \/ /\ shuttingDown
     /\ UNCHANGED <<wqVars, sending>>
  \/ /\ ~shuttingDown /\ d = 0
     /\ Add(x)
     /\ UNCHANGED sending
  \/ /\ ~shuttingDown /\ d > 0
     /\ sending' = [sending EXCEPT ![c] = [data |-> x, left |-> d]]
     /\ UNCHANGED wqVars

\* AddRateLimited: AddAfter the delay the rate limiter asks for; its When
\* counts the failure.
AddRateLimited(c, x) ==
  /\ failures' = [failures EXCEPT ![x] = Lesser(@ + 1, MaxFailures)]
  /\ \E d \in When(x) : AddAfter(c, x, d)

Forget(x) == failures' = [failures EXCEPT ![x] = 0]

\* Slip: the channel is taken to be unbounded.
SendUnbounded(c) ==
  /\ sending[c] # NoSend
  /\ channel' = Append(channel, sending[c])
  /\ sending' = [sending EXCEPT ![c] = NoSend]
  /\ UNCHANGED <<wqVars, failures, step, loopVars, stopped>>

\* The select of AddAfter: the channel takes the entry, or stopCh is closed.
Send(c) ==
  /\ sending[c] # NoSend
  /\ \/ /\ Len(channel) < ChanCap
        /\ channel' = Append(channel, sending[c])
     \/ /\ stopped
        /\ UNCHANGED channel
  /\ sending' = [sending EXCEPT ![c] = NoSend]
  /\ UNCHANGED <<wqVars, failures, step, loopVars, stopped>>

-----------------------------------------------------------------------------
(* The workers: processNextWorkItem *)

WorkerGet(w) == Get(w) /\ UNCHANGED delayVars

Working(w, s) == pc[w] = "work" /\ step[w] = s

\* The sync succeeded: Forget the item's failures, then the deferred Done.
\* Nobody else touches the failures of an item that is being processed, so
\* the two calls are one step.
SyncOk(w) ==
  /\ Working(w, "sync")
  /\ Forget(held[w])
  /\ Done(w)
  /\ UNCHANGED <<sending, step, channel, loopVars, stopped>>

\* The sync failed: the item is to be tried again.
SyncErr(w) ==
  /\ Working(w, "sync")
  /\ AddRateLimited(w, held[w])
  /\ step' = [step EXCEPT ![w] = "finish"]
  /\ UNCHANGED <<channel, loopVars, stopped>>

\* The deferred Done of a failed sync, once AddAfter has returned.
Finish(w) ==
  /\ Working(w, "finish") /\ sending[w] = NoSend
  /\ Done(w)
  /\ step' = [step EXCEPT ![w] = "sync"]
  /\ UNCHANGED <<failures, sending, channel, loopVars, stopped>>

-----------------------------------------------------------------------------
(* waitingLoop *)

\* The time left of the first of the entries S in the heap.
Earliest(S) == {m \in Delay : /\ \E x \in S : waiting[x] = m
                              /\ \A x \in S : m <= waiting[x]}

\* Slip: an entry is taken out one tick before it is due.
LoopTopEarly ==
  /\ loop = "top"
  /\ IF shuttingDown
     THEN loop' = "exit" /\ UNCHANGED <<ready, timer>>
     ELSE LET due == {x \in DOMAIN waiting : waiting[x] <= 1}
              later == DOMAIN waiting \ due
          IN  /\ ready' = due
              /\ timer' \in IF later = {} THEN {Never} ELSE Earliest(later)
              /\ loop' = "ready"
  /\ UNCHANGED <<wqVars, failures, sending, step, channel, waiting, stopped>>

\* Slip: the timer is set up only if no entry was due.
LoopTopNoTimer ==
  /\ loop = "top"
  /\ IF shuttingDown
     THEN loop' = "exit" /\ UNCHANGED <<ready, timer>>
     ELSE LET due == {x \in DOMAIN waiting : waiting[x] = 0}
              later == DOMAIN waiting \ due
          IN  /\ ready' = due
              /\ timer' \in IF due # {} \/ later = {} THEN {Never} ELSE Earliest(later)
              /\ loop' = "ready"
  /\ UNCHANGED <<wqVars, failures, sending, step, channel, waiting, stopped>>

\* The top of the loop reads the clock.  Which entries are due and how long
\* the next timer is depend on that reading alone, since only the loop
\* touches the heap.
LoopTop ==
  /\ loop = "top"
  /\ IF shuttingDown
     THEN loop' = "exit" /\ UNCHANGED <<ready, timer>>
     ELSE LET due == {x \in DOMAIN waiting : waiting[x] = 0}
              later == DOMAIN waiting \ due
          IN  /\ ready' = due
              /\ timer' \in IF later = {} THEN {Never} ELSE Earliest(later)
              /\ loop' = "ready"
  /\ UNCHANGED <<wqVars, failures, sending, step, channel, waiting, stopped>>

\* One due entry is popped and added.  (Entries due at different times are
\* added in any order here, in the order of readyAt in the code.)
AddReady ==
  /\ loop = "ready"
  /\ \E x \in ready :
       /\ Add(x)
       /\ ready' = ready \ {x}
       /\ waiting' = Restrict(waiting, DOMAIN waiting \ {x})
  /\ UNCHANGED <<failures, sending, step, channel, timer, loop, stopped>>

\* The timer for the next entry starts, and the loop blocks in select.
StartTimer ==
  /\ loop = "ready" /\ ready = {}
  /\ loop' = "select"
  /\ UNCHANGED <<wqVars, failures, sending, step, channel, waiting, ready, timer,
                 stopped>>

\* The cases of the select that do not receive an entry.  Leaving the select
\* abandons the timer: the next turn makes a new nextReadyAt.
SelectStop ==
  /\ loop = "select" /\ stopped
  /\ loop' = "exit" /\ timer' = Never
  /\ UNCHANGED <<wqVars, failures, sending, step, channel, waiting, ready,
                 stopped>>

SelectTimer ==
  /\ loop = "select" /\ timer = 0
  /\ loop' = "top" /\ timer' = Never
  /\ UNCHANGED <<wqVars, failures, sending, step, channel, waiting, ready,
                 stopped>>

\* The heartbeat may fire at any time.  Nothing below relies on it.
SelectHeartbeat ==
  /\ loop = "select"
  /\ loop' = "top" /\ timer' = Never
  /\ UNCHANGED <<wqVars, failures, sending, step, channel, waiting, ready,
                 stopped>>

\* Slip: a later request for the same item replaces the earlier one.
InsertLast(e) ==
  waiting' = [x \in DOMAIN waiting \cup {e.data} |->
                IF x = e.data THEN e.left ELSE waiting[x]]

\* insert: an item that is already waiting keeps the earlier of the two times.
Insert(e) ==
  waiting' = [x \in DOMAIN waiting \cup {e.data} |->
                IF x \notin DOMAIN waiting THEN e.left
                ELSE IF x = e.data THEN Lesser(waiting[x], e.left)
                ELSE waiting[x]]

\* Slip: an entry whose time has passed is received and forgotten.
ReceiveDropsDue ==
  /\ loop \in {"select", "drain"}
  /\ channel # <<>>
  /\ LET e == Head(channel)
     IN  IF e.left > 0 THEN Insert(e) ELSE UNCHANGED waiting
  /\ channel' = Tail(channel)
  /\ loop' = "drain" /\ timer' = Never
  /\ UNCHANGED <<wqVars, failures, sending, step, ready, stopped>>

\* An entry is received, by the select or by the inner loop that drains the
\* channel: it waits for its time, or is added at once when that has passed.
Receive ==
  /\ loop \in {"select", "drain"}
  /\ channel # <<>>
  /\ LET e == Head(channel)
     IN  IF e.left > 0
         THEN Insert(e) /\ UNCHANGED wqVars
         ELSE Add(e.data) /\ UNCHANGED waiting
  /\ channel' = Tail(channel)
  /\ loop' = "drain" /\ timer' = Never
  /\ UNCHANGED <<failures, sending, step, ready, stopped>>

Drained ==
  /\ loop = "drain" /\ channel = <<>>
  /\ loop' = "top"
  /\ UNCHANGED <<wqVars, failures, sending, step, channel, waiting, ready, timer,
                 stopped>>

LoopStep == \/ LoopTop \/ AddReady \/ StartTimer \/ SelectStop \/ SelectTimer
            \/ Receive \/ Drained

-----------------------------------------------------------------------------
(***************************************************************************)
(* ShutDown stops the inner queue first and closes stopCh after that.  It  *)
(* is called once: closing stopCh a second time would panic.               *)
(***************************************************************************)
BeginShutDown == ~shuttingDown /\ ShutDown /\ UNCHANGED delayVars

\* Slip: stopCh is never closed.
CloseStopNot == FALSE /\ UNCHANGED rlVars

CloseStop == /\ shuttingDown /\ ~stopped
             /\ stopped' = TRUE
             /\ UNCHANGED <<wqVars, failures, sending, step, channel, loopVars>>

\* The goroutines other than the workers.
OutsideAdd(x) == Add(x) /\ UNCHANGED delayVars

OutsideAddAfter(c) ==
  /\ sending[c] = NoSend
  /\ \E x \in Item, d \in Delay : AddAfter(c, x, d)
  /\ UNCHANGED <<failures, step, channel, loopVars, stopped>>

\* One unit of time passes.  The timer runs while the loop is in select.
Passed(n) == IF n = 0 THEN 0 ELSE n - 1

Tick ==
  /\ sending' = [c \in Caller |-> [sending[c] EXCEPT !.left = Passed(@)]]
  /\ channel' = [i \in DOMAIN channel |-> [channel[i] EXCEPT !.left = Passed(@)]]
  /\ waiting' = [x \in DOMAIN waiting |-> Passed(waiting[x])]
  /\ timer' = IF loop = "select" /\ timer # Never THEN Passed(timer) ELSE timer
  /\ UNCHANGED <<wqVars, failures, step, ready, loop, stopped>>

RLNext ==
  \/ \E x \in Item : OutsideAdd(x)
  \/ \E c \in Adder : OutsideAddAfter(c)
  \/ \E c \in Caller : Send(c)
  \/ \E w \in Worker : WorkerGet(w) \/ SyncOk(w) \/ SyncErr(w) \/ Finish(w)
  \/ LoopStep \/ SelectHeartbeat
  \/ BeginShutDown \/ CloseStop
  \/ Tick

(***************************************************************************)
(* Every goroutine that can run does; a sync returns, one way or the other *)
(* (which way is not fair: it may fail forever).  Goroutines blocked on a  *)
(* full channel are served in the order they came, so a sender that can    *)
(* send again and again does; a select picks among its ready cases at      *)
(* random, so an entry in the channel is received although the heartbeat   *)
(* or the timer may win any number of times: strong fairness.  Time        *)
(* passes.  The inner loop of waitingLoop drains the channel faster than   *)
(* it is filled, again and again: without that assumption (SF of Drained)  *)
(* senders could keep the loop from the entries that are due.              *)
(***************************************************************************)
RLFairness ==
  /\ \A w \in Worker : /\ WF_rlVars(WorkerGet(w))
                       /\ WF_rlVars(SyncOk(w) \/ SyncErr(w))
                       /\ WF_rlVars(Finish(w))
  /\ \A c \in Caller : SF_rlVars(Send(c))
  /\ WF_rlVars(LoopStep) /\ SF_rlVars(Receive) /\ SF_rlVars(Drained)
  /\ WF_rlVars(CloseStop)
  /\ WF_rlVars(Tick)

RLSafety == RLInit /\ [][RLNext]_rlVars

RLSpec == RLSafety /\ RLFairness

-----------------------------------------------------------------------------
(* Correctness *)

\* Well-formed states; in particular waitingForAddCh never holds more than
\* its capacity.
DelayTypeOK ==
  /\ failures \in [Item -> 0 .. MaxFailures]
  /\ sending \in [Caller -> WaitFor \cup {NoSend}]
  /\ step \in [Worker -> {"sync", "finish"}]
  /\ channel \in Seq(WaitFor)
  /\ Len(channel) <= ChanCap
  /\ DOMAIN waiting \subseteq Item
  /\ \A x \in DOMAIN waiting : waiting[x] \in Delay
  /\ ready \subseteq DOMAIN waiting
  /\ timer \in Delay \cup {Never}
  /\ loop \in {"top", "ready", "select", "drain", "exit"}
  /\ stopped \in BOOLEAN

RLTypeOK == WQTypeOK /\ DelayTypeOK

\* The times left of the requests for x the waiting loop has or will have.
Requests(x) ==
  {channel[i].left : i \in {j \in DOMAIN channel : channel[j].data = x}}
    \cup {waiting[y] : y \in DOMAIN waiting \cap {x}}

\* A worker does not call Done on a failed item whose retry is lost: until then
\* the worker offers the entry, the loop has it or will receive it, or the item
\* is dirty - also when the loop has added it already while it was processed,
\* others delayed or added the same item, or the channel was full.  From then on
\* NeverPostponed and the inner queue keep it.  (processNextWorkItem reports the
\* error and relies on AddRateLimited alone, replica_set.go:451-455.)
NoRetryLost ==
  \A w \in Worker :
    Working(w, "finish") /\ ~shuttingDown =>
      \/ sending[w].data = held[w]
      \/ Requests(held[w]) # {}
      \/ held[w] \in dirty

\* A delayed request that AddAfter has handed over is neither dropped nor
\* postponed: until the item is added, a request at least as early is kept.
\* (delaying_queue.go:242: "update the time only if it would cause the item
\* to be queued sooner".)
NeverPostponed ==
  [][\A x \in Item :
       Requests(x) # {} /\ ~shuttingDown =>
         \/ x \in dirty'
         \/ \A r \in Requests(x) : \E s \in Requests(x)' : s <= r]_rlVars

\* The waiting loop never adds an item before the delay of one of its
\* requests is over.
NeverEarly ==
  [][\A x \in Item : LoopStep /\ x \in dirty' \ dirty => 0 \in Requests(x)]_rlVars

\* A retry is not lost, even if the channel is full, the loop is busy and the
\* same item is added, processed and delayed by others: an item whose sync
\* failed, or that was delayed, becomes dirty, unless the queue shuts down.
\* A dirty item is processed (RefinesWorkSet).
RetryHappens ==
  \A x \in Item :
    (\E c \in Caller : sending[c].data = x) ~> (x \in dirty \/ shuttingDown)

\* ShutDown releases everybody: the workers drain the queue and exit, the
\* waiting loop ends, and nobody stays blocked in AddAfter.
ShutdownCompletes ==
  shuttingDown ~> /\ \A w \in Worker : pc[w] = "exit"
                  /\ \A c \in Caller : sending[c] = NoSend
                  /\ loop = "exit"
=============================================================================
