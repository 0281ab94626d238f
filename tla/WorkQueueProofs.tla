--------------------------- MODULE WorkQueueProofs ---------------------------
(***************************************************************************)
(* The safety of the work queue for any set of keys and any finite set of  *)
(* workers (WQSafety); and then of the rate limiting queue (RLSafety),     *)
(* which implements the work queue it wraps for any callers, capacity of   *)
(* the channel and delays, so that all that is proved of the one holds of  *)
(* the other.                                                              *)
(***************************************************************************)
EXTENDS RateLimitingQueue, SequenceFacts, FiniteSetTheorems, TLAPS

\* Whom a signal may wake: the program counters stay well typed, and only a
\* sleeping worker moves, to the loop of Get.
LEMMA SignalFacts ==
  ASSUME NEW p \in [Worker -> PC], NEW q \in Signal(p)
  PROVE  /\ q \in [Worker -> PC]
         /\ \A w \in Worker : q[w] = p[w] \/ (p[w] = "wait" /\ q[w] = "get")
BY DEF Signal, Asleep, PC

LEMMA BroadcastFacts ==
  ASSUME NEW p \in [Worker -> PC], NEW q \in Broadcast(p)
  PROVE  /\ q \in [Worker -> PC]
         /\ Asleep(q) = {}
         /\ \A w \in Worker : q[w] = p[w] \/ (p[w] = "wait" /\ q[w] = "get")
BY DEF Broadcast, Asleep, PC

-----------------------------------------------------------------------------
(***************************************************************************)
(* Type correctness.                                                       *)
(***************************************************************************)

\* The queue starts empty and well typed.
LEMMA TypeInit == WQInit => WQTypeOK
<1> SUFFICES ASSUME WQInit PROVE WQTypeOK
  OBVIOUS
<1>1. queue \in Seq(Item)
  BY DEF WQInit
<1>2. shuttingDown \in BOOLEAN
  BY Zenon DEF WQInit
<1> QED BY <1>1, <1>2 DEF WQInit, WQTypeOK, PC

\* Every step keeps the state well typed.
LEMMA TypeStep == WQTypeOK /\ [WQNext]_wqVars => WQTypeOK'
<1> SUFFICES ASSUME WQTypeOK, [WQNext]_wqVars PROVE WQTypeOK'
  OBVIOUS
<1> USE DEF WQTypeOK
<1>1. ASSUME NEW x \in Item, Add(x) PROVE WQTypeOK'
  <2>1. CASE UNCHANGED wqVars
    BY <2>1 DEF wqVars
  <2>2. CASE AddNew(x)
    BY <2>2, AppendFacts, SignalFacts DEF AddNew
  <2> QED BY <1>1, <2>1, <2>2 DEF Add
<1>2. ASSUME NEW w \in Worker, GetWait(w) PROVE WQTypeOK'
  BY <1>2 DEF GetWait, queueVars, PC
<1>3. ASSUME NEW w \in Worker, GetItem(w) PROVE WQTypeOK'
  BY <1>3, TailFacts DEF GetItem, PC
<1>4. ASSUME NEW w \in Worker, GetShutdown(w) PROVE WQTypeOK'
  BY <1>4 DEF GetShutdown, queueVars, PC
<1>5. ASSUME NEW w \in Worker, Done(w) PROVE WQTypeOK'
  <2>1. [pc EXCEPT ![w] = "get"] \in [Worker -> PC]
    BY DEF PC
  <2>2. pc' \in [Worker -> PC]
    BY <1>5, <2>1, SignalFacts DEF Done
  <2>3. queue' \in Seq(Item)
    <3>1. CASE held[w] \in dirty
      BY <1>5, <3>1, AppendFacts DEF Done
    <3> QED BY <1>5, <3>1 DEF Done
  <2> QED BY <1>5, <2>2, <2>3 DEF Done
<1>6. CASE ShutDown
  BY <1>6, BroadcastFacts DEF ShutDown
<1>7. CASE UNCHANGED wqVars
  BY <1>7 DEF wqVars
<1> QED BY <1>1, <1>2, <1>3, <1>4, <1>5, <1>6, <1>7 DEF WQNext, Get

\* Every reachable state of the queue and its workers is well formed.
THEOREM TypeCorrect == WQSafety => []WQTypeOK
BY TypeInit, TypeStep, PTL DEF WQSafety

-----------------------------------------------------------------------------
(***************************************************************************)
(* The queue holds the dirty items nobody processes, and the workers hold  *)
(* what is being processed.  Neither part is inductive alone: an item that *)
(* Done queues again is not in the queue because it was in the processing  *)
(* set, and it was there because its worker held it; an item a worker gets *)
(* is held by no other because it was in the queue.                        *)
(***************************************************************************)
WorkInv == WQTypeOK /\ QueueIsDirtyWork /\ ExclusiveProcessing

\* Waking a sleeper moves nobody in or out of the code between Get and Done.
LEMMA SignalKeepsHolding ==
  ASSUME NEW p \in [Worker -> PC], NEW q \in Signal(p) \cup Broadcast(p),
         NEW w \in Worker
  PROVE  /\ p[w] = "work" <=> q[w] = "work"
         /\ p[w] = "exit" <=> q[w] = "exit"
<1>1. q[w] = p[w] \/ (p[w] = "wait" /\ q[w] = "get")
  BY SignalFacts, BroadcastFacts
<1> QED BY <1>1

\* One step of the queue or of a worker keeps WorkInv.
LEMMA WorkInvStep == WorkInv /\ [WQNext]_wqVars => WorkInv'
<1> SUFFICES ASSUME WorkInv, [WQNext]_wqVars
             PROVE  QueueIsDirtyWork' /\ ExclusiveProcessing'
  BY TypeStep DEF WorkInv
<1>0. /\ WQTypeOK /\ WQTypeOK'
      /\ Range(queue) = dirty \ processing /\ NoRepeats(queue)
      /\ ExclusiveProcessing
  BY TypeStep DEF WorkInv, QueueIsDirtyWork, NoRepeats
<1>q. QueueIsDirtyWork' <=> /\ Range(queue') = dirty' \ processing'
                            /\ NoRepeats(queue')
  BY DEF QueueIsDirtyWork, NoRepeats
<1>1. ASSUME NEW x \in Item, AddNew(x), x \notin dirty
      PROVE  QueueIsDirtyWork' /\ ExclusiveProcessing'
  <2>1. Range(queue') = dirty' \ processing' /\ NoRepeats(queue')
    <3>1. CASE x \in processing
      BY <1>0, <1>1, <3>1 DEF AddNew
    <3>2. CASE x \notin processing
      <4>1. queue' = Append(queue, x) /\ x \notin Range(queue)
        BY <1>0, <1>1, <3>2 DEF AddNew
      <4>2. Range(queue') = Range(queue) \cup {x} /\ NoRepeats(queue')
        BY <1>0, <4>1, AppendFacts DEF WQTypeOK
      <4> QED BY <1>0, <1>1, <3>2, <4>2 DEF AddNew
    <3> QED BY <3>1, <3>2
  <2>2. \A w \in Worker : pc'[w] = "work" <=> pc[w] = "work"
    BY <1>0, <1>1, SignalKeepsHolding DEF AddNew, WQTypeOK
  <2>3. ExclusiveProcessing'
    BY <1>0, <1>1, <2>2 DEF AddNew, ExclusiveProcessing
  <2> QED BY <1>q, <2>1, <2>3
<1>2. ASSUME NEW w \in Worker, GetWait(w) \/ GetShutdown(w)
      PROVE  QueueIsDirtyWork' /\ ExclusiveProcessing'
  <2>1. Range(queue') = dirty' \ processing' /\ NoRepeats(queue')
    BY <1>0, <1>2 DEF GetWait, GetShutdown, queueVars
  <2>2. \A v \in Worker : pc'[v] = "work" <=> pc[v] = "work"
    BY <1>0, <1>2 DEF GetWait, GetShutdown, WQTypeOK
  <2>3. ExclusiveProcessing'
    BY <1>0, <1>2, <2>2 DEF GetWait, GetShutdown, queueVars, ExclusiveProcessing
  <2> QED BY <1>q, <2>1, <2>3
<1>3. ASSUME NEW w \in Worker, GetItem(w)
      PROVE  QueueIsDirtyWork' /\ ExclusiveProcessing'
  <2> DEFINE x == Head(queue)
  <2>0. x \in Range(queue) /\ x \in Item /\ x \notin processing
    BY <1>0, <1>3, TailFacts DEF GetItem, WQTypeOK
  <2>1. Range(queue') = dirty' \ processing' /\ NoRepeats(queue')
    <3>1. Range(queue') = Range(queue) \ {x} /\ NoRepeats(queue')
      BY <1>0, <1>3, TailFacts DEF GetItem, WQTypeOK
    <3> QED BY <1>0, <1>3, <3>1 DEF GetItem
  <2>2. /\ processing' = processing \cup {x}
        /\ \A v \in Worker : v # w => pc'[v] = pc[v] /\ held'[v] = held[v]
        /\ pc'[w] = "work" /\ held'[w] = x /\ pc[w] # "work"
    BY <1>0, <1>3 DEF GetItem, WQTypeOK
  <2>3. ExclusiveProcessing'
    <3>1. \A v \in Worker : pc[v] = "work" => held[v] \in processing
      BY <1>0 DEF ExclusiveProcessing
    <3>2. processing' = {held'[v] : v \in {u \in Worker : pc'[u] = "work"}}
      BY <1>0, <2>2 DEF ExclusiveProcessing
    <3>3. ASSUME NEW u \in Worker, NEW v \in Worker,
                 pc'[u] = "work", pc'[v] = "work", held'[u] = held'[v]
          PROVE  u = v
      BY <1>0, <2>0, <2>2, <3>1, <3>3 DEF ExclusiveProcessing
    <3> QED BY <3>2, <3>3 DEF ExclusiveProcessing
  <2> QED BY <1>q, <2>1, <2>3
<1>4. ASSUME NEW w \in Worker, Done(w)
      PROVE  QueueIsDirtyWork' /\ ExclusiveProcessing'
  <2> DEFINE x == held[w]
             back == [pc EXCEPT ![w] = "get"]
  <2>0. x \in processing /\ x \in Item
    BY <1>0, <1>4 DEF Done, ExclusiveProcessing, WQTypeOK
  <2>1. Range(queue') = dirty' \ processing' /\ NoRepeats(queue')
    <3>1. CASE x \in dirty
      <4>1. queue' = Append(queue, x) /\ x \notin Range(queue)
        BY <1>0, <1>4, <2>0, <3>1 DEF Done
      <4>2. Range(queue') = Range(queue) \cup {x} /\ NoRepeats(queue')
        BY <1>0, <2>0, <4>1, AppendFacts DEF WQTypeOK
      <4> QED BY <1>0, <1>4, <2>0, <3>1, <4>2 DEF Done
    <3>2. CASE x \notin dirty
      BY <1>0, <1>4, <2>0, <3>2 DEF Done
    <3> QED BY <3>1, <3>2
  <2>2. /\ processing' = processing \ {x}
        /\ \A v \in Worker : v # w => /\ pc'[v] = "work" <=> pc[v] = "work"
                                      /\ held'[v] = held[v]
        /\ pc'[w] # "work" /\ pc[w] = "work"
    <3>1. back \in [Worker -> PC] /\ back[w] = "get"
          /\ \A v \in Worker : v # w => back[v] = pc[v]
      BY <1>0 DEF WQTypeOK, PC
    <3>2. pc' \in Signal(back) \/ pc' = back
      BY <1>4 DEF Done
    <3>3. \A v \in Worker : pc'[v] = "work" <=> back[v] = "work"
      BY <3>1, <3>2, SignalKeepsHolding
    <3> HIDE DEF back
    <3> QED BY <1>0, <1>4, <3>1, <3>3 DEF Done, WQTypeOK
  <2>3. ExclusiveProcessing'
    <3>1. \A v \in Worker : pc[v] = "work" /\ held[v] = x => v = w
      BY <1>0, <2>2 DEF ExclusiveProcessing
    <3> HIDE DEF x
    <3>2. processing' = {held'[v] : v \in {u \in Worker : pc'[u] = "work"}}
      BY <1>0, <2>2, <3>1 DEF ExclusiveProcessing, x
    <3>3. ASSUME NEW u \in Worker, NEW v \in Worker,
                 pc'[u] = "work", pc'[v] = "work", held'[u] = held'[v]
          PROVE  u = v
      BY <1>0, <2>2, <3>3 DEF ExclusiveProcessing
    <3> QED BY <3>2, <3>3 DEF ExclusiveProcessing
  <2> QED BY <1>q, <2>1, <2>3
<1>5. CASE ShutDown
  <2>1. Range(queue') = dirty' \ processing' /\ NoRepeats(queue')
    BY <1>0, <1>5 DEF ShutDown
  <2>2. \A w \in Worker : pc'[w] = "work" <=> pc[w] = "work"
    BY <1>0, <1>5, SignalKeepsHolding DEF ShutDown, WQTypeOK
  <2>3. ExclusiveProcessing'
    BY <1>0, <1>5, <2>2 DEF ShutDown, ExclusiveProcessing
  <2> QED BY <1>q, <2>1, <2>3
<1>6. CASE UNCHANGED wqVars
  BY <1>0, <1>6, <1>q DEF wqVars, ExclusiveProcessing
<1> QED BY <1>1, <1>2, <1>3, <1>4, <1>5, <1>6 DEF WQNext, Get, Add

\* The empty queue satisfies it.
LEMMA WorkInvInit == WQInit => WorkInv
<1> SUFFICES ASSUME WQInit PROVE QueueIsDirtyWork /\ ExclusiveProcessing
  BY TypeInit DEF WorkInv
<1>1. Range(queue) = {} /\ DOMAIN queue = {}
  BY DEF WQInit, Range
<1> QED BY <1>1 DEF WQInit, QueueIsDirtyWork, ExclusiveProcessing

\* Nothing is lost and nothing is queued twice (queue.go:66-77), and no two
\* workers process the same item, for any keys and any workers.
THEOREM WorkInvariant == WQSafety => [](QueueIsDirtyWork /\ ExclusiveProcessing)
<1>1. WorkInv => QueueIsDirtyWork /\ ExclusiveProcessing
  BY DEF WorkInv
<1> QED BY <1>1, WorkInvInit, WorkInvStep, PTL DEF WQSafety

\* No two workers hold the same item between Get and Done (queue.go:125-127,
\* 148-154), for any keys and any workers.
THEOREM ProcessingIsExclusive == WQSafety => []ExclusiveProcessing
BY WorkInvariant, PTL

-----------------------------------------------------------------------------
(***************************************************************************)
(* Wakeups.  A signal adds one worker to those that are coming for an      *)
(* item, unless nobody sleeps: then there is nobody left to wake.          *)
(***************************************************************************)
Awake(p) == {w \in Worker : p[w] = "get"}

\* Awake workers can be counted.
LEMMA AwakeFinite == \A p : IsFiniteSet(Awake(p)) /\ Cardinality(Awake(p)) \in Nat
<1> TAKE p
<1>1. IsFiniteSet(Awake(p))
  <2>1. Awake(p) \subseteq Worker
    BY DEF Awake
  <2> QED BY <2>1, WorkerAssumption, FS_Subset
<1> QED BY <1>1, FS_CardinalityType

\* Moving one worker to the loop of Get counts it among the awake.
LEMMA WakeOne ==
  ASSUME NEW p \in [Worker -> PC], NEW w \in Worker, p[w] # "get"
  PROVE  LET q == [p EXCEPT ![w] = "get"]
         IN  /\ Cardinality(Awake(q)) = Cardinality(Awake(p)) + 1
             /\ Asleep(q) \subseteq Asleep(p)
             /\ p[w] # "wait" => Asleep(q) = Asleep(p)
<1> DEFINE q == [p EXCEPT ![w] = "get"]
<1>1. Awake(q) = Awake(p) \cup {w} /\ w \notin Awake(p)
  BY DEF Awake
<1>2. Cardinality(Awake(q)) = Cardinality(Awake(p)) + 1
  BY <1>1, AwakeFinite, FS_AddElement
<1> QED BY <1>2 DEF Asleep

\* If somebody still sleeps after a signal, the signal woke somebody else.
LEMMA SignalWakes ==
  ASSUME NEW p \in [Worker -> PC], NEW q \in Signal(p), Asleep(q) # {}
  PROVE  /\ Asleep(p) # {}
         /\ Cardinality(Awake(q)) = Cardinality(Awake(p)) + 1
<1>1. Asleep(p) # {}
  BY DEF Signal
<1>2. PICK w \in Asleep(p) : q = [p EXCEPT ![w] = "get"]
  BY <1>1 DEF Signal
<1> QED BY <1>1, <1>2, WakeOne DEF Asleep

WakeInv == WQTypeOK /\ NoLostWakeup

\* A step never leaves a queued item to a sleeping worker.
LEMMA WakeInvStep == WakeInv /\ [WQNext]_wqVars => WakeInv'
<1> SUFFICES ASSUME WakeInv, [WQNext]_wqVars, Asleep(pc') # {}
             PROVE  ~shuttingDown' /\ Len(queue') <= Cardinality(Awake(pc'))
  BY TypeStep DEF WakeInv, NoLostWakeup, AwakeAtGet, Awake, Asleep
<1>0. /\ WQTypeOK /\ WQTypeOK'
      /\ Len(queue) \in Nat /\ pc \in [Worker -> PC]
      /\ Asleep(pc) # {} => ~shuttingDown /\ Len(queue) <= Cardinality(Awake(pc))
      /\ Cardinality(Awake(pc)) \in Nat /\ Cardinality(Awake(pc')) \in Nat
  <2>1. WQTypeOK /\ WQTypeOK'
    BY TypeStep DEF WakeInv
  <2>2. Len(queue) \in Nat /\ pc \in [Worker -> PC]
    BY <2>1 DEF WQTypeOK
  <2>3. AwakeAtGet = Awake(pc)
    BY DEF AwakeAtGet, Awake
  <2>4. Asleep(pc) # {} => ~shuttingDown /\ Len(queue) <= Cardinality(Awake(pc))
    BY <2>3 DEF WakeInv, NoLostWakeup
  <2>5. Cardinality(Awake(pc)) \in Nat /\ Cardinality(Awake(pc')) \in Nat
    BY AwakeFinite
  <2> QED BY <2>1, <2>2, <2>4, <2>5
<1> DEFINE Goal == ~shuttingDown' /\ Len(queue') <= Cardinality(Awake(pc'))
<1>1. ASSUME NEW x \in Item, AddNew(x) PROVE Goal
  <2>1. CASE x \in processing
    BY <1>0, <1>1, <2>1 DEF AddNew
  <2>2. CASE x \notin processing
    <3>1. pc' \in Signal(pc) /\ Len(queue') = Len(queue) + 1
          /\ shuttingDown' = shuttingDown
      BY <1>0, <1>1, <2>2, AppendFacts DEF AddNew, WQTypeOK
    <3> QED BY <1>0, <3>1, SignalWakes
  <2> QED BY <2>1, <2>2
<1>2. ASSUME NEW w \in Worker, GetWait(w) PROVE Goal
  BY <1>0, <1>2 DEF GetWait, queueVars
<1>3. ASSUME NEW w \in Worker, GetItem(w) PROVE Goal
  <2>1. /\ Len(queue') = Len(queue) - 1
        /\ shuttingDown' = shuttingDown
    BY <1>0, <1>3, TailFacts DEF GetItem, WQTypeOK
  <2>2. /\ Awake(pc') = Awake(pc) \ {w} /\ w \in Awake(pc)
        /\ Asleep(pc') = Asleep(pc)
    BY <1>0, <1>3 DEF GetItem, Awake, Asleep
  <2>3. Cardinality(Awake(pc')) = Cardinality(Awake(pc)) - 1
    BY <2>2, AwakeFinite, FS_RemoveElement
  <2> QED BY <1>0, <2>1, <2>2, <2>3
<1>4. ASSUME NEW w \in Worker, GetShutdown(w) PROVE Goal
  <2>1. Asleep(pc') = Asleep(pc) /\ shuttingDown
    BY <1>0, <1>4 DEF GetShutdown, Asleep
  <2> QED BY <1>0, <2>1
<1>5. ASSUME NEW w \in Worker, Done(w) PROVE Goal
  <2> DEFINE back == [pc EXCEPT ![w] = "get"]
  <2>1. /\ Cardinality(Awake(back)) = Cardinality(Awake(pc)) + 1
        /\ Asleep(back) = Asleep(pc)
        /\ back \in [Worker -> PC]
    BY <1>0, <1>5, WakeOne DEF Done, PC
  <2>2. shuttingDown' = shuttingDown
    BY <1>5 DEF Done
  <2>3. CASE held[w] \in dirty
    <3>1. pc' \in Signal(back) /\ queue' = Append(queue, held[w])
      BY <1>5, <2>3 DEF Done
    <3>2. Len(queue') = Len(queue) + 1
      BY <1>0, <2>3, <3>1, AppendFacts DEF WQTypeOK
    <3>3. /\ Asleep(back) # {}
          /\ Cardinality(Awake(pc')) = Cardinality(Awake(back)) + 1
      BY <2>1, <3>1, SignalWakes
    <3> HIDE DEF back
    <3> QED BY <1>0, <2>1, <2>2, <3>2, <3>3
  <2>4. CASE held[w] \notin dirty
    <3>1. pc' = back /\ queue' = queue
      BY <1>5, <2>4 DEF Done
    <3> HIDE DEF back
    <3> QED BY <1>0, <2>1, <2>2, <3>1
  <2> QED BY <2>3, <2>4
<1>6. CASE ShutDown
  BY <1>0, <1>6, BroadcastFacts DEF ShutDown
<1>7. CASE UNCHANGED wqVars
  BY <1>0, <1>7 DEF wqVars
<1> QED BY <1>1, <1>2, <1>3, <1>4, <1>5, <1>6, <1>7 DEF WQNext, Get, Add, Goal

\* Signal in Add and Done and Broadcast in ShutDown are enough for any number
\* of workers: no queued item waits for a worker that nobody will wake.
THEOREM NoLostWakeups == WQSafety => []NoLostWakeup
<1>1. WQInit => WakeInv
  <2> SUFFICES ASSUME WQInit PROVE Asleep(pc) = {}
    BY TypeInit DEF WakeInv, NoLostWakeup
  <2> QED BY DEF WQInit, Asleep
<1>2. WakeInv => NoLostWakeup
  BY DEF WakeInv
<1> QED BY <1>1, <1>2, WakeInvStep, PTL DEF WQSafety

-----------------------------------------------------------------------------
(***************************************************************************)
(* Exits.                                                                  *)
(***************************************************************************)
ExitInv == WorkInv /\ DrainedOnExit

\* A step never makes the last worker leave work behind.
LEMMA ExitInvStep == ExitInv /\ [WQNext]_wqVars => ExitInv'
<1> SUFFICES ASSUME ExitInv, [WQNext]_wqVars, NEW w \in Worker, pc'[w] = "exit"
             PROVE  /\ shuttingDown'
                    /\ (\A v \in Worker : pc'[v] = "exit")
                         => dirty' = {} /\ processing' = {}
  BY WorkInvStep DEF ExitInv, DrainedOnExit
<1> DEFINE AllGone(p) == \A v \in Worker : p[v] = "exit"
<1>0. /\ WorkInv' /\ WQTypeOK /\ pc \in [Worker -> PC]
      /\ \A v \in Worker : pc[v] = "exit" => shuttingDown
      /\ AllGone(pc) => dirty = {}
  BY WorkInvStep DEF ExitInv, DrainedOnExit, WorkInv, WQTypeOK
<1>1. AllGone(pc') => processing' = {} /\ Range(queue') = dirty'
  BY <1>0 DEF WorkInv, ExclusiveProcessing, QueueIsDirtyWork
<1>2. SUFFICES shuttingDown' /\ (AllGone(pc') => dirty' = {})
  BY <1>1
<1>3. ASSUME NEW x \in Item, AddNew(x), ~shuttingDown
      PROVE  shuttingDown' /\ (AllGone(pc') => dirty' = {})
  <2>1. pc[w] = "exit"
    BY <1>0, <1>3, SignalKeepsHolding DEF AddNew
  <2> QED BY <1>0, <1>3, <2>1
<1>4. ASSUME NEW u \in Worker, GetWait(u) \/ GetItem(u)
      PROVE  shuttingDown' /\ (AllGone(pc') => dirty' = {})
  <2>1. pc'[u] # "exit" /\ pc[w] = "exit" /\ shuttingDown' = shuttingDown
    BY <1>0, <1>4 DEF GetWait, GetItem, queueVars
  <2> QED BY <1>0, <2>1
<1>5. ASSUME NEW u \in Worker, GetShutdown(u)
      PROVE  shuttingDown' /\ (AllGone(pc') => dirty' = {})
  <2>1. shuttingDown' = shuttingDown /\ shuttingDown /\ queue' = <<>>
    BY <1>5 DEF GetShutdown, queueVars
  <2>2. Range(queue') = {}
    BY <2>1 DEF Range
  <2> QED BY <1>1, <2>1, <2>2
<1>6. ASSUME NEW u \in Worker, Done(u)
      PROVE  shuttingDown' /\ (AllGone(pc') => dirty' = {})
  <2> DEFINE back == [pc EXCEPT ![u] = "get"]
  <2>1. back \in [Worker -> PC] /\ back[u] = "get"
        /\ \A v \in Worker : v # u => back[v] = pc[v]
    BY <1>0 DEF PC
  <2>2. pc' = back \/ pc' \in Signal(back)
    BY <1>6 DEF Done
  <2>3. \A v \in Worker : pc'[v] = "exit" <=> back[v] = "exit"
    <3>1. CASE pc' = back
      BY <3>1
    <3>2. CASE pc' \in Signal(back)
      <4> HIDE DEF back
      <4> QED BY <2>1, <3>2, SignalKeepsHolding
    <3> QED BY <2>2, <3>1, <3>2
  <2> HIDE DEF back
  <2>4. pc'[u] # "exit" /\ pc[w] = "exit" /\ shuttingDown' = shuttingDown
    BY <1>6, <2>1, <2>3 DEF Done
  <2> QED BY <1>0, <2>4
<1>7. CASE ShutDown
  <2>1. \A v \in Worker : pc'[v] = "exit" <=> pc[v] = "exit"
    BY <1>0, <1>7, SignalKeepsHolding DEF ShutDown
  <2> QED BY <1>0, <1>7, <2>1 DEF ShutDown
<1>8. CASE UNCHANGED wqVars
  BY <1>0, <1>8 DEF wqVars
<1> QED BY <1>3, <1>4, <1>5, <1>6, <1>7, <1>8 DEF WQNext, Get, Add

\* Workers leave only after ShutDown, and the last one leaves nothing dirty or
\* half processed behind (queue.go:178-180).
THEOREM DrainBeforeExit == WQSafety => []DrainedOnExit
<1>1. WQInit => ExitInv
  <2> SUFFICES ASSUME WQInit PROVE WorkInv /\ DrainedOnExit
    BY DEF ExitInv
  <2>1. WorkInv
    BY WorkInvInit
  <2> QED BY <2>1 DEF WQInit, DrainedOnExit
<1>2. ExitInv => DrainedOnExit
  BY DEF ExitInv
<1> QED BY <1>1, <1>2, ExitInvStep, PTL DEF WQSafety

-----------------------------------------------------------------------------
(***************************************************************************)
(* Refinement.  GetItem starts an item that is pending and not active,     *)
(* because it was queued; Done finishes an active one, because its worker  *)
(* held it; Add either marks the item or changes nothing.                  *)
(***************************************************************************)

\* The queue implements the safety part of WorkSet's promise.
THEOREM RefinesWorkSetSafety == WQSafety => Abstract!Safety
<1>1. WQInit => Abstract!Init
  BY DEF WQInit, Abstract!Init
<1>2. WorkInv /\ [WQNext]_wqVars => [Abstract!Next]_(Abstract!vars)
  <2> SUFFICES ASSUME WorkInv, [WQNext]_wqVars
               PROVE  Abstract!Next \/ UNCHANGED Abstract!vars
    OBVIOUS
  <2>1. ASSUME NEW x \in Item, AddNew(x), ~shuttingDown PROVE Abstract!Mark(x)
    BY <2>1 DEF AddNew, Abstract!Mark
  <2>2. ASSUME NEW w \in Worker, GetWait(w) \/ GetShutdown(w)
        PROVE  UNCHANGED Abstract!vars
    BY <2>2 DEF GetWait, GetShutdown, queueVars, Abstract!vars
  <2>3. ASSUME NEW w \in Worker, GetItem(w)
        PROVE  \E x \in Item : Abstract!Start(x)
    <3>1. Head(queue) \in Item /\ Head(queue) \in dirty \ processing
      BY <2>3, TailFacts DEF GetItem, WorkInv, WQTypeOK, QueueIsDirtyWork
    <3>2. Abstract!Start(Head(queue))
      BY <2>3, <3>1 DEF GetItem, Abstract!Start
    <3> QED BY <3>1, <3>2
  <2>4. ASSUME NEW w \in Worker, Done(w)
        PROVE  \E x \in Item : Abstract!Finish(x)
    <3>1. held[w] \in processing /\ held[w] \in Item
      BY <2>4 DEF Done, WorkInv, WQTypeOK, ExclusiveProcessing
    <3>2. Abstract!Finish(held[w])
      BY <2>4, <3>1 DEF Done, Abstract!Finish
    <3> QED BY <3>1, <3>2
  <2>5. CASE ShutDown
    BY <2>5 DEF ShutDown, Abstract!Close, Abstract!Next
  <2>6. CASE UNCHANGED wqVars
    BY <2>6 DEF wqVars, Abstract!vars
  <2> QED BY <2>1, <2>2, <2>3, <2>4, <2>5, <2>6
          DEF WQNext, Get, Add, Abstract!Next
<1> QED BY <1>1, <1>2, WorkInvInit, WorkInvStep, PTL
        DEF WQSafety, Abstract!Safety

-----------------------------------------------------------------------------
(***************************************************************************)
(* The delaying and rate limiting queue.                                   *)
(***************************************************************************)
RLInv == RLTypeOK /\ WorkInv

\* A worker between Get and Done holds an item.
LEMMA HeldItem ==
  ASSUME WorkInv, NEW w \in Worker, pc[w] = "work"
  PROVE  held[w] \in Item
BY DEF WorkInv, WQTypeOK, ExclusiveProcessing

\* The entries in the channel and the due entries are about items.
LEMMA EntryItem ==
  ASSUME RLTypeOK
  PROVE  /\ ready \subseteq Item
         /\ channel # <<>> => /\ Head(channel) \in WaitFor
                              /\ Head(channel).data \in Item
                              /\ Tail(channel) \in Seq(WaitFor)
                              /\ Len(Tail(channel)) = Len(channel) - 1
<1>1. ready \subseteq Item
  BY DEF RLTypeOK, DelayTypeOK
<1>2. ASSUME channel # <<>>
      PROVE  /\ Head(channel) \in WaitFor
             /\ Tail(channel) \in Seq(WaitFor)
             /\ Len(Tail(channel)) = Len(channel) - 1
  BY <1>2, TailFacts DEF RLTypeOK, DelayTypeOK
<1>3. \A e \in WaitFor : e.data \in Item
  BY DEF WaitFor
<1> QED BY <1>1, <1>2, <1>3

\* What AddAfter does to the inner queue is an Add or nothing.
LEMMA AddAfterIsAdd ==
  ASSUME NEW c, NEW x \in Item, NEW d, AddAfter(c, x, d)
  PROVE  [WQNext]_wqVars
<1>1. Add(x) \/ UNCHANGED wqVars
  BY DEF AddAfter
<1> QED BY <1>1 DEF WQNext

\* Every step of the wrapped queue is a step of the inner queue or none.
LEMMA StepRefines == RLInv /\ [RLNext]_rlVars => [WQNext]_wqVars
<1> SUFFICES ASSUME RLInv, [RLNext]_rlVars PROVE [WQNext]_wqVars
  OBVIOUS
<1>0. RLTypeOK /\ WorkInv
  BY DEF RLInv
<1>1. ASSUME NEW x \in Item, OutsideAdd(x) PROVE [WQNext]_wqVars
  BY <1>1 DEF OutsideAdd, WQNext
<1>2. ASSUME NEW c \in Adder, OutsideAddAfter(c) PROVE [WQNext]_wqVars
  BY <1>2, AddAfterIsAdd DEF OutsideAddAfter
<1>3. ASSUME NEW c \in Caller, Send(c) PROVE [WQNext]_wqVars
  BY <1>3 DEF Send
<1>4. ASSUME NEW w \in Worker, WorkerGet(w) PROVE [WQNext]_wqVars
  BY <1>4 DEF WorkerGet, WQNext
<1>5. ASSUME NEW w \in Worker, SyncOk(w) \/ Finish(w) PROVE [WQNext]_wqVars
  BY <1>5 DEF SyncOk, Finish, WQNext
<1>6. ASSUME NEW w \in Worker, SyncErr(w) PROVE [WQNext]_wqVars
  <2>1. held[w] \in Item
    BY <1>0, <1>6, HeldItem DEF SyncErr, Working
  <2> QED BY <1>6, <2>1, AddAfterIsAdd DEF SyncErr, AddRateLimited
<1>7. CASE LoopStep
  <2>1. CASE AddReady
    <3>1. PICK x \in ready : Add(x)
      BY <2>1 DEF AddReady
    <3> QED BY <1>0, <3>1, EntryItem DEF WQNext
  <2>2. CASE Receive
    <3>1. channel # <<>> /\ (UNCHANGED wqVars \/ Add(Head(channel).data))
      BY <2>2 DEF Receive
    <3>2. Head(channel).data \in Item
      BY <1>0, <3>1, EntryItem
    <3> QED BY <3>1, <3>2 DEF WQNext
  <2>3. CASE LoopTop \/ StartTimer \/ SelectStop \/ SelectTimer \/ Drained
    BY <2>3 DEF LoopTop, StartTimer, SelectStop, SelectTimer, Drained
  <2> QED BY <1>7, <2>1, <2>2, <2>3 DEF LoopStep
<1>8. CASE SelectHeartbeat \/ CloseStop \/ Tick
  BY <1>8 DEF SelectHeartbeat, CloseStop, Tick
<1>9. CASE BeginShutDown
  BY <1>9 DEF BeginShutDown, WQNext
<1>10. CASE UNCHANGED rlVars
  BY <1>10 DEF rlVars
<1> QED BY <1>1, <1>2, <1>3, <1>4, <1>5, <1>6, <1>7, <1>8, <1>9, <1>10 DEF RLNext

-----------------------------------------------------------------------------
(***************************************************************************)
(* The part of the state the wrapping adds stays well typed.               *)
(***************************************************************************)
LEMMA DelayTypeInit == RLInit => DelayTypeOK
<1> SUFFICES ASSUME RLInit PROVE DelayTypeOK
  OBVIOUS
<1>1. /\ failures \in [Item -> 0 .. MaxFailures]
      /\ channel \in Seq(WaitFor) /\ Len(channel) <= ChanCap
      /\ timer \in Delay \cup {Never}
  BY DelayAssumption DEF RLInit, Never, Delay
<1>2. /\ DOMAIN waiting = {} /\ ready = {}
      /\ sending \in [Caller -> WaitFor \cup {NoSend}]
      /\ step \in [Worker -> {"sync", "finish"}]
      /\ loop = "top"
  BY DEF RLInit
<1>3. stopped \in BOOLEAN
  BY Zenon DEF RLInit
<1> QED BY <1>1, <1>2, <1>3 DEF DelayTypeOK

\* AddAfter leaves a well-typed offer.
LEMMA AddAfterType ==
  ASSUME DelayTypeOK, NEW c \in Caller, NEW x \in Item, NEW d \in Delay,
         AddAfter(c, x, d)
  PROVE  sending' \in [Caller -> WaitFor \cup {NoSend}]
<1>1. [data |-> x, left |-> d] \in WaitFor
  BY DEF WaitFor
<1>2. sending' = sending \/ sending' = [sending EXCEPT ![c] = [data |-> x, left |-> d]]
  BY DEF AddAfter
<1> QED BY <1>1, <1>2 DEF DelayTypeOK

\* Counting a failure, or forgetting all of them, stays within the bound.
LEMMA FailureBound ==
  ASSUME NEW n \in 0 .. MaxFailures
  PROVE  0 \in 0 .. MaxFailures /\ Lesser(n + 1, MaxFailures) \in 0 .. MaxFailures
BY DelayAssumption DEF Lesser

\* A tick keeps a delay a delay.
LEMMA PassedDelay == ASSUME NEW n \in Delay PROVE Passed(n) \in Delay
BY DelayAssumption DEF Passed, Delay

LEMMA DelayTypeStep == RLInv /\ [RLNext]_rlVars => DelayTypeOK'
<1> SUFFICES ASSUME RLInv, [RLNext]_rlVars PROVE DelayTypeOK'
  OBVIOUS
<1>0. RLTypeOK /\ WorkInv /\ DelayTypeOK
  BY DEF RLInv, RLTypeOK
<1>1. CASE UNCHANGED delayVars
  BY <1>0, <1>1 DEF DelayTypeOK, delayVars
<1>2. ASSUME NEW c \in Adder, OutsideAddAfter(c) PROVE DelayTypeOK'
  <2>1. sending' \in [Caller -> WaitFor \cup {NoSend}]
    BY <1>0, <1>2, AddAfterType DEF OutsideAddAfter, Caller
  <2> QED BY <1>0, <1>2, <2>1 DEF OutsideAddAfter, DelayTypeOK, loopVars
<1>3. ASSUME NEW c \in Caller, Send(c) PROVE DelayTypeOK'
  <2>1. sending[c] \in WaitFor /\ sending' \in [Caller -> WaitFor \cup {NoSend}]
    BY <1>0, <1>3 DEF Send, DelayTypeOK
  <2>2. channel' \in Seq(WaitFor) /\ Len(channel') <= ChanCap
    <3>1. CASE Len(channel) < ChanCap /\ channel' = Append(channel, sending[c])
      BY <1>0, <2>1, <3>1, DelayAssumption, AppendFacts DEF DelayTypeOK
    <3>2. CASE channel' = channel
      BY <1>0, <3>2 DEF DelayTypeOK
    <3> QED BY <1>3, <3>1, <3>2 DEF Send
  <2> QED BY <1>0, <1>3, <2>1, <2>2 DEF Send, DelayTypeOK, loopVars
<1>4. ASSUME NEW w \in Worker, SyncOk(w) PROVE DelayTypeOK'
  <2>1. failures' \in [Item -> 0 .. MaxFailures]
    <3>1. 0 \in 0 .. MaxFailures
      BY DelayAssumption
    <3>2. failures \in [Item -> 0 .. MaxFailures]
      BY <1>0 DEF DelayTypeOK
    <3> QED BY <1>4, <3>1, <3>2 DEF SyncOk, Forget
  <2> QED BY <1>0, <1>4, <2>1 DEF SyncOk, DelayTypeOK, loopVars
<1>5. ASSUME NEW w \in Worker, SyncErr(w) PROVE DelayTypeOK'
  <2>1. held[w] \in Item
    BY <1>0, <1>5, HeldItem DEF SyncErr, Working
  <2>2. failures' \in [Item -> 0 .. MaxFailures]
    BY <1>0, <1>5, <2>1, FailureBound DEF SyncErr, AddRateLimited, DelayTypeOK
  <2>3. sending' \in [Caller -> WaitFor \cup {NoSend}]
    <3>1. PICK d \in When(held[w]) : AddAfter(w, held[w], d)
      BY <1>5 DEF SyncErr, AddRateLimited
    <3>2. d \in Delay
      BY DEF When
    <3> QED BY <1>0, <2>1, <3>1, <3>2, AddAfterType DEF Caller
  <2>4. step' \in [Worker -> {"sync", "finish"}]
    BY <1>0, <1>5 DEF SyncErr, DelayTypeOK
  <2> QED BY <1>0, <1>5, <2>2, <2>3, <2>4 DEF SyncErr, DelayTypeOK, loopVars
<1>6. ASSUME NEW w \in Worker, Finish(w) PROVE DelayTypeOK'
  BY <1>0, <1>6 DEF Finish, DelayTypeOK, loopVars
<1>7. CASE LoopTop
  <2>1. ready' \subseteq DOMAIN waiting /\ timer' \in Delay \cup {Never}
    BY <1>0, <1>7 DEF LoopTop, DelayTypeOK, Earliest
  <2> QED BY <1>0, <1>7, <2>1 DEF LoopTop, DelayTypeOK
<1>8. CASE AddReady
  BY <1>0, <1>8 DEF AddReady, DelayTypeOK, Restrict
<1>9. CASE StartTimer \/ SelectStop \/ SelectTimer \/ SelectHeartbeat \/ Drained
  BY <1>0, <1>9 DEF StartTimer, SelectStop, SelectTimer, SelectHeartbeat, Drained,
                    DelayTypeOK
<1>10. CASE Receive
  <2> DEFINE e == Head(channel)
  <2>1. /\ e \in WaitFor /\ e.data \in Item /\ e.left \in Delay
        /\ channel' \in Seq(WaitFor) /\ Len(channel') <= ChanCap
    <3>1. channel # <<>> /\ channel' = Tail(channel)
      BY <1>10 DEF Receive
    <3>2. e \in WaitFor /\ channel' \in Seq(WaitFor) /\ Len(channel') = Len(channel) - 1
      BY <1>0, <3>1, EntryItem
    <3> QED BY <1>0, <3>2, DelayAssumption DEF WaitFor, DelayTypeOK
  <2>2. /\ DOMAIN waiting' \subseteq Item
        /\ \A x \in DOMAIN waiting' : waiting'[x] \in Delay
        /\ ready \subseteq DOMAIN waiting'
    <3>1. CASE Insert(e)
      <4> HIDE DEF e
      <4> QED BY <1>0, <2>1, <3>1 DEF Insert, DelayTypeOK, Lesser
    <3>2. CASE waiting' = waiting
      BY <1>0, <3>2 DEF DelayTypeOK
    <3> QED BY <1>10, <3>1, <3>2 DEF Receive
  <2> QED BY <1>0, <1>10, <2>1, <2>2 DEF Receive, DelayTypeOK
<1>11. CASE CloseStop
  <2>1. stopped' \in BOOLEAN
    BY <1>11, Zenon DEF CloseStop
  <2> QED BY <1>0, <1>11, <2>1 DEF CloseStop, DelayTypeOK, loopVars
<1>12. CASE Tick
  <2>1. \A e \in WaitFor \cup {NoSend} :
          /\ [e EXCEPT !.left = Passed(@)] \in WaitFor \cup {NoSend}
          /\ e \in WaitFor => [e EXCEPT !.left = Passed(@)] \in WaitFor
    BY PassedDelay DEF WaitFor, NoSend, Passed
  <2>2. sending' \in [Caller -> WaitFor \cup {NoSend}]
    BY <1>0, <1>12, <2>1 DEF Tick, DelayTypeOK
  <2>3. channel' \in Seq(WaitFor) /\ Len(channel') = Len(channel)
    <3>1. DOMAIN channel = 1 .. Len(channel) /\ Len(channel) \in Nat
      BY <1>0 DEF DelayTypeOK
    <3>2. \A i \in 1 .. Len(channel) : channel[i] \in WaitFor
      BY <1>0 DEF DelayTypeOK
    <3>3. channel' = [i \in 1 .. Len(channel) |->
                        [channel[i] EXCEPT !.left = Passed(@)]]
      BY <1>12, <3>1 DEF Tick
    <3>4. channel' \in [1 .. Len(channel) -> WaitFor]
      BY <2>1, <3>2, <3>3
    <3> QED BY <3>1, <3>4
  <2>4. /\ DOMAIN waiting' = DOMAIN waiting
        /\ \A x \in DOMAIN waiting' : waiting'[x] \in Delay
    BY <1>0, <1>12, PassedDelay DEF Tick, DelayTypeOK
  <2>5. timer' \in Delay \cup {Never}
    BY <1>0, <1>12, PassedDelay DEF Tick, DelayTypeOK
  <2> QED BY <1>0, <1>12, <2>2, <2>3, <2>4, <2>5 DEF Tick, DelayTypeOK
<1>13. CASE UNCHANGED rlVars
  BY <1>1, <1>13 DEF rlVars
<1> QED BY <1>1, <1>2, <1>3, <1>4, <1>5, <1>6, <1>7, <1>8, <1>9, <1>10, <1>11,
           <1>12, <1>13
        DEF RLNext, LoopStep, OutsideAdd, WorkerGet, BeginShutDown

LEMMA RLInvariant == RLSafety => []RLInv
<1>1. RLInit => RLInv
  <2> SUFFICES ASSUME RLInit PROVE RLInv
    OBVIOUS
  <2>1. WQInit
    BY DEF RLInit
  <2> QED BY <2>1, DelayTypeInit, TypeInit, WorkInvInit DEF RLInv, RLTypeOK
<1>2. RLInv /\ [RLNext]_rlVars => RLInv'
  <2> SUFFICES ASSUME RLInv, [RLNext]_rlVars PROVE RLInv'
    OBVIOUS
  <2>1. WorkInv'
    BY StepRefines, WorkInvStep DEF RLInv
  <2> QED BY <2>1, DelayTypeStep DEF RLInv, RLTypeOK, WorkInv
<1> QED BY <1>1, <1>2, PTL DEF RLSafety

\* The wrapped queue, with its rate limiter, waiting loop and callers, does
\* to the inner queue only what WorkQueue allows.
THEOREM ImplementsWorkQueue == RLSafety => WQSafety /\ []RLTypeOK
<1>1. RLInit => WQInit
  BY DEF RLInit
<1>2. RLInv => RLTypeOK
  BY DEF RLInv
<1> QED BY <1>1, <1>2, RLInvariant, StepRefines, PTL
        DEF RLSafety, WQSafety

\* A state of the wrapped queue is well formed: waitingForAddCh never holds
\* more than its capacity, and a due entry is still in the heap.
THEOREM DelayTypeCorrect == RLSafety => []RLTypeOK
BY ImplementsWorkQueue, PTL

\* So nothing added or delayed is lost in the inner queue, no two workers run
\* the same key and no wakeup is lost, retries and delays included.
THEOREM RateLimitingSafe ==
  RLSafety => [](QueueIsDirtyWork /\ ExclusiveProcessing /\ NoLostWakeup)
BY ImplementsWorkQueue, WorkInvariant, NoLostWakeups, PTL

-----------------------------------------------------------------------------
(***************************************************************************)
(* Delays.  The entries the loop has found due stay due until they are     *)
(* added: insert keeps the earlier time, and time only passes.             *)
(***************************************************************************)
ReadyIsDue == \A x \in ready : waiting[x] = 0

DelayInv == RLInv /\ ReadyIsDue

LEMMA ReadyStep == DelayInv /\ [RLNext]_rlVars => ReadyIsDue'
<1> SUFFICES ASSUME DelayInv, [RLNext]_rlVars PROVE ReadyIsDue'
  OBVIOUS
<1>0. RLTypeOK /\ DelayTypeOK /\ ReadyIsDue
  BY DEF DelayInv, RLInv, RLTypeOK
<1>1. CASE UNCHANGED <<waiting, ready>>
  BY <1>0, <1>1 DEF ReadyIsDue
<1>2. CASE LoopTop
  BY <1>0, <1>2 DEF LoopTop, ReadyIsDue
<1>3. CASE AddReady
  BY <1>0, <1>3 DEF AddReady, ReadyIsDue, Restrict, DelayTypeOK
<1>4. CASE Receive
  <2> DEFINE e == Head(channel)
  <2>1. e \in WaitFor /\ e.left \in Delay
    BY <1>0, <1>4, EntryItem DEF Receive, WaitFor
  <2>2. CASE Insert(e)
    <3> HIDE DEF e
    <3>1. \A x \in ready : x \in DOMAIN waiting /\ waiting[x] = 0
      BY <1>0 DEF ReadyIsDue, DelayTypeOK
    <3>2. Lesser(0, e.left) = 0
      BY <2>1, DelayAssumption DEF Lesser, Delay
    <3> QED BY <1>4, <2>2, <3>1, <3>2 DEF Receive, Insert, ReadyIsDue
  <2>3. CASE waiting' = waiting
    BY <1>0, <1>4, <2>3 DEF Receive, ReadyIsDue
  <2> QED BY <1>4, <2>2, <2>3 DEF Receive
<1>5. CASE Tick
  BY <1>0, <1>5 DEF Tick, ReadyIsDue, Passed, DelayTypeOK
<1> QED BY <1>1, <1>2, <1>3, <1>4, <1>5
        DEF RLNext, LoopStep, OutsideAdd, OutsideAddAfter, Send, WorkerGet, SyncOk,
            SyncErr, Finish, StartTimer, SelectStop, SelectTimer, SelectHeartbeat,
            Drained, BeginShutDown, CloseStop, rlVars, delayVars, loopVars

LEMMA DelayInvariant == RLSafety => []DelayInv
<1>1. RLInit => ReadyIsDue
  BY DEF RLInit, ReadyIsDue
<1> QED BY <1>1, ReadyStep, RLInvariant, PTL DEF DelayInv, RLSafety

\* The waiting loop adds an item only when a request for it is due.
LEMMA EarlyStep ==
  DelayInv =>
    [\A x \in Item : LoopStep /\ x \in dirty' \ dirty => 0 \in Requests(x)]_rlVars
<1> SUFFICES ASSUME DelayInv, NEW x \in Item, LoopStep, x \in dirty' \ dirty
             PROVE  0 \in Requests(x)
  OBVIOUS
<1>0. RLTypeOK /\ DelayTypeOK /\ ReadyIsDue
  BY DEF DelayInv, RLInv, RLTypeOK
<1>1. \A y : Add(y) => dirty' \subseteq dirty \cup {y}
  BY DEF Add, AddNew, wqVars, queueVars
<1>2. CASE AddReady
  <2>1. x \in ready
    BY <1>1, <1>2 DEF AddReady
  <2>2. x \in DOMAIN waiting \cap {x} /\ waiting[x] = 0
    BY <1>0, <2>1 DEF ReadyIsDue, DelayTypeOK
  <2> QED BY <2>2 DEF Requests
<1>3. CASE Receive
  <2>1. channel # <<>> /\ channel \in Seq(WaitFor)
    BY <1>0, <1>3 DEF Receive, DelayTypeOK
  <2>2. 1 \in DOMAIN channel /\ Head(channel) = channel[1] /\ channel[1] \in WaitFor
    BY <2>1
  <2>3. channel[1].left \in Delay
    BY <2>2 DEF WaitFor
  <2>4. ~(channel[1].left > 0) /\ channel[1].data = x
    BY <1>1, <1>3, <2>2 DEF Receive, wqVars, queueVars
  <2>5. channel[1].left = 0
    BY <2>3, <2>4, DelayAssumption DEF Delay
  <2> QED BY <2>2, <2>4, <2>5 DEF Requests
<1>4. CASE LoopTop \/ StartTimer \/ SelectStop \/ SelectTimer \/ Drained
  BY <1>4 DEF LoopTop, StartTimer, SelectStop, SelectTimer, Drained, wqVars, queueVars
<1> QED BY <1>2, <1>3, <1>4 DEF LoopStep

\* No delay is cut short by the waiting loop (delaying_queue.go, AddAfter: the
\* item is added "after the indicated duration has passed").
THEOREM DelaysAreKept == RLSafety => NeverEarly
BY DelayInvariant, EarlyStep, PTL DEF NeverEarly

-----------------------------------------------------------------------------
(***************************************************************************)
(* A request is an entry of the channel or of the heap.  Each step keeps   *)
(* it, or an earlier one for the same item, or makes the item dirty.       *)
(***************************************************************************)
Kept(x) == \A r \in Requests(x) : \E s \in Requests(x)' : s <= r

LEMMA RequestCases ==
  ASSUME NEW x, NEW r
  PROVE  r \in Requests(x) <=>
           \/ \E i \in DOMAIN channel : channel[i].data = x /\ r = channel[i].left
           \/ x \in DOMAIN waiting /\ r = waiting[x]
BY DEF Requests

LEMMA RequestsAreDelays ==
  ASSUME DelayTypeOK, NEW x, NEW r \in Requests(x)
  PROVE  r \in Nat
<1>1. \A i \in DOMAIN channel : channel[i].left \in Nat
  <2>1. channel \in Seq(WaitFor)
    BY DEF DelayTypeOK
  <2>2. \A i \in DOMAIN channel : channel[i] \in WaitFor
    BY <2>1
  <2> QED BY <2>2, DelayAssumption DEF WaitFor, Delay
<1>2. \A y \in DOMAIN waiting : waiting[y] \in Nat
  BY DelayAssumption DEF DelayTypeOK, Delay
<1> QED BY <1>1, <1>2, RequestCases

LEMMA KeptStep ==
  ASSUME DelayInv, RLNext, NEW x \in Item, ~shuttingDown
  PROVE  x \in dirty' \/ Kept(x)
<1>0. RLTypeOK /\ DelayTypeOK
  BY DEF DelayInv, RLInv, RLTypeOK
<1>1. \A y : Add(y) => y \in dirty'
  BY DEF Add, AddNew, wqVars, queueVars
<1>2. SUFFICES ASSUME x \notin dirty', NEW r \in Requests(x)
               PROVE  \E s \in Requests(x)' : s <= r
  BY DEF Kept
<1>3. r \in Nat
  BY <1>0, RequestsAreDelays
<1>4. CASE UNCHANGED <<channel, waiting>>
  <2>1. Requests(x)' = Requests(x)
    BY <1>4 DEF Requests
  <2> QED BY <1>3, <2>1
<1>5. ASSUME NEW c \in Caller, Send(c) PROVE \E s \in Requests(x)' : s <= r
  <2>1. channel \in Seq(WaitFor) /\ waiting' = waiting
    BY <1>0, <1>5 DEF Send, DelayTypeOK, loopVars
  <2>2. \A i \in DOMAIN channel : i \in DOMAIN channel' /\ channel'[i] = channel[i]
    BY <1>5, <2>1 DEF Send
  <2>3. r \in Requests(x)'
    BY <2>1, <2>2, RequestCases DEF Requests
  <2> QED BY <1>3, <2>3
<1>6. CASE AddReady
  <2>1. PICK y \in ready : Add(y) /\ waiting' = Restrict(waiting, DOMAIN waiting \ {y})
    BY <1>6 DEF AddReady
  <2>2. x # y /\ channel' = channel
    BY <1>1, <1>2, <1>6, <2>1 DEF AddReady
  <2>3. x \in DOMAIN waiting => x \in DOMAIN waiting' /\ waiting'[x] = waiting[x]
    BY <2>1, <2>2 DEF Restrict
  <2>4. r \in Requests(x)'
    BY <2>2, <2>3, RequestCases DEF Requests
  <2> QED BY <1>3, <2>4
<1>7. CASE Receive
  <2>1. channel # <<>> /\ channel \in Seq(WaitFor) /\ channel' = Tail(channel)
    BY <1>0, <1>7 DEF Receive, DelayTypeOK
  <2>2. /\ Head(channel) = channel[1] /\ channel[1] \in WaitFor
        /\ \A i \in DOMAIN channel \ {1} : i - 1 \in DOMAIN channel'
                                         /\ channel'[i - 1] = channel[i]
    BY <2>1
  <2>3. \/ channel[1].left > 0 /\ Insert(channel[1])
        \/ channel[1].data # x /\ waiting' = waiting
    BY <1>1, <1>2, <1>7, <2>2 DEF Receive
  <2>4. channel[1].left \in Nat
    BY <2>2, DelayAssumption DEF WaitFor, Delay
  <2>5. ASSUME x \in DOMAIN waiting, r = waiting[x]
        PROVE  \E s \in Requests(x)' : s <= r
    <3>1. x \in DOMAIN waiting' /\ waiting'[x] <= r
      BY <1>3, <2>3, <2>4, <2>5 DEF Insert, Lesser
    <3> QED BY <3>1 DEF Requests
  <2>6. ASSUME NEW i \in DOMAIN channel, channel[i].data = x, r = channel[i].left
        PROVE  \E s \in Requests(x)' : s <= r
    <3>1. CASE i = 1
      <4>1. Insert(channel[1])
        BY <2>3, <2>6, <3>1
      <4>2. x \in DOMAIN waiting => waiting[x] \in Nat
        BY <1>0, DelayAssumption DEF DelayTypeOK, Delay
      <4>3. x \in DOMAIN waiting' /\ waiting'[x] <= r
        BY <1>3, <2>6, <3>1, <4>1, <4>2 DEF Insert, Lesser
      <4> QED BY <4>3 DEF Requests
    <3>2. CASE i # 1
      <4>1. i - 1 \in DOMAIN channel' /\ channel'[i - 1] = channel[i]
        BY <2>2, <3>2
      <4>2. r \in Requests(x)'
        BY <2>6, <4>1 DEF Requests
      <4> QED BY <1>3, <4>2
    <3> QED BY <3>1, <3>2
  <2> QED BY <2>5, <2>6, RequestCases
<1>8. CASE Tick
  <2>1. \A n \in Nat : Passed(n) <= n
    BY DEF Passed
  <2>2. /\ channel' = [i \in DOMAIN channel |-> [channel[i] EXCEPT !.left = Passed(@)]]
        /\ waiting' = [y \in DOMAIN waiting |-> Passed(waiting[y])]
    BY <1>8 DEF Tick
  <2>3. \A i \in DOMAIN channel : channel[i] \in WaitFor
    <3>1. channel \in Seq(WaitFor)
      BY <1>0 DEF DelayTypeOK
    <3> QED BY <3>1
  <2>4. \A e \in WaitFor : /\ [e EXCEPT !.left = Passed(@)].data = e.data
                           /\ [e EXCEPT !.left = Passed(@)].left = Passed(e.left)
    BY DEF WaitFor
  <2>5. Passed(r) \in Requests(x)'
    <3>1. CASE x \in DOMAIN waiting /\ r = waiting[x]
      <4>1. x \in DOMAIN waiting' /\ waiting'[x] = Passed(r)
        BY <2>2, <3>1
      <4> QED BY <4>1 DEF Requests
    <3>2. ASSUME NEW i \in DOMAIN channel, channel[i].data = x, r = channel[i].left
          PROVE  Passed(r) \in Requests(x)'
      <4>1. i \in DOMAIN channel' /\ channel'[i] = [channel[i] EXCEPT !.left = Passed(@)]
        BY <2>2
      <4>2. channel'[i].data = x /\ channel'[i].left = Passed(r)
        BY <2>3, <2>4, <3>2, <4>1
      <4> QED BY <4>1, <4>2 DEF Requests
    <3> QED BY <3>1, <3>2, RequestCases
  <2> QED BY <1>3, <2>1, <2>5
<1> QED BY <1>4, <1>5, <1>6, <1>7, <1>8
        DEF RLNext, LoopStep, LoopTop, OutsideAdd, OutsideAddAfter, WorkerGet, SyncOk,
            SyncErr, Finish, StartTimer, SelectStop, SelectTimer, SelectHeartbeat,
            Drained, BeginShutDown, CloseStop, delayVars, loopVars

\* A delayed request that was handed over is not dropped, and not postponed by a
\* later request for the same item (insert in delaying_queue.go).
THEOREM RequestsAreKept == RLSafety => NeverPostponed
<1>1. DelayInv /\ [RLNext]_rlVars =>
        [\A x \in Item :
           Requests(x) # {} /\ ~shuttingDown =>
             \/ x \in dirty'
             \/ \A r \in Requests(x) : \E s \in Requests(x)' : s <= r]_rlVars
  BY KeptStep DEF Kept
<1> QED BY <1>1, DelayInvariant, PTL DEF RLSafety, NeverPostponed

-----------------------------------------------------------------------------
(***************************************************************************)
(* Retries.  Until a worker calls Done on an item that failed, nobody else *)
(* is handed the item, so what makes it dirty stays.                       *)
(***************************************************************************)
LEMMA StaysAtWork ==
  ASSUME WorkInv, NEW w \in Worker, pc[w] = "work",
         \/ \E x \in Item : Add(x)
         \/ \E v \in Worker : Get(v)
         \/ \E v \in Worker \ {w} : Done(v)
         \/ ShutDown
         \/ UNCHANGED wqVars
  PROVE  /\ pc'[w] = "work" /\ held'[w] = held[w]
         /\ held[w] \in dirty => held[w] \in dirty'
         /\ ~shuttingDown' => ~shuttingDown
<1>0. WQTypeOK /\ pc \in [Worker -> PC] /\ held \in [Worker -> Item \cup {NoItem}]
  BY DEF WorkInv, WQTypeOK
<1>1. ASSUME NEW x \in Item, Add(x)
      PROVE  pc'[w] = "work" /\ held' = held /\ dirty \subseteq dirty' /\ shuttingDown' = shuttingDown
  <2>1. CASE UNCHANGED wqVars
    BY <2>1 DEF wqVars
  <2>2. CASE AddNew(x)
    <3>1. pc' = pc \/ pc' \in Signal(pc)
      BY <2>2 DEF AddNew
    <3>2. pc'[w] = "work"
      BY <1>0, <3>1, SignalKeepsHolding
    <3> QED BY <2>2, <3>2 DEF AddNew
  <2> QED BY <1>1, <2>1, <2>2 DEF Add
<1>2. ASSUME NEW v \in Worker, GetItem(v)
      PROVE  /\ pc'[w] = "work" /\ held'[w] = held[w]
             /\ held[w] \in dirty => held[w] \in dirty'
             /\ shuttingDown' = shuttingDown
  <2>1. v # w
    BY <1>2 DEF GetItem
  <2>2. held[w] # Head(queue)
    <3>1. queue # <<>> /\ queue \in Seq(Item)
      BY <1>2 DEF GetItem, WorkInv, WQTypeOK
    <3>2. Head(queue) \in Range(queue)
      BY <3>1, TailFacts
    <3>3. Head(queue) \notin processing
      BY <3>2 DEF WorkInv, QueueIsDirtyWork
    <3>4. held[w] \in processing
      BY DEF WorkInv, ExclusiveProcessing
    <3> QED BY <3>3, <3>4
  <2> QED BY <1>0, <1>2, <2>1, <2>2 DEF GetItem
<1>3. ASSUME NEW v \in Worker, GetWait(v) \/ GetShutdown(v)
      PROVE  /\ pc'[w] = "work" /\ held' = held /\ dirty' = dirty
             /\ shuttingDown' = shuttingDown
  BY <1>0, <1>3 DEF GetWait, GetShutdown, queueVars
<1>4. ASSUME NEW v \in Worker \ {w}, Done(v)
      PROVE  /\ pc'[w] = "work" /\ held'[w] = held[w] /\ dirty' = dirty
             /\ shuttingDown' = shuttingDown
  <2>1. PICK b : b = [pc EXCEPT ![v] = "get"]
    OBVIOUS
  <2>2. b \in [Worker -> PC] /\ b[w] = "work"
    BY <1>0, <2>1 DEF PC
  <2>3. pc' = b \/ pc' \in Signal(b)
    BY <1>4, <2>1 DEF Done
  <2>4. pc'[w] = "work"
    BY <2>2, <2>3, SignalKeepsHolding
  <2> QED BY <1>0, <1>4, <2>4 DEF Done
<1>5. CASE ShutDown
  <2>1. pc'[w] = "work"
    BY <1>0, <1>5, SignalKeepsHolding DEF ShutDown
  <2> QED BY <1>5, <2>1 DEF ShutDown
<1>6. CASE UNCHANGED wqVars
  BY <1>6 DEF wqVars
<1> QED BY <1>1, <1>2, <1>3, <1>4, <1>5, <1>6 DEF Get

RetryInv == /\ DelayInv /\ NoRetryLost
            /\ stopped => shuttingDown
            /\ \A w \in Worker : step[w] = "finish" => pc[w] = "work"

\* What a step does to a worker that has still to call Done.
LEMMA FinishStays ==
  ASSUME RetryInv, RLNext, NEW w \in Worker, step[w] = "finish"
  PROVE  \/ step'[w] = "sync"
         \/ /\ pc'[w] = "work" /\ held'[w] = held[w] /\ step'[w] = "finish"
            /\ held[w] \in dirty => held[w] \in dirty'
            /\ ~shuttingDown' => ~shuttingDown
<1>0. /\ WorkInv /\ DelayTypeOK /\ RLTypeOK /\ pc[w] = "work"
      /\ step \in [Worker -> {"sync", "finish"}]
  BY DEF RetryInv, DelayInv, RLInv, RLTypeOK, DelayTypeOK
<1>1. CASE Finish(w)
  BY <1>0, <1>1 DEF Finish
<1>2. CASE ~Finish(w)
  <2>1. step'[w] = "finish"
    BY <1>0, <1>2
       DEF RLNext, LoopStep, LoopTop, AddReady, Receive, OutsideAdd, OutsideAddAfter, Send,
           WorkerGet, SyncOk, SyncErr, Finish, StartTimer, SelectStop, SelectTimer,
           SelectHeartbeat, Drained, BeginShutDown, CloseStop, Tick, delayVars, loopVars,
           Working
  <2>2. \/ \E x \in Item : Add(x)
        \/ \E v \in Worker : Get(v)
        \/ \E v \in Worker \ {w} : Done(v)
        \/ ShutDown
        \/ UNCHANGED wqVars
    <3>1. ASSUME NEW c, NEW x \in Item, NEW d, AddAfter(c, x, d)
          PROVE  Add(x) \/ UNCHANGED wqVars
      BY <3>1 DEF AddAfter
    <3>2. CASE \E c \in Adder : OutsideAddAfter(c)
      BY <3>1, <3>2 DEF OutsideAddAfter
    <3>3. ASSUME NEW v \in Worker, WorkerGet(v) \/ SyncOk(v) \/ SyncErr(v) \/ Finish(v)
          PROVE  \/ \E x \in Item : Add(x)
                 \/ \E u \in Worker : Get(u)
                 \/ \E u \in Worker \ {w} : Done(u)
                 \/ UNCHANGED wqVars
      <4>1. CASE WorkerGet(v)
        BY <4>1 DEF WorkerGet
      <4>2. CASE SyncOk(v)
        BY <4>2 DEF SyncOk, Working
      <4>3. CASE SyncErr(v)
        <5>1. held[v] \in Item
          BY <1>0, <4>3, HeldItem DEF SyncErr, Working
        <5> QED BY <3>1, <4>3, <5>1 DEF SyncErr, AddRateLimited
      <4>4. CASE Finish(v)
        BY <1>2, <4>4 DEF Finish
      <4> QED BY <3>3, <4>1, <4>2, <4>3, <4>4
    <3>4. CASE AddReady
      <4>1. ready \subseteq Item
        BY <1>0 DEF DelayTypeOK
      <4> QED BY <3>4, <4>1 DEF AddReady
    <3>5. CASE Receive
      <4>1. Head(channel) \in WaitFor /\ Head(channel).data \in Item
        BY <1>0, <3>5, EntryItem DEF Receive, WaitFor
      <4> QED BY <3>5, <4>1 DEF Receive
    <3> QED BY <3>2, <3>3, <3>4, <3>5
            DEF RLNext, LoopStep, LoopTop, OutsideAdd, Send, StartTimer, SelectStop,
                SelectTimer, SelectHeartbeat, Drained, BeginShutDown, CloseStop, Tick
  <2> QED BY <1>0, <2>1, <2>2, StaysAtWork
<1> QED BY <1>1, <1>2

\* Offered entries are handed over, unless the queue shuts down.
LEMMA OfferStays ==
  ASSUME RetryInv, RLNext, NEW w \in Worker, step[w] = "finish", ~shuttingDown,
         NEW x \in Item, sending[w].data = x
  PROVE  sending'[w].data = x \/ Requests(x)' # {}
<1>0. /\ DelayTypeOK /\ w \in Caller /\ ~stopped
      /\ sending \in [Caller -> WaitFor \cup {NoSend}] /\ sending[w] # NoSend
  BY ItemAssumption DEF RetryInv, DelayInv, RLInv, RLTypeOK, DelayTypeOK, Caller, NoSend
<1>1. CASE UNCHANGED sending
  BY <1>1
<1>2. ASSUME NEW c \in Caller, Send(c) PROVE sending'[w].data = x \/ Requests(x)' # {}
  <2>1. CASE c # w
    BY <1>0, <1>2, <2>1 DEF Send
  <2>2. CASE c = w
    <3>1. channel \in Seq(WaitFor) /\ channel' = Append(channel, sending[w]) /\ sending[w] \in WaitFor
      BY <1>0, <1>2, <2>2 DEF Send, DelayTypeOK
    <3>2. Len(channel) + 1 \in DOMAIN channel' /\ channel'[Len(channel) + 1] = sending[w]
      BY <3>1
    <3>3. channel'[Len(channel) + 1].left \in Requests(x)'
      BY <3>2 DEF Requests
    <3> QED BY <3>3
  <2> QED BY <2>1, <2>2
<1>3. ASSUME NEW c, c # w, NEW y, NEW d, AddAfter(c, y, d) PROVE sending'[w] = sending[w]
  BY <1>0, <1>3 DEF AddAfter
<1>4. CASE \E c \in Adder : OutsideAddAfter(c)
  BY <1>0, <1>3, <1>4 DEF OutsideAddAfter
<1>5. ASSUME NEW v \in Worker, SyncErr(v) PROVE sending'[w] = sending[w]
  BY <1>3, <1>5 DEF SyncErr, AddRateLimited, Working
<1>6. CASE Tick
  BY <1>0, <1>6 DEF Tick, WaitFor
<1> QED BY <1>1, <1>2, <1>4, <1>5, <1>6
        DEF RLNext, LoopStep, LoopTop, AddReady, Receive, OutsideAdd, WorkerGet, SyncOk,
            Finish, StartTimer, SelectStop, SelectTimer, SelectHeartbeat, Drained,
            BeginShutDown, CloseStop, delayVars

\* A worker that fails offers the retry, or the item is dirty at once.
LEMMA FailureOffers ==
  ASSUME RetryInv, NEW w \in Worker, SyncErr(w)
  PROVE  /\ pc'[w] = "work" /\ held'[w] = held[w] /\ shuttingDown' = shuttingDown
         /\ ~shuttingDown => sending'[w].data = held[w] \/ held[w] \in dirty'
<1>0. WorkInv /\ DelayTypeOK /\ pc[w] = "work" /\ w \in Caller /\ WQTypeOK
  BY DEF RetryInv, DelayInv, RLInv, RLTypeOK, SyncErr, Working, Caller, WorkInv
<1>1. held[w] \in Item
  BY <1>0, HeldItem DEF SyncErr, Working
<1>2. PICK d : AddAfter(w, held[w], d)
  BY DEF SyncErr, AddRateLimited
<1>3. Add(held[w]) \/ UNCHANGED wqVars
  BY <1>2 DEF AddAfter
<1>4. pc'[w] = "work" /\ held'[w] = held[w]
  BY <1>0, <1>1, <1>3, StaysAtWork
<1>5. shuttingDown' = shuttingDown
  BY <1>3 DEF Add, AddNew, wqVars
<1>6. \A y : Add(y) /\ ~shuttingDown => y \in dirty'
  BY DEF Add, AddNew, wqVars, queueVars
<1>7. ~shuttingDown => sending'[w].data = held[w] \/ held[w] \in dirty'
  BY <1>0, <1>2, <1>6 DEF AddAfter, DelayTypeOK
<1> QED BY <1>4, <1>5, <1>7

LEMMA RetryStep == RetryInv /\ [RLNext]_rlVars => RetryInv'
<1> SUFFICES ASSUME RetryInv, [RLNext]_rlVars PROVE RetryInv'
  OBVIOUS
<1>0. /\ DelayInv /\ NoRetryLost /\ RLInv /\ DelayTypeOK /\ WorkInv /\ RLTypeOK
      /\ step \in [Worker -> {"sync", "finish"}]
  BY DEF RetryInv, DelayInv, RLInv, RLTypeOK, DelayTypeOK
<1>1. DelayInv'
  <2>1. RLInv'
    <3>1. WorkInv'
      BY <1>0, StepRefines, WorkInvStep
    <3> QED BY <1>0, <3>1, DelayTypeStep DEF RLInv, RLTypeOK, WorkInv
  <2> QED BY <1>0, <2>1, ReadyStep DEF DelayInv
<1>2. CASE UNCHANGED rlVars
  BY <1>1, <1>2 DEF RetryInv, NoRetryLost, Working, Requests, rlVars, wqVars, delayVars
<1>3. CASE RLNext
  <2>1. (stopped => shuttingDown)'
    <3>1. shuttingDown => shuttingDown'
      BY <1>3, <1>0, StepRefines
         DEF WQNext, Add, AddNew, Get, GetItem, GetWait, GetShutdown, Done, ShutDown, wqVars,
             queueVars
    <3>2. stopped' => stopped \/ shuttingDown
      BY <1>3
         DEF RLNext, LoopStep, LoopTop, AddReady, Receive, OutsideAdd, OutsideAddAfter, Send,
             WorkerGet, SyncOk, SyncErr, Finish, StartTimer, SelectStop, SelectTimer,
             SelectHeartbeat, Drained, BeginShutDown, CloseStop, Tick, delayVars
    <3> QED BY <3>1, <3>2 DEF RetryInv
  <2>2. ASSUME NEW w \in Worker, step'[w] = "finish" PROVE step[w] = "finish" \/ SyncErr(w)
    BY <1>0, <1>3, <2>2
       DEF RLNext, LoopStep, LoopTop, AddReady, Receive, OutsideAdd, OutsideAddAfter, Send,
           WorkerGet, SyncOk, SyncErr, Finish, StartTimer, SelectStop, SelectTimer,
           SelectHeartbeat, Drained, BeginShutDown, CloseStop, Tick, delayVars
  <2>3. ASSUME NEW w \in Worker, step'[w] = "finish" PROVE pc'[w] = "work"
    BY <1>3, <2>2, <2>3, FinishStays, FailureOffers
  <2>4. ASSUME NEW w \in Worker, step'[w] = "finish", ~shuttingDown', NEW x, x = held'[w]
        PROVE  sending'[w].data = x \/ Requests(x)' # {} \/ x \in dirty'
    <3>1. CASE SyncErr(w)
      BY <2>4, <3>1, FailureOffers
    <3>2. CASE step[w] = "finish"
      <4>2. /\ pc[w] = "work" /\ x = held[w] /\ ~shuttingDown
            /\ x \in dirty => x \in dirty'
        BY <1>3, <2>4, <3>2, FinishStays DEF RetryInv
      <4>3. x \in Item
        BY <1>0, <4>2, HeldItem
      <4>4. sending[w].data = x \/ Requests(x) # {} \/ x \in dirty
        BY <1>0, <3>2, <4>2 DEF NoRetryLost, Working
      <4>5. CASE sending[w].data = x
        BY <1>3, <3>2, <4>2, <4>3, <4>5, OfferStays
      <4>6. CASE Requests(x) # {}
        <5>1. x \in dirty' \/ Kept(x)
          BY <1>0, <1>3, <4>2, <4>3, KeptStep
        <5> QED BY <4>2, <4>6, <5>1 DEF Kept
      <4> QED BY <4>2, <4>4, <4>5, <4>6
    <3> QED BY <2>2, <2>4, <3>1, <3>2
  <2>5. NoRetryLost'
    <3> SUFFICES ASSUME NEW w \in Worker, Working(w, "finish")', ~shuttingDown'
                 PROVE  (\/ sending[w].data = held[w]
                         \/ Requests(held[w]) # {}
                         \/ held[w] \in dirty)'
      BY DEF NoRetryLost
    <3>1. PICK x : x = held'[w]
      OBVIOUS
    <3>2. sending'[w].data = x \/ Requests(x)' # {} \/ x \in dirty'
      BY <2>4, <3>1 DEF Working
    <3> QED BY <3>1, <3>2 DEF Requests
  <2> QED BY <1>1, <2>1, <2>3, <2>5 DEF RetryInv
<1> QED BY <1>2, <1>3

\* No failed item is left without a retry (processNextWorkItem, AddRateLimited):
\* until its worker calls Done, the entry is offered, delayed or dirty again,
\* whatever the loop, the other workers and the other callers do.
THEOREM RetriesAreKept == RLSafety => []NoRetryLost
<1>1. RLInit => NoRetryLost /\ (stopped => shuttingDown)
                /\ \A w \in Worker : step[w] = "finish" => pc[w] = "work"
  BY DEF RLInit, NoRetryLost, Working
<1>2. RLInit => DelayInv
  <2> SUFFICES ASSUME RLInit PROVE DelayInv
    OBVIOUS
  <2>1. WQInit
    BY DEF RLInit
  <2>2. RLInv
    BY <2>1, DelayTypeInit, TypeInit, WorkInvInit DEF RLInv, RLTypeOK
  <2> QED BY <2>2 DEF RLInit, ReadyIsDue, DelayInv
<1>3. RLInit => RetryInv
  BY <1>1, <1>2 DEF RetryInv
<1>4. RetryInv => NoRetryLost
  BY DEF RetryInv
<1> QED BY <1>3, <1>4, RetryStep, PTL DEF RLSafety
=============================================================================
