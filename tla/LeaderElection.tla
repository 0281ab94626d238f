---------------------------- MODULE LeaderElection ----------------------------
(***************************************************************************)
(* Leader election of the controllers and the scheduler                    *)
(* (client-go/tools/leaderelection): candidates that acquire and renew a   *)
(* lease kept in an annotation of one API object.                          *)
(*                                                                         *)
(* Time is counted in whole seconds, the precision of the times in the     *)
(* record.  All clocks run at one rate; their offsets do not matter, since *)
(* a client only compares times it has taken itself.  A call to the API    *)
(* server is a request, the moment the server handles it, and an answer;   *)
(* it may fail before or after that moment, and an update whose caller has *)
(* given up may still reach the server.                                    *)
(***************************************************************************)
EXTENDS Integers, FiniteSets

CONSTANTS Candidate,      \* the identities of the clients
          Nobody,         \* the empty identity
          LeaseDuration,
          RenewDeadline,
          RetryPeriod,
          MaxLatency,     \* assumption: how long tryAcquireOrRenew takes
          MaxTime         \* bound: how long the clock runs

\* NewLeaderElector accepts these durations (JitterFactor is 1.2).
ASSUME ConfigAssumption ==
  /\ LeaseDuration \in Nat /\ RenewDeadline \in Nat /\ RetryPeriod \in Nat \ {0}
  /\ LeaseDuration > RenewDeadline
  /\ 10 * RenewDeadline > 12 * RetryPeriod

ASSUME ModelAssumption ==
  Nobody \notin Candidate /\ MaxLatency \in Nat /\ MaxTime \in Nat

VARIABLES now,           \* the time
          lock,          \* the API object: its version (0: none) and the record
          late,          \* updates nobody waits for that may still be handled
          phase,         \* where Run is: in acquire, in renew, or returned
          round,         \* in renew: RenewDeadline is running
          deadline,      \* when it will be over
          retryAt,       \* when the next attempt or round is due
          pc,            \* where tryAcquireOrRenew is
          started,       \* its "now"
          read,          \* what its Get has returned
          observed,      \* le.observedRecord
          observedTime,  \* le.observedTime
          reported,      \* le.reportedLeader
          renewed        \* history: "now" of the last attempt that succeeded

runVars      == <<phase, round, deadline, retryAt, renewed>>
attemptVars  == <<pc, started, read>>
observedVars == <<observed, observedTime, reported>>
leVars == <<now, lock, late, phase, round, deadline, retryAt, pc, started, read,
            observed, observedTime, reported, renewed>>

(***************************************************************************)
(* The record.  The times a client has just taken are exact, those it      *)
(* reads back are whole seconds without the monotonic clock, so a client   *)
(* never finds the record it wrote equal to the one it remembers.  The     *)
(* acquire time is left out: it changes when the transitions do.           *)
(***************************************************************************)
Record == [holder : Candidate \cup {Nobody}, renew : Nat, transitions : Nat,
           exact : BOOLEAN]

Empty == [holder |-> Nobody, renew |-> 0, transitions |-> 0, exact |-> FALSE]

Nothing == [version |-> 0, rec |-> Empty]

\* Slip: the times are stored as they were taken.
StoredExact(rec) == rec

\* What is left of a record when it is marshalled and read back.
Stored(rec) == [rec EXCEPT !.exact = FALSE]

\* The object may exist before the election, without the annotation.
LEInit ==
  /\ now = 0
  /\ lock \in [version : {0, 1}, rec : {Empty}]
  /\ late = {}
  /\ phase = [c \in Candidate |-> "acquire"]
  /\ round = [c \in Candidate |-> FALSE]
  /\ deadline = [c \in Candidate |-> 0]
  /\ retryAt = [c \in Candidate |-> 0]
  /\ pc = [c \in Candidate |-> "idle"]
  /\ started = [c \in Candidate |-> 0]
  /\ read = [c \in Candidate |-> Nothing]
  /\ observed = [c \in Candidate |-> Empty]
  /\ observedTime = [c \in Candidate |-> -LeaseDuration]
  /\ reported = [c \in Candidate |-> Nobody]
  /\ renewed = [c \in Candidate |-> 0]

IsLeader(c) == observed[c].holder = c

-----------------------------------------------------------------------------
(* tryAcquireOrRenew *)

\* An attempt begins: the next turn of JitterUntil in acquire, or of the poll
\* of a round in renew, whose attempts begin at least RetryPeriod apart.
Begin(c) ==
  /\ pc[c] = "idle" /\ now >= retryAt[c]
  /\ phase[c] = "acquire" \/ (phase[c] = "lead" /\ round[c])
  /\ pc' = [pc EXCEPT ![c] = "get"]
  /\ started' = [started EXCEPT ![c] = now]
  /\ retryAt' = [retryAt EXCEPT ![c] = now + RetryPeriod]
  /\ UNCHANGED <<now, lock, late, phase, round, deadline, renewed, read,
                 observedVars>>

\* maybeReportTransition, which acquire calls after every attempt, and renew
\* after every round.
Report(c, rec) == reported' = [reported EXCEPT ![c] = rec.holder]

\* tryAcquireOrRenew returns, and its local variables are gone.
Return(c) == /\ pc' = [pc EXCEPT ![c] = "idle"]
             /\ started' = [started EXCEPT ![c] = 0]
             /\ read' = [read EXCEPT ![c] = Nothing]

\* The attempt has failed.  (In renew the poll goes on to the next one.)
Failed(c) ==
  /\ Return(c)
  /\ IF phase[c] = "acquire"
     THEN /\ retryAt' = [retryAt EXCEPT ![c] = now + RetryPeriod]
          /\ Report(c, observed'[c])
     ELSE UNCHANGED <<retryAt, reported>>
  /\ UNCHANGED <<now, lock, phase, round, deadline, renewed>>

\* The server answers the Get.
HandleGet(c) ==
  /\ pc[c] = "get"
  /\ pc' = [pc EXCEPT ![c] = "got"]
  /\ read' = [read EXCEPT ![c] = lock]
  /\ UNCHANGED <<now, lock, late, runVars, started, observedVars>>

GetFails(c) ==
  /\ pc[c] = "get"
  /\ UNCHANGED <<late, observed, observedTime>>
  /\ Failed(c)

\* Slip: only a change of the holder counts as news of the leader.
ObserveHolder(c, rec) ==
  /\ observed' = [observed EXCEPT ![c] = rec]
  /\ observedTime' = [observedTime EXCEPT
                        ![c] = IF observed[c].holder = rec.holder THEN @ ELSE now]

\* A record that differs from the one remembered is news of the leader.
Observe(c, rec) ==
  /\ observed' = [observed EXCEPT ![c] = rec]
  /\ observedTime' = [observedTime EXCEPT ![c] = IF observed[c] = rec THEN @ ELSE now]

\* Slip: the lease is over when the leader has missed its own deadline.
ExpiredAtDeadline(c) == started[c] >= observedTime'[c] + RenewDeadline

\* The lease of the record observed was over when the attempt began.
Expired(c) == started[c] >= observedTime'[c] + LeaseDuration

\* The client has the record, if there is one.  It tries to write it unless
\* somebody else holds it and may still lead.
Decide(c) ==
  /\ pc[c] = "got"
  /\ IF read[c].version = 0
     THEN UNCHANGED <<observed, observedTime>>
     ELSE Observe(c, read[c].rec)
  /\ IF read[c].version # 0 /\ ~Expired(c) /\ ~IsLeader(c)'
     THEN Failed(c)
     ELSE /\ pc' = [pc EXCEPT ![c] = "write"]
          /\ UNCHANGED <<now, lock, runVars, started, read, reported>>
  /\ UNCHANGED late

\* The record Create or Update sends.
Written(c) ==
  LET old == read[c].rec
  IN  [holder |-> c,
       renew |-> started[c],
       transitions |-> IF read[c].version = 0 \/ old.holder = c THEN old.transitions
                       ELSE old.transitions + 1,
       exact |-> TRUE]

\* The server takes an update only of the version the client has read (and
\* Create only if there is no object); late updates of it are void then.
Put(rec) == /\ lock' = [version |-> lock.version + 1, rec |-> Stored(rec)]
            /\ late' = {}

HandleUpdate(c) ==
  /\ pc[c] = "write" /\ read[c].version = lock.version
  /\ Put(Written(c))
  /\ pc' = [pc EXCEPT ![c] = "applied"]
  /\ UNCHANGED <<now, runVars, started, read, observedVars>>

UpdateConflicts(c) ==
  /\ pc[c] = "write" /\ read[c].version # lock.version
  /\ UNCHANGED <<late, observed, observedTime>>
  /\ Failed(c)

\* The client gives up; the server may get the request later.
UpdateFails(c) ==
  /\ pc[c] = "write" /\ read[c].version = lock.version
  /\ late' \in {late, late \cup {Written(c)}}
  /\ UNCHANGED <<observed, observedTime>>
  /\ Failed(c)

LateUpdate ==
  /\ \E rec \in late : Put(rec)
  /\ UNCHANGED <<now, runVars, attemptVars, observedVars>>

\* The server has updated the record, and the answer is lost.
AnswerLost(c) ==
  /\ pc[c] = "applied"
  /\ UNCHANGED <<late, observed, observedTime>>
  /\ Failed(c)

\* Slip: the time of the success is not noted.
SucceededUntimed(c) ==
  /\ pc[c] = "applied"
  /\ Return(c)
  /\ observed' = [observed EXCEPT ![c] = Written(c)]
  /\ IF phase[c] = "stopped"
     THEN UNCHANGED <<runVars, reported>>
     ELSE /\ phase' = [phase EXCEPT ![c] = "lead"]
          /\ round' = [round EXCEPT ![c] = FALSE]
          /\ retryAt' = [retryAt EXCEPT
                           ![c] = IF phase[c] = "lead" THEN now + RetryPeriod ELSE now]
          /\ renewed' = [renewed EXCEPT ![c] = started[c]]
          /\ Report(c, Written(c))
          /\ deadline' = [deadline EXCEPT ![c] = 0]
  /\ UNCHANGED <<now, lock, late, observedTime>>

\* The attempt has succeeded.  In acquire the client starts to lead, and its
\* first round of renew begins at once; in renew the round is over, and the
\* next one begins after RetryPeriod; after renew it is too late.
Succeeded(c) ==
  /\ pc[c] = "applied"
  /\ Return(c)
  /\ observed' = [observed EXCEPT ![c] = Written(c)]
  /\ observedTime' = [observedTime EXCEPT ![c] = now]
  /\ IF phase[c] = "stopped"
     THEN UNCHANGED <<runVars, reported>>
     ELSE /\ phase' = [phase EXCEPT ![c] = "lead"]
          /\ round' = [round EXCEPT ![c] = FALSE]
          /\ retryAt' = [retryAt EXCEPT
                           ![c] = IF phase[c] = "lead" THEN now + RetryPeriod ELSE now]
          /\ renewed' = [renewed EXCEPT ![c] = started[c]]
          /\ Report(c, Written(c))
          /\ deadline' = [deadline EXCEPT ![c] = 0]
  /\ UNCHANGED <<now, lock, late>>

-----------------------------------------------------------------------------
(* renew *)

\* Run returns, and with it what renew keeps.
Leave(c) == /\ phase' = [phase EXCEPT ![c] = "stopped"]
            /\ round' = [round EXCEPT ![c] = FALSE]
            /\ deadline' = [deadline EXCEPT ![c] = 0]
            /\ retryAt' = [retryAt EXCEPT ![c] = 0]

\* A round begins: its attempts have until RenewDeadline.
BeginRound(c) ==
  /\ phase[c] = "lead" /\ ~round[c] /\ now >= retryAt[c]
  /\ round' = [round EXCEPT ![c] = TRUE]
  /\ deadline' = [deadline EXCEPT ![c] = now + RenewDeadline]
  /\ UNCHANGED <<now, lock, late, phase, retryAt, renewed, attemptVars, observedVars>>

\* Slip: after a round that failed another one begins.
RoundFailsRetries(c) ==
  /\ phase[c] = "lead" /\ round[c] /\ now >= deadline[c]
  /\ deadline' = [deadline EXCEPT ![c] = now + RenewDeadline]
  /\ UNCHANGED <<now, lock, late, phase, round, retryAt, renewed, attemptVars,
                 observedVars>>

\* The deadline is over: Run returns.  An attempt that is under way goes on
\* alone; if none is, the poll may make a last one, for which nobody waits.
RoundFails(c) ==
  /\ phase[c] = "lead" /\ round[c] /\ now >= deadline[c]
  /\ Leave(c)
  /\ Report(c, observed[c])
  /\ \/ UNCHANGED <<pc, started>>
     \/ /\ pc[c] = "idle"
        /\ pc' = [pc EXCEPT ![c] = "get"]
        /\ started' = [started EXCEPT ![c] = now]
  /\ UNCHANGED <<now, lock, late, renewed, read, observed, observedTime>>

\* The context is cancelled, or the process dies, with requests under way.
Halt(c) ==
  /\ phase[c] # "stopped"
  /\ Leave(c)
  /\ UNCHANGED <<now, lock, late, renewed, attemptVars, observedVars>>

(***************************************************************************)
(* Time passes.  The assumptions on time are here: an attempt somebody     *)
(* waits for ends within MaxLatency (the client's timeout), and a leader's *)
(* timers are served in the second they fire.  Candidates that do not lead *)
(* may be late.                                                            *)
(***************************************************************************)
InTime(c) ==
  /\ phase[c] # "stopped" /\ pc[c] # "idle" => now < started[c] + MaxLatency
  /\ phase[c] = "lead" => now < IF round[c] THEN deadline[c] ELSE retryAt[c]

Tick == /\ now < MaxTime
        /\ \A c \in Candidate : InTime(c)
        /\ now' = now + 1
        /\ UNCHANGED <<lock, late, runVars, attemptVars, observedVars>>

Attempt(c) == \/ Begin(c) \/ HandleGet(c) \/ GetFails(c) \/ Decide(c)
              \/ HandleUpdate(c) \/ UpdateConflicts(c) \/ UpdateFails(c)
              \/ AnswerLost(c) \/ Succeeded(c)

Renew(c) == BeginRound(c) \/ RoundFails(c)

LENext == \/ \E c \in Candidate : Attempt(c) \/ Renew(c) \/ Halt(c)
          \/ LateUpdate
          \/ Tick

LESpec == LEInit /\ [][LENext]_leVars

-----------------------------------------------------------------------------
(* Correctness *)

StoredRecord == {rec \in Record : ~rec.exact}

\* Well-formed states; what is stored has whole seconds only.
LETypeOK ==
  /\ now \in Nat
  /\ lock \in [version : Nat, rec : StoredRecord]
  /\ late \subseteq Record
  /\ phase \in [Candidate -> {"acquire", "lead", "stopped"}]
  /\ round \in [Candidate -> BOOLEAN]
  /\ deadline \in [Candidate -> Nat] /\ retryAt \in [Candidate -> Nat]
  /\ pc \in [Candidate -> {"idle", "get", "got", "write", "applied"}]
  /\ started \in [Candidate -> Nat]
  /\ read \in [Candidate -> [version : Nat, rec : StoredRecord]]
  /\ observed \in [Candidate -> Record] /\ observedTime \in [Candidate -> Int]
  /\ reported \in [Candidate -> Candidate \cup {Nobody}]
  /\ renewed \in [Candidate -> Nat]

(***************************************************************************)
(* When the durations leave room for what a leader does between two        *)
(* renewals: the attempt, the pause, and the round that fails.             *)
(***************************************************************************)
LeaseIsSafe == LeaseDuration > MaxLatency + RetryPeriod + RenewDeadline

Leads(c) == phase[c] = "lead"

\* At most one client acts as the leader at any time.
AtMostOneLeader == \A c, d \in Candidate : Leads(c) /\ Leads(d) => c = d

\* Whoever leads is the holder in the record, whatever is still under way
\* from clients that gave up, and it knows and has reported that it leads.
LeaderHoldsLock ==
  \A c \in Candidate :
    Leads(c) => lock.rec.holder = c /\ IsLeader(c) /\ reported[c] = c

\* Nobody takes the lease over before LeaseDuration has passed since its
\* holder began to renew it for the last time.
TakeoverAfterLease ==
  [][\/ lock'.rec.holder = lock.rec.holder
     \/ lock.rec.holder = Nobody
     \/ now >= lock.rec.renew + LeaseDuration]_leVars

\* The health check (Check, with no tolerance) does not report a client that
\* leads.
LeaderIsHealthy ==
  \A c \in Candidate : Leads(c) => now - observedTime[c] <= LeaseDuration
=============================================================================
