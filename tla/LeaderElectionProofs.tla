------------------------- MODULE LeaderElectionProofs -------------------------
(***************************************************************************)
(* Leader election for any number of clients, any durations, and any       *)
(* losses, delays and failures of calls to the API server.                 *)
(***************************************************************************)
EXTENDS LeaderElection, TLAPS

LEMMA EmptyFacts == /\ Empty \in StoredRecord /\ Empty.renew = 0
                    /\ Empty.holder = Nobody
                    /\ Nothing.version = 0 /\ Nothing.rec = Empty
                    /\ Nothing \in [version : Nat, rec : StoredRecord]
BY DEF Empty, Nothing, StoredRecord, Record

LEMMA StoredFacts ==
  ASSUME NEW rec \in Record
  PROVE  /\ Stored(rec) \in StoredRecord
         /\ Stored(rec).holder = rec.holder
         /\ Stored(rec).renew = rec.renew
BY DEF Stored, StoredRecord, Record

LEMMA WrittenFacts ==
  ASSUME LETypeOK, NEW c \in Candidate
  PROVE  /\ Written(c) \in Record
         /\ Written(c).holder = c
         /\ Written(c).renew = started[c]
<1>1. started[c] \in Nat /\ read[c].rec \in Record
  BY DEF LETypeOK, StoredRecord
<1>2. read[c].rec.transitions \in Nat
  BY <1>1 DEF Record
<1> QED BY <1>1, <1>2 DEF Written, Record

LEMMA TypeStep == LETypeOK /\ [LENext]_leVars => LETypeOK'
<1> SUFFICES ASSUME LETypeOK, [LENext]_leVars PROVE LETypeOK'
  OBVIOUS
<1> USE DEF runVars, attemptVars, observedVars
<1>n. now \in Nat /\ now + RetryPeriod \in Nat /\ now + RenewDeadline \in Nat
      /\ now + 1 \in Nat
  BY ConfigAssumption DEF LETypeOK
<1>0. StoredRecord \subseteq Record
  BY DEF StoredRecord
<1>f. ASSUME NEW c \in Candidate, Failed(c), late' \subseteq Record,
             observed' \in [Candidate -> Record], observedTime' \in [Candidate -> Int]
      PROVE  LETypeOK'
  <2>1. observed'[c].holder \in Candidate \cup {Nobody}
    BY <1>f DEF Record
  <2>2. /\ pc' \in [Candidate -> {"idle", "get", "got", "write", "applied"}]
        /\ started' \in [Candidate -> Nat]
        /\ read' \in [Candidate -> [version : Nat, rec : StoredRecord]]
    BY <1>f, EmptyFacts DEF Failed, Return, LETypeOK
  <2>3. /\ retryAt' \in [Candidate -> Nat]
        /\ reported' \in [Candidate -> Candidate \cup {Nobody}]
    <3>1. CASE phase[c] = "acquire"
      <4>1. /\ retryAt' = [retryAt EXCEPT ![c] = now + RetryPeriod]
            /\ reported' = [reported EXCEPT ![c] = observed'[c].holder]
        BY <1>f, <3>1 DEF Failed, Report
      <4> QED BY <1>n, <2>1, <4>1 DEF LETypeOK
    <3>2. CASE phase[c] # "acquire"
      BY <1>f, <3>2 DEF Failed, LETypeOK
    <3> QED BY <3>1, <3>2
  <2> QED BY <1>f, <2>2, <2>3 DEF Failed, LETypeOK
<1>1. ASSUME NEW c \in Candidate, Begin(c) PROVE LETypeOK'
  BY <1>1, <1>n DEF Begin, LETypeOK
<1>2. ASSUME NEW c \in Candidate, HandleGet(c) PROVE LETypeOK'
  BY <1>2 DEF HandleGet, LETypeOK
<1>3. ASSUME NEW c \in Candidate, GetFails(c) PROVE LETypeOK'
  BY <1>3, <1>f DEF GetFails, LETypeOK
<1>4. ASSUME NEW c \in Candidate, Decide(c) PROVE LETypeOK'
  <2>1. late' \subseteq Record /\ observed' \in [Candidate -> Record]
        /\ observedTime' \in [Candidate -> Int]
    <3>1. read[c].rec \in Record
      BY <1>0 DEF LETypeOK
    <3> QED BY <1>4, <3>1 DEF Decide, Observe, LETypeOK
  <2>2. CASE Failed(c)
    BY <2>1, <2>2, <1>f
  <2>3. CASE ~Failed(c)
    BY <1>4, <2>1, <2>3 DEF Decide, LETypeOK
  <2> QED BY <2>2, <2>3
<1>5. ASSUME NEW c \in Candidate, HandleUpdate(c) PROVE LETypeOK'
  BY <1>5, WrittenFacts, StoredFacts DEF HandleUpdate, Put, LETypeOK
<1>6. ASSUME NEW c \in Candidate, UpdateConflicts(c) PROVE LETypeOK'
  BY <1>6, <1>f DEF UpdateConflicts, LETypeOK
<1>7. ASSUME NEW c \in Candidate, UpdateFails(c) PROVE LETypeOK'
  <2>1. late' \subseteq Record
    BY <1>7, WrittenFacts DEF UpdateFails, LETypeOK
  <2> QED BY <1>7, <2>1, <1>f DEF UpdateFails, LETypeOK
<1>8. ASSUME NEW c \in Candidate, AnswerLost(c) PROVE LETypeOK'
  BY <1>8, <1>f DEF AnswerLost, LETypeOK
<1>9. ASSUME NEW c \in Candidate, Succeeded(c) PROVE LETypeOK'
  <2>1. CASE phase[c] = "stopped"
    BY <1>9, <2>1, WrittenFacts, EmptyFacts DEF Succeeded, Return, LETypeOK
  <2>2. CASE phase[c] # "stopped"
    <3>1. /\ pc' \in [Candidate -> {"idle", "get", "got", "write", "applied"}]
          /\ started' \in [Candidate -> Nat]
          /\ read' \in [Candidate -> [version : Nat, rec : StoredRecord]]
      BY <1>9, EmptyFacts DEF Succeeded, Return, LETypeOK
    <3>2. /\ observed' \in [Candidate -> Record]
          /\ observedTime' \in [Candidate -> Int]
          /\ reported' \in [Candidate -> Candidate \cup {Nobody}]
      BY <1>9, <2>2, WrittenFacts DEF Succeeded, Report, LETypeOK
    <3>3. /\ phase' \in [Candidate -> {"acquire", "lead", "stopped"}]
          /\ round' \in [Candidate -> BOOLEAN]
          /\ deadline' \in [Candidate -> Nat]
          /\ renewed' \in [Candidate -> Nat]
      <4>1. /\ phase' = [phase EXCEPT ![c] = "lead"]
            /\ round' = [round EXCEPT ![c] = FALSE]
            /\ deadline' = [deadline EXCEPT ![c] = 0]
            /\ renewed' = [renewed EXCEPT ![c] = started[c]]
        BY <1>9, <2>2 DEF Succeeded
      <4> QED BY <4>1 DEF LETypeOK
    <3>4. retryAt' \in [Candidate -> Nat]
      <4> DEFINE t == IF phase[c] = "lead" THEN now + RetryPeriod ELSE now
      <4>1. t \in Nat
        BY <1>n
      <4>2. retryAt' = [retryAt EXCEPT ![c] = t]
        BY <1>9, <2>2 DEF Succeeded
      <4> HIDE DEF t
      <4> QED BY <4>1, <4>2 DEF LETypeOK
    <3> QED BY <1>9, <3>1, <3>2, <3>3, <3>4 DEF Succeeded, LETypeOK
  <2> QED BY <2>1, <2>2
<1>10. ASSUME NEW c \in Candidate, BeginRound(c) PROVE LETypeOK'
  BY <1>10, <1>n DEF BeginRound, LETypeOK
<1>11. ASSUME NEW c \in Candidate, RoundFails(c) PROVE LETypeOK'
  <2>1. observed[c].holder \in Candidate \cup {Nobody}
    BY DEF LETypeOK, Record
  <2> QED BY <1>11, <1>n, <2>1 DEF RoundFails, Leave, Report, LETypeOK
<1>12. ASSUME NEW c \in Candidate, Halt(c) PROVE LETypeOK'
  BY <1>12 DEF Halt, Leave, LETypeOK
<1>13. CASE LateUpdate
  BY <1>13, StoredFacts DEF LateUpdate, Put, LETypeOK
<1>14. CASE Tick
  BY <1>14, <1>n DEF Tick, LETypeOK
<1>15. CASE UNCHANGED leVars
  BY <1>15 DEF leVars, LETypeOK
<1> QED
  BY <1>1, <1>2, <1>3, <1>4, <1>5, <1>6, <1>7, <1>8, <1>9, <1>10, <1>11, <1>12,
     <1>13, <1>14, <1>15 DEF LENext, Attempt, Renew

LEMMA TypeInit == LEInit => LETypeOK
<1> SUFFICES ASSUME LEInit PROVE LETypeOK
  OBVIOUS
<1>1. Empty \in Record /\ -LeaseDuration \in Int
  BY EmptyFacts, ConfigAssumption DEF StoredRecord
<1>2. lock \in [version : Nat, rec : StoredRecord]
  BY EmptyFacts DEF LEInit
<1> QED BY <1>1, <1>2, EmptyFacts DEF LEInit, LETypeOK

(***************************************************************************)
(* The lock, the calls under way and what the clients remember are well    *)
(* formed.                                                                 *)
(***************************************************************************)
THEOREM ElectionTypeCorrect == LESpec => []LETypeOK
BY TypeInit, TypeStep, PTL DEF LESpec

-----------------------------------------------------------------------------
(***************************************************************************)
(* What holds whatever the durations are: a record is never younger than   *)
(* the time somebody observed it at, and an update the server may still    *)
(* take either renews the lease of its holder or was begun after it.       *)
(***************************************************************************)
PastInv ==
  /\ lock.rec.renew <= now
  /\ lock.version = 0 => lock.rec = Empty
  /\ \A rec \in late : rec.holder \in Candidate /\ rec.renew <= now
  /\ \A c \in Candidate :
       /\ started[c] <= now
       /\ read[c].rec.renew <= now
       /\ read[c].version = 0 => read[c].rec = Empty
       /\ observed[c].holder # Nobody => observed[c].renew <= observedTime[c]

MayTake(c, t, old) ==
  old.holder = c \/ old.holder = Nobody \/ t >= old.renew + LeaseDuration

IsCurrent(c) ==
  /\ read[c].version <= lock.version
  /\ read[c].version = lock.version => read[c].rec = lock.rec

UpdateInv ==
  /\ \A c \in Candidate :
       /\ pc[c] \in {"got", "write"} => IsCurrent(c)
       /\ pc[c] = "write" => MayTake(c, started[c], read[c].rec)
  /\ \A rec \in late : MayTake(rec.holder, rec.renew, lock.rec)

LeaseInv == LETypeOK /\ PastInv /\ UpdateInv

(***************************************************************************)
(* What holds if the lease is long enough: a leader holds the lock and     *)
(* stops in time.                                                          *)
(***************************************************************************)
Sequential(c) == /\ renewed[c] <= now
                 /\ pc[c] # "idle" => renewed[c] <= started[c]

AttemptInTime(c) ==
  phase[c] # "stopped" /\ pc[c] # "idle" => now <= started[c] + MaxLatency

LeadInTime(c) ==
  Leads(c) => IF round[c]
              THEN /\ now <= deadline[c]
                   /\ deadline[c] <= renewed[c] + MaxLatency + RetryPeriod + RenewDeadline
              ELSE /\ now <= retryAt[c]
                   /\ retryAt[c] <= renewed[c] + MaxLatency + RetryPeriod

Holds(c) == Leads(c) => lock.rec.holder = c /\ renewed[c] <= lock.rec.renew

Applied(c) ==
  phase[c] # "stopped" /\ pc[c] = "applied" =>
    /\ lock.rec.holder = c /\ started[c] <= lock.rec.renew
    /\ \A rec \in late : rec.holder # c

Knows(c) ==
  Leads(c) => /\ observed[c].holder = c /\ reported[c] = c
              /\ renewed[c] <= observedTime[c]
              /\ pc[c] \in {"got", "write"} => read[c].rec.holder = c

ClientInv(c) == /\ Sequential(c) /\ AttemptInTime(c) /\ LeadInTime(c)
                /\ Holds(c) /\ Applied(c) /\ Knows(c)

LeaderInv ==
  /\ \A c \in Candidate : ClientInv(c)
  /\ \A rec \in late : renewed[rec.holder] <= rec.renew

-----------------------------------------------------------------------------
(* The lease: steps *)

\* The types of what is compared.
LEMMA NumberFacts ==
  ASSUME LETypeOK
  PROVE  /\ now \in Nat /\ lock.version \in Nat /\ lock.rec.renew \in Nat
         /\ lock.rec \in Record /\ LeaseDuration \in Nat
         /\ \A rec \in late : rec \in Record /\ rec.renew \in Nat
         /\ \A c \in Candidate :
              /\ started[c] \in Nat /\ renewed[c] \in Nat /\ retryAt[c] \in Nat
              /\ deadline[c] \in Nat /\ observedTime[c] \in Int
              /\ read[c].version \in Nat /\ read[c].rec \in Record
              /\ read[c].rec.renew \in Nat
              /\ observed[c] \in Record /\ observed[c].renew \in Nat
BY ConfigAssumption DEF LETypeOK, StoredRecord, Record

\* A record the server takes may be taken.
LEMMA PutKeeps ==
  ASSUME LeaseInv, NEW rec \in Record, Put(rec), rec.holder \in Candidate,
         rec.renew <= now, now' = now,
         UNCHANGED <<started, read, observed, observedTime>>,
         \A d \in Candidate : pc'[d] = pc[d] \/ pc'[d] = "applied"
  PROVE  PastInv' /\ UpdateInv'
<1>1. /\ lock'.version = lock.version + 1 /\ lock'.rec = Stored(rec) /\ late' = {}
      /\ lock'.rec.renew = rec.renew
  BY StoredFacts DEF Put
<1>2. lock.version \in Nat /\ lock'.version # 0
  BY <1>1, NumberFacts DEF LeaseInv
<1>3. PastInv'
  BY <1>1, <1>2 DEF LeaseInv, PastInv
<1>4. ASSUME NEW d \in Candidate, pc'[d] \in {"got", "write"}
      PROVE  IsCurrent(d)' /\ pc[d] = pc'[d]
  <2>1. pc[d] = pc'[d] /\ IsCurrent(d)
    BY <1>4 DEF LeaseInv, UpdateInv
  <2>2. read[d].version <= lock.version /\ read[d].version \in Nat /\ read'[d] = read[d]
    BY <2>1, NumberFacts DEF IsCurrent, LeaseInv
  <2>3. read[d].version < lock'.version
    BY <1>1, <1>2, <2>2
  <2> QED BY <1>1, <1>2, <2>1, <2>2, <2>3 DEF IsCurrent
<1>5. UpdateInv'
  <2>1. \A d \in Candidate : pc'[d] = "write" => MayTake(d, started[d], read[d].rec)
    BY <1>4 DEF LeaseInv, UpdateInv
  <2> QED BY <1>1, <1>4, <2>1 DEF UpdateInv, MayTake
<1> QED BY <1>3, <1>5

\* An attempt that returns.
LEMMA ReturnKeeps ==
  ASSUME LeaseInv, NEW c \in Candidate, Return(c), UNCHANGED <<now, lock>>,
         \A rec \in late' : /\ rec.holder \in Candidate /\ rec.renew <= now
                            /\ MayTake(rec.holder, rec.renew, lock.rec),
         \A d \in Candidate :
           observed'[d].holder # Nobody => observed'[d].renew <= observedTime'[d]
  PROVE  PastInv' /\ UpdateInv'
<1>1. \A d \in Candidate :
        \/ d # c /\ pc'[d] = pc[d] /\ started'[d] = started[d] /\ read'[d] = read[d]
        \/ pc'[d] = "idle" /\ started'[d] = 0 /\ read'[d] = Nothing
  BY DEF Return, LeaseInv, LETypeOK
<1>2. PastInv'
  <2>1. 0 <= now
    BY NumberFacts DEF LeaseInv
  <2> QED BY <1>1, <2>1, EmptyFacts DEF LeaseInv, PastInv
<1>3. UpdateInv'
  <2>1. \A d \in Candidate : pc'[d] \in {"got", "write"} =>
          pc[d] = pc'[d] /\ read'[d] = read[d] /\ started'[d] = started[d]
    BY <1>1
  <2>2. \A d \in Candidate : pc'[d] \in {"got", "write"} => IsCurrent(d)'
    BY <2>1 DEF LeaseInv, UpdateInv, IsCurrent
  <2>3. \A d \in Candidate : pc'[d] = "write" => MayTake(d, started'[d], read'[d].rec)
    BY <2>1 DEF LeaseInv, UpdateInv
  <2> QED BY <2>2, <2>3 DEF UpdateInv, MayTake
<1> QED BY <1>2, <1>3

LEMMA DecideKeeps ==
  ASSUME LeaseInv, LETypeOK', NEW c \in Candidate, Decide(c)
  PROVE  PastInv' /\ UpdateInv'
<1>1. /\ pc[c] = "got" /\ late' = late /\ now' = now /\ lock' = lock
  BY DEF Decide, Failed, runVars
<1>2. \A d \in Candidate : d # c => /\ observed'[d] = observed[d]
                                    /\ observedTime'[d] = observedTime[d]
  BY DEF Decide, Observe, LeaseInv, LETypeOK
<1>3. observed'[c].holder # Nobody => observed'[c].renew <= observedTime'[c]
  <2>1. CASE read[c].version = 0
    BY <2>1 DEF Decide, LeaseInv, PastInv
  <2>2. CASE read[c].version # 0
    <3>1. /\ observed'[c] = read[c].rec
          /\ observedTime'[c] = IF observed[c] = read[c].rec THEN observedTime[c] ELSE now
      BY <2>2 DEF Decide, Observe, LeaseInv, LETypeOK
    <3> QED BY <3>1 DEF LeaseInv, PastInv
  <2> QED BY <2>1, <2>2
<1>4. \A d \in Candidate :
        observed'[d].holder # Nobody => observed'[d].renew <= observedTime'[d]
  BY <1>2, <1>3 DEF LeaseInv, PastInv
<1>5. CASE Failed(c)
  <2>1. \A rec \in late' : /\ rec.holder \in Candidate /\ rec.renew <= now
                           /\ MayTake(rec.holder, rec.renew, lock.rec)
    BY <1>1 DEF LeaseInv, PastInv, UpdateInv
  <2> QED BY <1>1, <1>4, <1>5, <2>1, ReturnKeeps DEF Failed
<1>6. CASE ~Failed(c)
  <2>1. /\ pc' = [pc EXCEPT ![c] = "write"]
        /\ UNCHANGED <<started, read>>
        /\ read[c].version = 0 \/ Expired(c) \/ IsLeader(c)'
    BY <1>6 DEF Decide
  <2>2. PastInv'
    BY <1>1, <1>4, <2>1 DEF LeaseInv, PastInv
  <2>3. MayTake(c, started[c], read[c].rec)
    <3>1. CASE read[c].version = 0
      BY <3>1, EmptyFacts DEF LeaseInv, PastInv, MayTake
    <3>2. CASE read[c].version # 0
      <4>1. observed'[c] = read[c].rec
        BY <3>2 DEF Decide, Observe, LeaseInv, LETypeOK
      <4>2. CASE IsLeader(c)'
        BY <4>1, <4>2 DEF IsLeader, MayTake
      <4>3. CASE Expired(c) /\ read[c].rec.holder # Nobody
        <5>1. /\ observedTime'[c] \in Int /\ read[c].rec.renew \in Nat
              /\ started[c] \in Nat /\ LeaseDuration \in Nat
          BY NumberFacts DEF LeaseInv, LETypeOK
        <5>2. /\ started[c] >= observedTime'[c] + LeaseDuration
              /\ read[c].rec.renew <= observedTime'[c]
          BY <1>3, <4>1, <4>3 DEF Expired
        <5>3. started[c] >= read[c].rec.renew + LeaseDuration
          BY <5>1, <5>2
        <5> QED BY <5>3 DEF MayTake
      <4> QED BY <2>1, <3>2, <4>2, <4>3 DEF MayTake
    <3> QED BY <3>1, <3>2
  <2>4. \A d \in Candidate : pc'[d] \in {"got", "write"} => pc[d] = pc'[d] \/ d = c
    BY <2>1 DEF LeaseInv, LETypeOK
  <2>5. \A d \in Candidate : IsCurrent(d)' <=> IsCurrent(d)
    BY <1>1, <2>1 DEF IsCurrent
  <2>6. UpdateInv'
    BY <1>1, <2>1, <2>3, <2>4, <2>5 DEF LeaseInv, UpdateInv, MayTake
  <2> QED BY <2>2, <2>6
<1> QED BY <1>5, <1>6

\* Time passes, or attempts begin.
LEMMA CalmKeeps ==
  ASSUME LeaseInv, LETypeOK', now' >= now,
         UNCHANGED <<lock, late, read, observed, observedTime>>,
         \A d \in Candidate : \/ pc'[d] = pc[d] /\ started'[d] = started[d]
                              \/ pc'[d] = "get" /\ started'[d] = now
  PROVE  PastInv' /\ UpdateInv'
<1>1. now \in Nat /\ now' \in Nat /\ \A n \in Nat : n <= now => n <= now'
  BY NumberFacts DEF LeaseInv, LETypeOK
<1>2. PastInv'
  <2>1. lock'.rec.renew <= now' /\ (lock'.version = 0 => lock'.rec = Empty)
    BY <1>1, NumberFacts DEF LeaseInv, PastInv
  <2>2. \A rec \in late' : rec.holder \in Candidate /\ rec.renew <= now'
    BY <1>1, NumberFacts DEF LeaseInv, PastInv
  <2>3. \A d \in Candidate : started'[d] <= now'
    BY <1>1, NumberFacts DEF LeaseInv, PastInv
  <2>4. \A d \in Candidate :
          /\ read'[d].rec.renew <= now'
          /\ read'[d].version = 0 => read'[d].rec = Empty
          /\ observed'[d].holder # Nobody => observed'[d].renew <= observedTime'[d]
    BY <1>1, NumberFacts DEF LeaseInv, PastInv
  <2> QED BY <2>1, <2>2, <2>3, <2>4 DEF PastInv
<1>3. UpdateInv'
  <2>1. \A d \in Candidate : pc'[d] \in {"got", "write"} =>
          pc[d] = pc'[d] /\ started'[d] = started[d]
    OBVIOUS
  <2>2. \A d \in Candidate : IsCurrent(d)' <=> IsCurrent(d)
    BY DEF IsCurrent
  <2> QED BY <2>1, <2>2 DEF LeaseInv, UpdateInv, MayTake
<1> QED BY <1>2, <1>3

LEMMA LeaseInit == LEInit => LeaseInv
<1> SUFFICES ASSUME LEInit PROVE LeaseInv
  OBVIOUS
<1>1. LETypeOK
  BY TypeInit
<1>2. lock.rec = Empty /\ late = {} /\ now = 0
  BY DEF LEInit
<1>3. PastInv
  BY <1>2, EmptyFacts DEF LEInit, PastInv
<1>4. UpdateInv
  BY <1>2 DEF LEInit, UpdateInv
<1> QED BY <1>1, <1>3, <1>4 DEF LeaseInv

LEMMA LeaseStep == LeaseInv /\ [LENext]_leVars => LeaseInv'
<1> SUFFICES ASSUME LeaseInv, [LENext]_leVars PROVE PastInv' /\ UpdateInv'
  BY TypeStep DEF LeaseInv
<1> USE DEF runVars, attemptVars, observedVars
<1>0. LETypeOK /\ LETypeOK' /\ now \in Nat
  BY TypeStep, NumberFacts DEF LeaseInv
<1>l. \A rec \in late : /\ rec.holder \in Candidate /\ rec.renew <= now
                        /\ MayTake(rec.holder, rec.renew, lock.rec)
  BY DEF LeaseInv, PastInv, UpdateInv
<1>o. \A d \in Candidate :
        observed[d].holder # Nobody => observed[d].renew <= observedTime[d]
  BY DEF LeaseInv, PastInv
<1>1. ASSUME NEW c \in Candidate, Begin(c) PROVE PastInv' /\ UpdateInv'
  <2>1. \A d \in Candidate : \/ pc'[d] = pc[d] /\ started'[d] = started[d]
                             \/ pc'[d] = "get" /\ started'[d] = now
    BY <1>0, <1>1 DEF Begin, LETypeOK
  <2> QED BY <1>0, <1>1, <2>1, CalmKeeps DEF Begin
<1>2. ASSUME NEW c \in Candidate, HandleGet(c) PROVE PastInv' /\ UpdateInv'
  <2>1. /\ pc' = [pc EXCEPT ![c] = "got"] /\ read' = [read EXCEPT ![c] = lock]
        /\ UNCHANGED <<now, lock, late, started, observed, observedTime>>
    BY <1>2 DEF HandleGet
  <2>2. \A d \in Candidate : \/ d # c /\ pc'[d] = pc[d] /\ read'[d] = read[d]
                             \/ d = c /\ pc'[d] = "got" /\ read'[d] = lock
    BY <1>0, <2>1 DEF LETypeOK
  <2>3. PastInv'
    BY <2>1, <2>2 DEF LeaseInv, PastInv
  <2>4. IsCurrent(c)'
    BY <1>0, <2>1, <2>2, NumberFacts DEF IsCurrent
  <2>5. \A d \in Candidate : d # c => (IsCurrent(d)' <=> IsCurrent(d))
    BY <2>1, <2>2 DEF IsCurrent
  <2> QED BY <2>1, <2>2, <2>3, <2>4, <2>5 DEF LeaseInv, UpdateInv, MayTake
<1>3. ASSUME NEW c \in Candidate, GetFails(c) PROVE PastInv' /\ UpdateInv'
  BY <1>3, <1>l, <1>o, ReturnKeeps DEF GetFails, Failed
<1>4. ASSUME NEW c \in Candidate, Decide(c) PROVE PastInv' /\ UpdateInv'
  BY <1>0, <1>4, DecideKeeps
<1>5. ASSUME NEW c \in Candidate, HandleUpdate(c) PROVE PastInv' /\ UpdateInv'
  <2>1. Written(c) \in Record /\ Written(c).holder = c /\ Written(c).renew <= now
    BY <1>0, WrittenFacts DEF LeaseInv, PastInv
  <2>2. \A d \in Candidate : pc'[d] = pc[d] \/ pc'[d] = "applied"
    BY <1>0, <1>5 DEF HandleUpdate, LETypeOK
  <2> QED BY <1>5, <2>1, <2>2, PutKeeps DEF HandleUpdate
<1>6. ASSUME NEW c \in Candidate, UpdateConflicts(c) PROVE PastInv' /\ UpdateInv'
  BY <1>6, <1>l, <1>o, ReturnKeeps DEF UpdateConflicts, Failed
<1>7. ASSUME NEW c \in Candidate, UpdateFails(c) PROVE PastInv' /\ UpdateInv'
  <2>1. Written(c).holder = c /\ Written(c).renew = started[c] /\ started[c] <= now
    BY <1>0, WrittenFacts DEF LeaseInv, PastInv
  <2>2. MayTake(c, started[c], lock.rec)
    BY <1>7 DEF UpdateFails, LeaseInv, UpdateInv, IsCurrent
  <2>3. \A rec \in late' : /\ rec.holder \in Candidate /\ rec.renew <= now
                           /\ MayTake(rec.holder, rec.renew, lock.rec)
    BY <1>7, <1>l, <2>1, <2>2 DEF UpdateFails
  <2> QED BY <1>7, <1>o, <2>3, ReturnKeeps DEF UpdateFails, Failed
<1>8. ASSUME NEW c \in Candidate, AnswerLost(c) PROVE PastInv' /\ UpdateInv'
  BY <1>8, <1>l, <1>o, ReturnKeeps DEF AnswerLost, Failed
<1>9. ASSUME NEW c \in Candidate, Succeeded(c) PROVE PastInv' /\ UpdateInv'
  <2>1. Written(c).renew = started[c] /\ started[c] <= now
    BY <1>0, WrittenFacts DEF LeaseInv, PastInv
  <2>2. \A d \in Candidate :
          \/ d # c /\ observed'[d] = observed[d] /\ observedTime'[d] = observedTime[d]
          \/ d = c /\ observed'[d] = Written(c) /\ observedTime'[d] = now
    BY <1>0, <1>9 DEF Succeeded, LETypeOK
  <2>3. \A d \in Candidate :
          observed'[d].holder # Nobody => observed'[d].renew <= observedTime'[d]
    BY <1>o, <2>1, <2>2
  <2> QED BY <1>9, <1>l, <2>3, ReturnKeeps DEF Succeeded
<1>10. ASSUME NEW c \in Candidate, BeginRound(c) PROVE PastInv' /\ UpdateInv'
  BY <1>0, <1>10, CalmKeeps DEF BeginRound
<1>11. ASSUME NEW c \in Candidate, RoundFails(c) PROVE PastInv' /\ UpdateInv'
  <2>1. \A d \in Candidate : \/ pc'[d] = pc[d] /\ started'[d] = started[d]
                             \/ pc'[d] = "get" /\ started'[d] = now
    BY <1>0, <1>11 DEF RoundFails, LETypeOK
  <2> QED BY <1>0, <1>11, <2>1, CalmKeeps DEF RoundFails
<1>12. ASSUME NEW c \in Candidate, Halt(c) PROVE PastInv' /\ UpdateInv'
  BY <1>0, <1>12, CalmKeeps DEF Halt
<1>13. CASE LateUpdate
  <2>1. PICK rec \in late : Put(rec)
    BY <1>13 DEF LateUpdate
  <2>2. rec \in Record
    BY <1>0 DEF LETypeOK
  <2> QED BY <1>13, <1>l, <2>1, <2>2, PutKeeps DEF LateUpdate
<1>14. CASE Tick
  BY <1>0, <1>14, CalmKeeps DEF Tick
<1>15. CASE UNCHANGED leVars
  BY <1>0, <1>15, CalmKeeps DEF leVars
<1> QED
  BY <1>1, <1>2, <1>3, <1>4, <1>5, <1>6, <1>7, <1>8, <1>9, <1>10, <1>11, <1>12,
     <1>13, <1>14, <1>15 DEF LENext, Attempt, Renew

LEMMA LeaseInvariant == LESpec => []LeaseInv
BY LeaseInit, LeaseStep, PTL DEF LESpec

\* Only an update changes the record.
LEMMA RecordChanges ==
  ASSUME LeaseInv, [LENext]_leVars
  PROVE  \/ lock' = lock
         \/ \E rec \in Record : /\ lock'.rec.holder = rec.holder /\ rec.renew <= now
                                /\ MayTake(rec.holder, rec.renew, lock.rec)
<1> USE DEF runVars, attemptVars, observedVars
<1>0. LETypeOK
  BY DEF LeaseInv
<1>1. CASE LateUpdate
  <2>1. PICK rec \in late : Put(rec)
    BY <1>1 DEF LateUpdate
  <2>2. /\ rec \in Record /\ rec.renew <= now
        /\ MayTake(rec.holder, rec.renew, lock.rec)
    BY DEF LeaseInv, LETypeOK, PastInv, UpdateInv
  <2>3. lock'.rec.holder = rec.holder
    BY <2>1, <2>2, StoredFacts DEF Put
  <2> QED BY <2>2, <2>3
<1>2. ASSUME NEW c \in Candidate, HandleUpdate(c)
      PROVE  \E rec \in Record : /\ lock'.rec.holder = rec.holder /\ rec.renew <= now
                                 /\ MayTake(rec.holder, rec.renew, lock.rec)
  <2>1. /\ Written(c) \in Record /\ Written(c).holder = c
        /\ Written(c).renew = started[c] /\ started[c] <= now
    BY <1>0, WrittenFacts DEF LeaseInv, PastInv
  <2>2. MayTake(c, started[c], lock.rec)
    BY <1>2 DEF HandleUpdate, LeaseInv, UpdateInv, IsCurrent
  <2>3. lock'.rec.holder = c
    BY <1>2, <2>1, StoredFacts DEF HandleUpdate, Put
  <2> QED BY <2>1, <2>2, <2>3
<1>3. ASSUME NEW c \in Candidate, Attempt(c) \/ Renew(c) \/ Halt(c), ~HandleUpdate(c)
      PROVE  lock' = lock
  BY <1>3 DEF Attempt, Renew, Halt, Begin, HandleGet, GetFails, Decide, UpdateConflicts,
              UpdateFails, AnswerLost, Succeeded, BeginRound, RoundFails, Failed
<1>4. CASE Tick \/ UNCHANGED leVars
  BY <1>4 DEF Tick, leVars
<1> QED BY <1>1, <1>2, <1>3, <1>4 DEF LENext

(***************************************************************************)
(* With any configuration, a holder whose last renewal was begun less than *)
(* LeaseDuration ago is not replaced (leaderelection.go:285-289).          *)
(***************************************************************************)
THEOREM LeaseIsRespected == LESpec => TakeoverAfterLease
<1>1. LeaseInv /\ [LENext]_leVars =>
        [\/ lock'.rec.holder = lock.rec.holder
         \/ lock.rec.holder = Nobody
         \/ now >= lock.rec.renew + LeaseDuration]_leVars
  <2> SUFFICES ASSUME LeaseInv, [LENext]_leVars, lock' # lock
               PROVE  \/ lock'.rec.holder = lock.rec.holder
                      \/ lock.rec.holder = Nobody
                      \/ now >= lock.rec.renew + LeaseDuration
    OBVIOUS
  <2>1. PICK rec \in Record : /\ lock'.rec.holder = rec.holder /\ rec.renew <= now
                              /\ MayTake(rec.holder, rec.renew, lock.rec)
    BY RecordChanges
  <2>2. rec.renew \in Nat /\ now \in Nat /\ lock.rec.renew \in Nat /\ LeaseDuration \in Nat
    BY NumberFacts DEF LeaseInv, Record
  <2> QED BY <2>1, <2>2 DEF MayTake
<1> QED BY <1>1, LeaseInvariant, PTL DEF LESpec, TakeoverAfterLease

-----------------------------------------------------------------------------
(* The leader: steps *)

\* As long as somebody leads, or is about to, the lease is not over.
LEMMA NoTakeover ==
  ASSUME LeaseIsSafe, LeaseInv, LeaderInv, NEW d \in Candidate,
         Leads(d) \/ (phase[d] # "stopped" /\ pc[d] = "applied"),
         NEW rec \in Record, rec.renew <= now, MayTake(rec.holder, rec.renew, lock.rec)
  PROVE  rec.holder = d
<1>0. /\ now \in Nat /\ lock.rec.renew \in Nat /\ rec.renew \in Nat
      /\ started[d] \in Nat /\ renewed[d] \in Nat /\ retryAt[d] \in Nat
      /\ deadline[d] \in Nat
  BY NumberFacts DEF LeaseInv, Record
<1>1. /\ LeaseDuration \in Nat /\ MaxLatency \in Nat /\ RetryPeriod \in Nat
      /\ RenewDeadline \in Nat /\ d # Nobody
      /\ LeaseDuration > MaxLatency + RetryPeriod + RenewDeadline
  BY ConfigAssumption, ModelAssumption DEF LeaseIsSafe
<1>2. ClientInv(d)
  BY DEF LeaderInv
<1>3. lock.rec.holder = d /\ now < lock.rec.renew + LeaseDuration
  <2>1. CASE Leads(d)
    <3>1. now <= renewed[d] + MaxLatency + RetryPeriod + RenewDeadline
      BY <1>0, <1>1, <1>2, <2>1 DEF ClientInv, LeadInTime
    <3>2. lock.rec.holder = d /\ renewed[d] <= lock.rec.renew
      BY <1>2, <2>1 DEF ClientInv, Holds
    <3> QED BY <1>0, <1>1, <3>1, <3>2
  <2>2. CASE phase[d] # "stopped" /\ pc[d] = "applied"
    <3>1. now <= started[d] + MaxLatency
      BY <1>2, <2>2 DEF ClientInv, AttemptInTime
    <3>2. lock.rec.holder = d /\ started[d] <= lock.rec.renew
      BY <1>2, <2>2 DEF ClientInv, Applied
    <3> QED BY <1>0, <1>1, <3>1, <3>2
  <2> QED BY <2>1, <2>2
<1> QED BY <1>0, <1>1, <1>3 DEF MayTake

\* What belongs to one client.
Mine(d) == <<phase[d], round[d], deadline[d], retryAt[d], renewed[d], pc[d], started[d],
             read[d], observed[d], observedTime[d], reported[d]>>

\* A step of somebody else that leaves the lock alone.
LEMMA OthersKeep ==
  ASSUME LeaderInv, NEW d \in Candidate, UNCHANGED <<now, lock>>, Mine(d)' = Mine(d),
         \A rec \in late' : rec \in late \/ rec.holder # d
  PROVE  ClientInv(d)'
<1>1. ClientInv(d)
  BY DEF LeaderInv
<1> USE DEF Mine
<1>2. Sequential(d)' /\ AttemptInTime(d)' /\ LeadInTime(d)'
  BY <1>1 DEF ClientInv, Sequential, AttemptInTime, LeadInTime, Leads
<1>3. Holds(d)' /\ Knows(d)'
  BY <1>1 DEF ClientInv, Holds, Knows, Leads
<1>4. Applied(d)'
  BY <1>1 DEF ClientInv, Applied
<1> QED BY <1>2, <1>3, <1>4 DEF ClientInv

\* An update the server takes, seen by a client that does not wait for it.
LEMMA PutSpares ==
  ASSUME LeaseIsSafe, LeaseInv, LeaderInv, NEW d \in Candidate, NEW rec \in Record,
         Put(rec), now' = now, Mine(d)' = Mine(d),
         rec.renew <= now, MayTake(rec.holder, rec.renew, lock.rec),
         rec.holder = d => rec \in late
  PROVE  ClientInv(d)'
<1>1. ClientInv(d)
  BY DEF LeaderInv
<1>2. lock'.rec.holder = rec.holder /\ lock'.rec.renew = rec.renew /\ late' = {}
  BY StoredFacts DEF Put
<1>3. Holds(d)'
  <2> SUFFICES ASSUME Leads(d) PROVE lock'.rec.holder = d /\ renewed[d] <= lock'.rec.renew
    BY DEF Holds, Leads, Mine
  <2>1. rec.holder = d
    BY NoTakeover
  <2>2. renewed[d] <= rec.renew
    BY <2>1 DEF LeaderInv
  <2> QED BY <1>2, <2>1, <2>2
<1>4. Applied(d)'
  <2> SUFFICES ASSUME phase[d] # "stopped", pc[d] = "applied" PROVE FALSE
    BY DEF Applied, Mine
  <2>1. rec.holder = d
    BY NoTakeover
  <2> QED BY <1>1, <2>1 DEF ClientInv, Applied
<1> USE DEF Mine
<1>5. Sequential(d)' /\ AttemptInTime(d)' /\ LeadInTime(d)'
  BY <1>1 DEF ClientInv, Sequential, AttemptInTime, LeadInTime, Leads
<1>6. Knows(d)'
  BY <1>1 DEF ClientInv, Knows, Leads
<1> QED BY <1>3, <1>4, <1>5, <1>6 DEF ClientInv

\* An attempt of c that fails.
LEMMA FailedKeeps ==
  ASSUME LeaseInv, LeaderInv, NEW c \in Candidate, Failed(c),
         Leads(c) => observed'[c].holder = c /\ renewed[c] <= observedTime'[c]
  PROVE  ClientInv(c)'
<1>1. ClientInv(c) /\ LETypeOK
  BY DEF LeaderInv, LeaseInv
<1>2. /\ pc'[c] = "idle" /\ UNCHANGED <<now, lock, phase, round, deadline, renewed>>
  BY <1>1 DEF Failed, Return, LETypeOK
<1>3. Leads(c) => UNCHANGED <<retryAt, reported>>
  BY DEF Failed, Leads
<1>4. Sequential(c)' /\ AttemptInTime(c)' /\ Applied(c)'
  BY <1>1, <1>2 DEF ClientInv, Sequential, AttemptInTime, Applied
<1>5. LeadInTime(c)'
  BY <1>1, <1>2, <1>3 DEF ClientInv, LeadInTime, Leads
<1>6. Holds(c)' /\ Knows(c)'
  BY <1>1, <1>2, <1>3 DEF ClientInv, Holds, Knows, Leads
<1> QED BY <1>4, <1>5, <1>6 DEF ClientInv

\* A step of c changes only what belongs to c.
LEMMA OnlyMine ==
  ASSUME LETypeOK, NEW c \in Candidate, Attempt(c) \/ Renew(c) \/ Halt(c),
         NEW d \in Candidate, d # c
  PROVE  Mine(d)' = Mine(d)
<1> USE DEF runVars, attemptVars, observedVars, Mine, LETypeOK
<1>f. ASSUME Failed(c), observed'[d] = observed[d], observedTime'[d] = observedTime[d]
      PROVE  Mine(d)' = Mine(d)
  <2>1. retryAt'[d] = retryAt[d] /\ reported'[d] = reported[d]
    BY <1>f DEF Failed, Report
  <2>2. pc'[d] = pc[d] /\ started'[d] = started[d] /\ read'[d] = read[d]
    BY <1>f DEF Failed, Return
  <2> QED BY <1>f, <2>1, <2>2 DEF Failed
<1>1. CASE Begin(c) \/ HandleGet(c) \/ HandleUpdate(c) \/ BeginRound(c) \/ Halt(c)
  BY <1>1 DEF Begin, HandleGet, HandleUpdate, BeginRound, Halt, Leave
<1>2. CASE GetFails(c) \/ UpdateConflicts(c) \/ UpdateFails(c) \/ AnswerLost(c)
  BY <1>2, <1>f DEF GetFails, UpdateConflicts, UpdateFails, AnswerLost
<1>3. CASE Decide(c)
  <2>1. observed'[d] = observed[d] /\ observedTime'[d] = observedTime[d]
    BY <1>3 DEF Decide, Observe
  <2>2. CASE Failed(c)
    BY <1>f, <2>1, <2>2
  <2>3. CASE ~Failed(c)
    BY <1>3, <2>1, <2>3 DEF Decide
  <2> QED BY <2>2, <2>3
<1>4. CASE Succeeded(c)
  <2>1. /\ pc'[d] = pc[d] /\ started'[d] = started[d] /\ read'[d] = read[d]
        /\ observed'[d] = observed[d] /\ observedTime'[d] = observedTime[d]
    BY <1>4 DEF Succeeded, Return
  <2>2. /\ phase'[d] = phase[d] /\ round'[d] = round[d] /\ deadline'[d] = deadline[d]
        /\ retryAt'[d] = retryAt[d] /\ renewed'[d] = renewed[d]
        /\ reported'[d] = reported[d]
    BY <1>4 DEF Succeeded, Report
  <2> QED BY <2>1, <2>2
<1>5. CASE RoundFails(c)
  <2>1. /\ phase'[d] = phase[d] /\ round'[d] = round[d] /\ deadline'[d] = deadline[d]
        /\ retryAt'[d] = retryAt[d] /\ reported'[d] = reported[d]
    BY <1>5 DEF RoundFails, Leave, Report
  <2>2. pc'[d] = pc[d] /\ started'[d] = started[d]
    BY <1>5 DEF RoundFails
  <2> QED BY <1>5, <2>1, <2>2 DEF RoundFails
<1> QED BY <1>1, <1>2, <1>3, <1>4, <1>5 DEF Attempt, Renew

LEMMA LeaderInit == LEInit => LeaderInv
<1> SUFFICES ASSUME LEInit PROVE LeaderInv
  OBVIOUS
<1>1. late = {} /\ now = 0
  BY DEF LEInit
<1>2. ASSUME NEW c \in Candidate PROVE ClientInv(c)
  <2>1. phase[c] = "acquire" /\ pc[c] = "idle" /\ renewed[c] = 0
    BY DEF LEInit
  <2> QED BY <1>1, <2>1 DEF ClientInv, Sequential, AttemptInTime, LeadInTime, Holds,
                            Applied, Knows, Leads
<1> QED BY <1>1, <1>2 DEF LeaderInv

\* The client that acts.
LEMMA ActorKeeps ==
  ASSUME LeaseIsSafe, LeaseInv, LeaderInv, NEW c \in Candidate,
         Attempt(c) \/ Renew(c) \/ Halt(c)
  PROVE  ClientInv(c)'
<1> USE DEF runVars, attemptVars, observedVars
<1>0. LETypeOK /\ ClientInv(c)
  BY DEF LeaseInv, LeaderInv
<1>n. /\ now \in Nat /\ started[c] \in Nat /\ renewed[c] \in Nat /\ retryAt[c] \in Nat
      /\ deadline[c] \in Nat /\ observedTime[c] \in Int
      /\ MaxLatency \in Nat /\ RetryPeriod \in Nat /\ RenewDeadline \in Nat
      /\ started[c] <= now /\ renewed[c] <= now
      /\ pc[c] # "idle" => renewed[c] <= started[c]
  BY <1>0, NumberFacts, ConfigAssumption, ModelAssumption
     DEF LeaseInv, PastInv, ClientInv, Sequential
<1>k. Leads(c) => observed[c].holder = c /\ renewed[c] <= observedTime[c]
  BY <1>0 DEF ClientInv, Knows
<1>1. CASE Begin(c)
  <2>1. /\ pc'[c] = "get" /\ started'[c] = now
        /\ UNCHANGED <<now, lock, late, phase, round, deadline, renewed, read,
                       observed, observedTime, reported>>
        /\ Leads(c) => round[c]
    BY <1>0, <1>1 DEF Begin, Leads, LETypeOK
  <2>2. Sequential(c)' /\ AttemptInTime(c)' /\ LeadInTime(c)'
    BY <1>0, <1>n, <2>1 DEF ClientInv, Sequential, AttemptInTime, LeadInTime, Leads
  <2>3. Holds(c)' /\ Applied(c)' /\ Knows(c)'
    BY <1>0, <2>1 DEF ClientInv, Holds, Applied, Knows, Leads
  <2> QED BY <2>2, <2>3 DEF ClientInv
<1>2. CASE HandleGet(c)
  <2>1. /\ pc[c] = "get" /\ pc'[c] = "got" /\ read'[c] = lock
        /\ UNCHANGED <<now, lock, late, phase, round, deadline, retryAt, renewed,
                       started, observed, observedTime, reported>>
    BY <1>0, <1>2 DEF HandleGet, LETypeOK
  <2>2. Sequential(c)' /\ AttemptInTime(c)' /\ LeadInTime(c)'
    BY <1>0, <2>1 DEF ClientInv, Sequential, AttemptInTime, LeadInTime, Leads
  <2>3. Holds(c)' /\ Applied(c)' /\ Knows(c)'
    BY <1>0, <2>1 DEF ClientInv, Holds, Applied, Knows, Leads
  <2> QED BY <2>2, <2>3 DEF ClientInv
<1>3. CASE GetFails(c) \/ UpdateConflicts(c) \/ UpdateFails(c) \/ AnswerLost(c)
  BY <1>3, <1>k, FailedKeeps DEF GetFails, UpdateConflicts, UpdateFails, AnswerLost
<1>4. CASE Decide(c)
  <2>1. Leads(c) => observed'[c].holder = c /\ renewed[c] <= observedTime'[c]
    <3> SUFFICES ASSUME Leads(c)
                 PROVE  observed'[c].holder = c /\ renewed[c] <= observedTime'[c]
      OBVIOUS
    <3>1. read[c].rec.holder = c
      BY <1>0, <1>4 DEF Decide, ClientInv, Knows
    <3>2. \/ observed'[c] = observed[c] /\ observedTime'[c] = observedTime[c]
          \/ observed'[c] = read[c].rec /\ observedTime'[c] \in {observedTime[c], now}
      BY <1>0, <1>4 DEF Decide, Observe, LETypeOK
    <3> QED BY <1>n, <1>k, <3>1, <3>2
  <2>2. CASE Failed(c)
    BY <2>1, <2>2, FailedKeeps
  <2>3. CASE ~Failed(c)
    <3>1. /\ pc[c] = "got" /\ pc'[c] = "write"
          /\ UNCHANGED <<now, lock, late, phase, round, deadline, retryAt, renewed,
                         started, read, reported>>
      BY <1>0, <1>4, <2>3 DEF Decide, LETypeOK
    <3>2. Sequential(c)' /\ AttemptInTime(c)' /\ LeadInTime(c)'
      BY <1>0, <3>1 DEF ClientInv, Sequential, AttemptInTime, LeadInTime, Leads
    <3>3. Holds(c)' /\ Applied(c)' /\ Knows(c)'
      BY <1>0, <2>1, <3>1 DEF ClientInv, Holds, Applied, Knows, Leads
    <3> QED BY <3>2, <3>3 DEF ClientInv
  <2> QED BY <2>2, <2>3
<1>5. CASE HandleUpdate(c)
  <2>1. /\ pc[c] = "write" /\ pc'[c] = "applied" /\ Put(Written(c))
        /\ UNCHANGED <<now, phase, round, deadline, retryAt, renewed, started, read,
                       observed, observedTime, reported>>
    BY <1>0, <1>5 DEF HandleUpdate, LETypeOK
  <2>2. lock'.rec.holder = c /\ lock'.rec.renew = started[c] /\ late' = {}
    BY <1>0, <2>1, WrittenFacts, StoredFacts DEF Put
  <2>3. Sequential(c)' /\ AttemptInTime(c)' /\ LeadInTime(c)'
    BY <1>0, <2>1 DEF ClientInv, Sequential, AttemptInTime, LeadInTime, Leads
  <2>4. Holds(c)' /\ Applied(c)'
    BY <1>n, <2>1, <2>2 DEF Holds, Applied
  <2>5. Knows(c)'
    BY <1>0, <2>1 DEF ClientInv, Knows, Leads
  <2> QED BY <2>3, <2>4, <2>5 DEF ClientInv
<1>6. CASE Succeeded(c)
  <2>1. /\ pc[c] = "applied" /\ pc'[c] = "idle" /\ UNCHANGED <<now, lock, late>>
        /\ observed'[c] = Written(c) /\ observedTime'[c] = now
    BY <1>0, <1>6 DEF Succeeded, Return, LETypeOK
  <2>2. CASE phase[c] = "stopped"
    <3>1. phase'[c] = "stopped" /\ renewed' = renewed
      BY <1>6, <2>2 DEF Succeeded
    <3> QED BY <1>n, <2>1, <3>1 DEF ClientInv, Sequential, AttemptInTime, LeadInTime,
                                    Holds, Applied, Knows, Leads
  <2>3. CASE phase[c] # "stopped"
    <3>1. /\ phase'[c] = "lead" /\ ~round'[c] /\ renewed'[c] = started[c]
          /\ retryAt'[c] \in {now, now + RetryPeriod} /\ reported'[c] = c
      <4>1. reported'[c] = c
        BY <1>0, <1>6, <2>3, WrittenFacts DEF Succeeded, Report, LETypeOK
      <4> QED BY <1>0, <1>6, <2>3, <4>1 DEF Succeeded, LETypeOK
    <3>2. now <= started[c] + MaxLatency
      BY <1>0, <2>1, <2>3 DEF ClientInv, AttemptInTime
    <3>3. Sequential(c)' /\ AttemptInTime(c)' /\ Applied(c)'
      BY <1>n, <2>1, <3>1 DEF Sequential, AttemptInTime, Applied
    <3>4. LeadInTime(c)'
      BY <1>n, <2>1, <3>1, <3>2 DEF LeadInTime
    <3>5. Holds(c)'
      BY <1>0, <2>1, <2>3, <3>1 DEF ClientInv, Applied, Holds
    <3>6. Knows(c)'
      BY <1>0, <1>n, <2>1, <3>1, WrittenFacts DEF Knows
    <3> QED BY <3>3, <3>4, <3>5, <3>6 DEF ClientInv
  <2> QED BY <2>2, <2>3
<1>7. CASE BeginRound(c)
  <2>1. /\ Leads(c) /\ ~round[c] /\ round'[c] /\ deadline'[c] = now + RenewDeadline
        /\ UNCHANGED <<now, lock, late, phase, retryAt, renewed, pc, started, read,
                       observed, observedTime, reported>>
    BY <1>0, <1>7 DEF BeginRound, Leads, LETypeOK
  <2>2. now <= renewed[c] + MaxLatency + RetryPeriod
    BY <1>0, <1>n, <2>1 DEF ClientInv, LeadInTime
  <2>3. LeadInTime(c)'
    BY <1>n, <2>1, <2>2 DEF LeadInTime
  <2>4. Sequential(c)' /\ AttemptInTime(c)' /\ Holds(c)' /\ Applied(c)' /\ Knows(c)'
    BY <1>0, <2>1 DEF ClientInv, Sequential, AttemptInTime, Holds, Applied, Knows, Leads
  <2> QED BY <2>3, <2>4 DEF ClientInv
<1>8. CASE RoundFails(c) \/ Halt(c)
  <2>1. phase'[c] = "stopped" /\ UNCHANGED <<now, renewed>>
    BY <1>0, <1>8 DEF RoundFails, Halt, Leave, LETypeOK
  <2>2. (pc'[c] = pc[c] /\ started'[c] = started[c]) \/ started'[c] = now
    BY <1>0, <1>8 DEF RoundFails, Halt, LETypeOK
  <2> QED BY <1>n, <2>1, <2>2 DEF ClientInv, Sequential, AttemptInTime, LeadInTime,
                                  Holds, Applied, Knows, Leads
<1> QED BY <1>1, <1>2, <1>3, <1>4, <1>5, <1>6, <1>7, <1>8 DEF Attempt, Renew

\* Updates that may still be handled are no older than what their senders
\* have achieved since.
LEMMA LateKeeps ==
  ASSUME LeaseInv, LeaderInv, NEW c \in Candidate, Attempt(c) \/ Renew(c) \/ Halt(c)
  PROVE  \A rec \in late' : renewed'[rec.holder] <= rec.renew
<1> USE DEF runVars, attemptVars, observedVars
<1>0. /\ LETypeOK /\ ClientInv(c)
      /\ \A rec \in late : rec.holder \in Candidate /\ renewed[rec.holder] <= rec.renew
  BY DEF LeaseInv, LeaderInv, PastInv
<1>1. CASE UpdateFails(c)
  <2>1. renewed' = renewed /\ renewed[c] <= started[c]
    BY <1>0, <1>1 DEF UpdateFails, Failed, ClientInv, Sequential
  <2> QED BY <1>0, <1>1, <2>1, WrittenFacts DEF UpdateFails
<1>2. CASE Succeeded(c)
  <2>1. late' = late
    BY <1>2 DEF Succeeded
  <2>2. CASE phase[c] = "stopped"
    BY <1>0, <1>2, <2>1, <2>2 DEF Succeeded
  <2>3. CASE phase[c] # "stopped"
    <3>1. \A rec \in late : rec.holder # c
      BY <1>0, <1>2, <2>3 DEF Succeeded, ClientInv, Applied
    <3>2. \A d \in Candidate : d # c => renewed'[d] = renewed[d]
      BY <1>0, <1>2, <2>3 DEF Succeeded, LETypeOK
    <3> QED BY <1>0, <2>1, <3>1, <3>2
  <2> QED BY <2>2, <2>3
<1>3. CASE ~UpdateFails(c) /\ ~Succeeded(c)
  <2>1. renewed' = renewed /\ (late' = late \/ late' = {})
    BY <1>3 DEF Attempt, Renew, Halt, Begin, HandleGet, GetFails, Decide, HandleUpdate,
                Put, UpdateConflicts, AnswerLost, BeginRound, RoundFails, Failed
  <2> QED BY <1>0, <2>1
<1> QED BY <1>1, <1>2, <1>3

LEMMA TickKeeps ==
  ASSUME LeaseInv, LeaderInv, Tick
  PROVE  LeaderInv'
<1> USE DEF runVars, attemptVars, observedVars
<1>1. ASSUME NEW c \in Candidate PROVE ClientInv(c)'
  <2>1. LETypeOK /\ ClientInv(c) /\ InTime(c)
    BY DEF LeaseInv, LeaderInv, Tick
  <2>2. /\ now \in Nat /\ now' = now + 1 /\ started[c] \in Nat /\ renewed[c] \in Nat
        /\ retryAt[c] \in Nat /\ deadline[c] \in Nat /\ MaxLatency \in Nat
    BY <2>1, NumberFacts, ModelAssumption DEF Tick
  <2>3. UNCHANGED <<lock, late, phase, round, deadline, retryAt, renewed, pc, started,
                    read, observed, observedTime, reported>>
    BY DEF Tick
  <2>4. Sequential(c)' /\ AttemptInTime(c)'
    BY <2>1, <2>2, <2>3 DEF ClientInv, Sequential, AttemptInTime, InTime
  <2>5. LeadInTime(c)'
    BY <2>1, <2>2, <2>3 DEF ClientInv, LeadInTime, InTime, Leads
  <2>6. Holds(c)' /\ Applied(c)' /\ Knows(c)'
    BY <2>1, <2>3 DEF ClientInv, Holds, Applied, Knows, Leads
  <2> QED BY <2>4, <2>5, <2>6 DEF ClientInv
<1>2. \A rec \in late' : renewed'[rec.holder] <= rec.renew
  BY DEF Tick, LeaderInv
<1> QED BY <1>1, <1>2 DEF LeaderInv

LEMMA LeaderStep ==
  ASSUME LeaseIsSafe, LeaseInv, LeaderInv, [LENext]_leVars
  PROVE  LeaderInv'
<1> USE DEF runVars, attemptVars, observedVars
<1>0. LETypeOK
  BY DEF LeaseInv
<1>1. ASSUME NEW c \in Candidate, Attempt(c) \/ Renew(c) \/ Halt(c)
      PROVE  LeaderInv'
  <2>1. ASSUME NEW d \in Candidate, d # c PROVE ClientInv(d)'
    <3>1. Mine(d)' = Mine(d) /\ now' = now
      <4>1. now' = now
        BY <1>1 DEF Attempt, Renew, Halt, Begin, HandleGet, GetFails, Decide,
                    HandleUpdate, UpdateConflicts, UpdateFails, AnswerLost, Succeeded,
                    BeginRound, RoundFails, Failed
      <4> QED BY <1>0, <1>1, <2>1, <4>1, OnlyMine
    <3>2. CASE HandleUpdate(c)
      <4>1. /\ Written(c) \in Record /\ Written(c).holder = c
            /\ Written(c).renew = started[c] /\ started[c] <= now
        BY <1>0, WrittenFacts DEF LeaseInv, PastInv
      <4>2. MayTake(c, started[c], lock.rec) /\ Put(Written(c))
        BY <3>2 DEF HandleUpdate, LeaseInv, UpdateInv, IsCurrent
      <4> QED BY <2>1, <3>1, <4>1, <4>2, PutSpares
    <3>3. CASE ~HandleUpdate(c)
      <4>1. lock' = lock /\ (late' \subseteq late \/ UpdateFails(c))
        BY <1>1, <3>3 DEF Attempt, Renew, Halt, Begin, HandleGet, GetFails, Decide,
                          UpdateConflicts, UpdateFails, AnswerLost, Succeeded,
                          BeginRound, RoundFails, Failed
      <4>2. \A rec \in late' : rec \in late \/ rec.holder # d
        BY <1>0, <2>1, <4>1, WrittenFacts DEF UpdateFails
      <4> QED BY <3>1, <4>1, <4>2, OthersKeep
    <3> QED BY <3>2, <3>3
  <2>2. ClientInv(c)'
    BY <1>1, ActorKeeps
  <2>3. \A rec \in late' : renewed'[rec.holder] <= rec.renew
    BY <1>1, LateKeeps
  <2> QED BY <2>1, <2>2, <2>3 DEF LeaderInv
<1>2. CASE LateUpdate
  <2>1. PICK rec \in late : Put(rec)
    BY <1>2 DEF LateUpdate
  <2>2. /\ rec \in Record /\ rec.renew <= now
        /\ MayTake(rec.holder, rec.renew, lock.rec)
    BY DEF LeaseInv, LETypeOK, PastInv, UpdateInv
  <2>3. ASSUME NEW d \in Candidate PROVE ClientInv(d)'
    <3>1. Mine(d)' = Mine(d) /\ now' = now
      BY <1>2 DEF LateUpdate, Mine
    <3> QED BY <2>1, <2>2, <3>1, PutSpares
  <2>4. late' = {}
    BY <2>1 DEF Put
  <2> QED BY <2>3, <2>4 DEF LeaderInv
<1>3. CASE Tick
  BY <1>3, TickKeeps
<1>4. CASE UNCHANGED leVars
  <2>1. ASSUME NEW d \in Candidate PROVE ClientInv(d)'
    <3>1. Mine(d)' = Mine(d) /\ UNCHANGED <<now, lock, late>>
      BY <1>4 DEF leVars, Mine
    <3> QED BY <3>1, OthersKeep
  <2> QED BY <1>4, <2>1 DEF leVars, LeaderInv
<1> QED BY <1>1, <1>2, <1>3, <1>4 DEF LENext

\* What the invariant says of leaders.
LEMMA LeaderFacts ==
  ASSUME LeaseIsSafe, LeaseInv, LeaderInv
  PROVE  AtMostOneLeader /\ LeaderHoldsLock /\ LeaderIsHealthy
<1>1. LeaderHoldsLock
  BY DEF LeaderInv, ClientInv, Holds, Knows, LeaderHoldsLock, IsLeader
<1>2. AtMostOneLeader
  BY <1>1 DEF LeaderHoldsLock, AtMostOneLeader
<1>3. ASSUME NEW c \in Candidate, Leads(c) PROVE now - observedTime[c] <= LeaseDuration
  <2>1. /\ now \in Nat /\ renewed[c] \in Nat /\ retryAt[c] \in Nat
        /\ deadline[c] \in Nat /\ observedTime[c] \in Int
        /\ LeaseDuration \in Nat /\ MaxLatency \in Nat /\ RetryPeriod \in Nat
        /\ RenewDeadline \in Nat
        /\ LeaseDuration > MaxLatency + RetryPeriod + RenewDeadline
    BY NumberFacts, ConfigAssumption, ModelAssumption DEF LeaseInv, LeaseIsSafe
  <2>2. ClientInv(c)
    BY DEF LeaderInv
  <2>3. now <= renewed[c] + MaxLatency + RetryPeriod + RenewDeadline
    BY <1>3, <2>1, <2>2 DEF ClientInv, LeadInTime
  <2>4. renewed[c] <= observedTime[c]
    BY <1>3, <2>2 DEF ClientInv, Knows
  <2> QED BY <2>1, <2>3, <2>4
<1> QED BY <1>1, <1>2, <1>3 DEF LeaderIsHealthy

(***************************************************************************)
(* If LeaseDuration exceeds MaxLatency + RetryPeriod + RenewDeadline, at   *)
(* most one client leads at any time, the leader is the holder of the lock *)
(* and knows it, and its health check passes, whatever calls are lost or   *)
(* late (renew and tryAcquireOrRenew, leaderelection.go:221-310).  The     *)
(* validation of NewLeaderElector alone is not enough: ElectionOverlap.cfg.*)
(***************************************************************************)
THEOREM LeadersExclude ==
  ASSUME LeaseIsSafe
  PROVE  LESpec => [](AtMostOneLeader /\ LeaderHoldsLock /\ LeaderIsHealthy)
<1>1. LEInit => LeaderInv
  BY LeaderInit
<1>2. LeaseInv /\ LeaderInv /\ [LENext]_leVars => LeaderInv'
  BY LeaderStep
<1>3. LeaseInv /\ LeaderInv => AtMostOneLeader /\ LeaderHoldsLock /\ LeaderIsHealthy
  BY LeaderFacts
<1> QED BY <1>1, <1>2, <1>3, LeaseInvariant, PTL DEF LESpec

\* Under the same condition a leader is always the one whom the lock names
\* (IsLeader, leaderelection.go:194-196).
THEOREM LeadersHoldTheLock ==
  ASSUME LeaseIsSafe
  PROVE  LESpec => []LeaderHoldsLock
BY LeadersExclude, PTL

\* Under the same condition a leader never fails its own health check for
\* reasons of time (Check, leaderelection.go:323-336).
THEOREM LeadersAreHealthy ==
  ASSUME LeaseIsSafe
  PROVE  LESpec => []LeaderIsHealthy
BY LeadersExclude, PTL
=============================================================================
