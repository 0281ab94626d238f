----------------------------- MODULE CacherProofs -----------------------------
(***************************************************************************)
(* The store and the watch cache of the API server, for any objects,       *)
(* goroutines, capacities and number of revisions: every answer of the     *)
(* store is true of etcd, and no watch misses, repeats or reorders events. *)
(***************************************************************************)
EXTENDS Cacher, SequenceTheorems, WellFoundedInduction, TLAPS

-----------------------------------------------------------------------------
(* The log of etcd *)

\* A set of natural numbers that is bounded has a greatest one.
LEMMA MaxExists ==
  ASSUME NEW n \in Nat, NEW S, S \subseteq 0..n, S # {}
  PROVE  Max(S) \in S /\ \A y \in S : y <= Max(S)
<1> DEFINE B == {b \in Nat : \A y \in S : y <= b}
<1>1. n \in B /\ B \subseteq Nat /\ B # {}
  OBVIOUS
<1>2. PICK b \in B : \A y \in B : ~(<<y, b>> \in OpToRel(<, Nat))
  <2> HIDE DEF B
  <2> QED  BY <1>1, NatLessThanWellFounded, WFMin
<1>3. \A y \in B : ~(y < b)
  BY <1>1, <1>2 DEF OpToRel
<1>4. b \in S
  <2> SUFFICES ASSUME b \notin S PROVE FALSE
    OBVIOUS
  <2>1. \A y \in S : y \in Nat /\ y <= b - 1
    <3>1. b \in Nat /\ \A y \in S : y \in Nat /\ y <= b /\ y # b
      <4>1. b \in Nat /\ \A y \in S : y <= b
        BY <1>1, <1>2
      <4>2. \A y \in S : y \in Nat /\ y # b
        OBVIOUS
      <4> QED  BY <4>1, <4>2, Zenon
    <3> HIDE DEF B
    <3>2. ASSUME NEW y \in Nat, NEW x \in Nat, y <= x, y # x PROVE y <= x - 1
      BY <3>2
    <3> QED  BY <3>1, <3>2
  <2>2. b \in Nat /\ b # 0
    <3>1. PICK y \in S : y \in Nat /\ y <= b - 1
      BY <2>1
    <3>2. b \in Nat
      BY <1>1
    <3> QED  BY <3>1, <3>2
  <2>3. b - 1 \in B /\ b - 1 < b
    BY <2>1, <2>2
  <2> QED  BY <1>3, <2>3
<1>5. b \in S /\ \A y \in S : b >= y
  BY <1>4
<1>6. \A y \in S : Max(S) >= y /\ Max(S) \in S
  BY <1>5 DEF Max
<1> QED  BY <1>5, <1>6

LogOK == log \in Seq(Val \cup {None}) /\ Len(log) # 0

\* The object of a revision is the one of the last that changed it.
LEMMA ModRevFacts ==
  ASSUME LogOK, NEW r \in 1..Rev
  PROVE  /\ ModRev(r) \in 0..r
         /\ ModRev(r) = 0 <=> log[r] = None
         /\ log[r] # None => /\ Changed(ModRev(r)) /\ log[ModRev(r)] = log[r]
                             /\ \A q \in 1..r : q > ModRev(r) => ~Changed(q)
<1> DEFINE S == {q \in 1..r : Changed(q)}
           m == Max(S)
<1>1. Rev \in Nat /\ r \in Nat /\ 1 \in S /\ S \subseteq 0..r
  BY DEF LogOK, Rev, Changed
<1>2. m \in S /\ \A y \in S : y <= m
  <2> HIDE DEF S
  <2> QED  BY <1>1, MaxExists
<1>3. m \in 1..r /\ Changed(m) /\ \A q \in 1..r : q > m => ~Changed(q)
  <2>1. m \in 1..r /\ Changed(m)
    BY <1>2
  <2>2. \A q \in 1..r : Changed(q) => q <= m
    BY <1>2
  <2> HIDE DEF m
  <2> QED  BY <2>1, <2>2
<1>4. log[m] = log[r]
  <2> SUFFICES ASSUME log[m] # log[r] PROVE FALSE
    OBVIOUS
  <2> HIDE DEF m, S
  <2> DEFINE D == {i \in m..r : log[i] # log[r]}
  <2>1. m \in D /\ D \subseteq 0..r
    BY <1>3
  <2>2. PICK i \in D : \A y \in D : y <= i
    <3> HIDE DEF D
    <3> QED  BY <1>1, <2>1, MaxExists
  <2>3. i \in m..r /\ i # r /\ log[i] # log[r]
    BY <2>2
  <2>4. i + 1 \in m..r /\ i + 1 \in 1..r /\ i + 1 > m /\ i + 1 # 1 /\ (i + 1) - 1 = i
    BY <1>3, <2>3
  <2>5. i + 1 \notin D
    <3>1. i + 1 \in D => i + 1 <= i
      BY <2>2
    <3> QED  BY <1>3, <2>3, <3>1
  <2>6. log[i + 1] = log[r]
    BY <2>4, <2>5
  <2>7. Changed(i + 1)
    BY <2>3, <2>4, <2>6 DEF Changed
  <2> QED  BY <1>3, <2>4, <2>7
<1>5. ModRev(r) = IF log[r] = None THEN 0 ELSE m
  BY DEF ModRev
<1> HIDE DEF m, S
<1>6. CASE log[r] = None
  BY <1>1, <1>5, <1>6
<1>7. CASE log[r] # None
  BY <1>3, <1>4, <1>5, <1>7
<1> QED  BY <1>6, <1>7

\* What was known of the object at a revision does not change.
LEMMA LogGrows ==
  ASSUME LogOK, NEW v \in Val \cup {None}, log' = Append(log, v)
  PROVE  /\ LogOK' /\ Rev' = Rev + 1 /\ log'[Rev + 1] = v
         /\ \A r \in 1..Rev : /\ log'[r] = log[r] /\ ModRev(r)' = ModRev(r)
                              /\ Changed(r)' <=> Changed(r)
         /\ \A o \in 0..Rev : Uid(o)' = Uid(o) /\ Value(o)' = Value(o)
<1>1. /\ Rev \in Nat /\ LogOK' /\ Rev' = Rev + 1 /\ log'[Rev + 1] = v
      /\ \A r \in 1..Rev : log'[r] = log[r]
  BY DEF LogOK, Rev
<1>2. ASSUME NEW r \in 1..Rev PROVE Changed(r)' <=> Changed(r)
  <2>1. r = 1 \/ r - 1 \in 1..Rev
    BY <1>1
  <2> QED  BY <1>1, <2>1 DEF Changed
<1>3. ASSUME NEW r \in 1..Rev PROVE ModRev(r)' = ModRev(r)
  <2>1. {q \in 1..r : Changed(q)}' = {q \in 1..r : Changed(q)}
    <3>1. \A q \in 1..r : q \in 1..Rev
      BY <1>1
    <3> QED  BY <1>2, <3>1
  <2> QED  BY <1>1, <2>1 DEF ModRev
<1>4. ASSUME NEW o \in 0..Rev PROVE Uid(o)' = Uid(o)
  <2>1. \A q \in 1..o : q \in 1..Rev /\ (q = 1 \/ q - 1 \in 1..Rev)
    BY <1>1
  <2>2. \A q \in 1..o : log'[q] = log[q] /\ (q # 1 => log'[q - 1] = log[q - 1])
    BY <1>1, <2>1
  <2>3. {q \in 1..o : log[q] # None /\ (q = 1 \/ log[q - 1] = None)}'
          = {q \in 1..o : log[q] # None /\ (q = 1 \/ log[q - 1] = None)}
    BY <2>2
  <2> QED  BY <2>3 DEF Uid
<1>5. ASSUME NEW o \in 0..Rev PROVE Value(o)' = Value(o)
  <2>1. o = 0 \/ o \in 1..Rev
    BY <1>1
  <2> QED  BY <1>1, <2>1 DEF Value
<1> QED  BY <1>1, <1>2, <1>3, <1>4, <1>5

\* An object that is there was created.
LEMMA UidIsNat ==
  ASSUME LogOK, NEW r \in 1..Rev
  PROVE  Uid(ModRev(r)) \in Nat
<1> DEFINE o == ModRev(r)
           S == {q \in 1..o : log[q] # None /\ (q = 1 \/ log[q - 1] = None)}
           N == {i \in 0..o : i = 0 \/ log[i] = None}
<1>1. CASE log[r] = None
  BY <1>1, ModRevFacts DEF Uid
<1>2. CASE log[r] # None
  <2>1. o \in 1..r /\ log[o] # None
    BY <1>2, ModRevFacts
  <2>2. r \in Nat
    BY DEF LogOK, Rev
  <2> HIDE DEF o
  <2>3. 0 \in N /\ N \subseteq 0..o /\ S \subseteq 0..o /\ o \in Nat
    BY <2>1, <2>2
  <2>4. PICK i \in N : \A y \in N : y <= i
    <3> HIDE DEF N
    <3> QED  BY <2>3, MaxExists
  <2>5. i \in 0..o /\ i # o /\ (i = 0 \/ log[i] = None)
    BY <2>1, <2>4
  <2>6. i + 1 \in 1..o /\ i + 1 \in 0..o /\ (i + 1) - 1 = i /\ i + 1 # 0
    BY <2>3, <2>5
  <2>7. i + 1 \notin N
    <3>1. i + 1 \in N => i + 1 <= i
      BY <2>4
    <3> QED  BY <2>5, <3>1
  <2>8. i + 1 \in S
    BY <2>5, <2>6, <2>7
  <2>9. Max(S) \in S
    <3> HIDE DEF S
    <3> QED  BY <2>3, <2>8, MaxExists
  <2>10. Uid(o) = Max(S)
    BY <2>1, <2>2 DEF Uid
  <2> QED  BY <2>3, <2>9, <2>10 DEF o
<1> QED  BY <1>1, <1>2

-----------------------------------------------------------------------------
(* The invariant of the store *)

Steps == {"idle", "get", "try", "check", "txn"} \cup Answers

StoreTypeOK ==
  /\ req \in [Updater -> Request] /\ upc \in [Updater -> Steps]
  /\ orig \in [Updater -> Nat] /\ must \in [Updater -> BOOLEAN]
  /\ begun \in [Updater -> Nat] /\ wrote \in [Updater -> Nat]

\* What an updater answers is true.
AnswerIsTrue(u) ==
  LET q == req[u] IN
  /\ upc[u] = "ok" =>
       /\ ModRev(wrote[u] - 1) = orig[u] /\ log[wrote[u]] = q.want
       /\ q.uid \in {0, Uid(orig[u])} /\ q.expect \in {0, orig[u]}
  /\ upc[u] = "noop" =>
       Fresh(u, orig[u]) /\ Value(orig[u]) = q.want /\ q.uid \in {0, Uid(orig[u])}
  /\ upc[u] = "conflict" => Fresh(u, orig[u]) /\ q.expect # orig[u]
  /\ upc[u] = "notFound" => Fresh(u, 0)
  /\ upc[u] = "invalid" /\ ~must[u] => Fresh(u, orig[u]) /\ q.uid # Uid(orig[u])

\* While an updater is on its way, its object is one etcd had; it was read from
\* etcd during the call, unless it is a suggestion that must be checked; and it
\* is what the request asks for once that was found.
UpdaterInv(u) ==
  /\ orig[u] \in 0..Rev
  /\ upc[u] # "idle" => begun[u] \in 1..Rev
  /\ upc[u] = "try" /\ ~must[u] => Fresh(u, orig[u])
  /\ upc[u] \in {"check", "txn"} => req[u].uid \in {0, Uid(orig[u])}
  /\ upc[u] = "txn" => req[u].expect \in {0, orig[u]}
  /\ upc[u] = "ok" => wrote[u] \in 2..Rev
  /\ AnswerIsTrue(u)

StoreInv == LogOK /\ StoreTypeOK /\ \A u \in Updater : UpdaterInv(u)

\* Only one event of etcd comes after another, and the cache is behind it.
CacheBehind == stored \in 0..Rev /\ rv \in Nat

StoreCacheInv == StoreInv /\ CacheBehind

-----------------------------------------------------------------------------
(* Every step preserves the invariant of the store *)

LEMMA LogKept ==
  ASSUME LogOK, UNCHANGED log
  PROVE  LogOK' /\ Rev' = Rev
BY DEF LogOK, Rev

\* An updater that takes no step is not disturbed, though the log may grow.
LEMMA UpdaterKept ==
  ASSUME LogOK, NEW w \in Updater, StoreTypeOK, UpdaterInv(w),
         \/ UNCHANGED log
         \/ \E v \in Val \cup {None} : log' = Append(log, v),
         req'[w] = req[w], upc'[w] = upc[w], orig'[w] = orig[w], must'[w] = must[w],
         begun'[w] = begun[w], wrote'[w] = wrote[w]
  PROVE  UpdaterInv(w)'
<1> DEFINE o == orig[w]
<1>1. Rev \in Nat /\ o \in 0..Rev
  BY DEF LogOK, Rev, UpdaterInv
<1>2. /\ Rev' \in Nat /\ Rev' >= Rev
      /\ \A r \in 1..Rev : log'[r] = log[r] /\ ModRev(r)' = ModRev(r)
      /\ \A p \in 0..Rev : Uid(p)' = Uid(p) /\ Value(p)' = Value(p)
  <2>1. CASE UNCHANGED log
    BY <1>1, <2>1 DEF Rev, ModRev, Uid, Value, Changed
  <2>2. CASE \E v \in Val \cup {None} : log' = Append(log, v)
    <3>1. PICK v \in Val \cup {None} : log' = Append(log, v)
      BY <2>2
    <3>2. Rev' = Rev + 1
      BY <3>1, LogGrows
    <3>3. \A r \in 1..Rev : log'[r] = log[r] /\ ModRev(r)' = ModRev(r)
      BY <3>1, LogGrows
    <3>4. \A p \in 0..Rev : Uid(p)' = Uid(p) /\ Value(p)' = Value(p)
      BY <3>1, LogGrows
    <3> QED  BY <1>1, <3>2, <3>3, <3>4
  <2> QED  BY <2>1, <2>2
<1>3. upc[w] # "idle" => begun[w] \in 1..Rev
  BY DEF UpdaterInv
<1>4. ASSUME NEW p \in Nat, upc[w] # "idle", \E r \in begun[w]..Rev : ModRev(r) = p
      PROVE  \E r \in begun'[w]..Rev' : ModRev(r)' = p
  <2>1. PICK r \in begun[w]..Rev : ModRev(r) = p
    BY <1>4
  <2>2. r \in 1..Rev /\ r \in begun'[w]..Rev'
    BY <1>1, <1>2, <1>3, <1>4, <2>1
  <2> QED  BY <1>2, <2>1, <2>2
<1>5. upc[w] = "ok" => wrote[w] \in 1..Rev /\ wrote[w] - 1 \in 1..Rev /\ wrote[w] \in 2..Rev'
  BY <1>1, <1>2 DEF UpdaterInv
<1>6. AnswerIsTrue(w)'
  <2>1. upc'[w] = "ok" =>
          /\ ModRev(wrote[w] - 1)' = orig'[w] /\ log'[wrote'[w]] = req'[w].want
          /\ req'[w].uid \in {0, Uid(orig[w])'} /\ req'[w].expect \in {0, orig'[w]}
    BY <1>1, <1>2, <1>5 DEF UpdaterInv, AnswerIsTrue
  <2> QED  BY <1>1, <1>2, <1>4, <2>1 DEF UpdaterInv, AnswerIsTrue, Fresh
<1> QED  BY <1>1, <1>2, <1>3, <1>4, <1>5, <1>6 DEF UpdaterInv, Fresh

\* A step of one updater: it is enough to look at that one.
LEMMA OneUpdater ==
  ASSUME StoreInv, NEW u \in Updater, LogOK', StoreTypeOK', UpdaterInv(u)',
         \/ UNCHANGED log
         \/ \E v \in Val \cup {None} : log' = Append(log, v),
         \A w \in Updater \ {u} :
           /\ req'[w] = req[w] /\ upc'[w] = upc[w] /\ orig'[w] = orig[w]
           /\ must'[w] = must[w] /\ begun'[w] = begun[w] /\ wrote'[w] = wrote[w]
  PROVE  StoreInv'
<1>1. ASSUME NEW w \in Updater PROVE UpdaterInv(w)'
  <2>1. CASE w = u
    BY <2>1
  <2>2. CASE w # u
    BY <2>2, UpdaterKept DEF StoreInv
  <2> QED  BY <2>1, <2>2
<1> QED  BY <1>1 DEF StoreInv

\* A write that has nothing to do with an updater.
LEMMA WriteInv ==
  ASSUME StoreInv, NEW v \in Val \cup {None}, Write(v), UNCHANGED updateVars
  PROVE  StoreInv'
<1>1. log' = Append(log, v)
  BY DEF Write
<1>2. LogOK'
  BY <1>1, LogGrows DEF StoreInv
<1>3. StoreTypeOK'
  BY DEF StoreInv, StoreTypeOK, updateVars
<1>4. ASSUME NEW w \in Updater PROVE UpdaterInv(w)'
  BY <1>1, UpdaterKept DEF StoreInv, updateVars
<1> QED  BY <1>2, <1>3, <1>4 DEF StoreInv

LEMMA ElsewhereInv ==
  ASSUME StoreInv, WriteElsewhere \/ UpdateElsewhere \/ Create \/ unconditionalDelete
  PROVE  StoreInv'
<1>1. log[Rev] \in Val \cup {None}
  BY DEF StoreInv, LogOK, Rev
<1> QED  BY <1>1, WriteInv DEF WriteElsewhere, UpdateElsewhere, Create, unconditionalDelete

\* What getState brings is fresh.
LEMMA RefreshFacts ==
  ASSUME StoreInv, NEW u \in Updater, NEW p \in Steps, Refresh(u, p), upc[u] # "idle",
         UNCHANGED <<log, req, begun, wrote>>
  PROVE  /\ orig'[u] = ModRev(Rev) /\ orig'[u] \in 0..Rev /\ ~must'[u]
         /\ begun[u] \in 1..Rev
         /\ \E r \in begun[u]..Rev : ModRev(r) = orig'[u]
         /\ upc'[u] = p \/ (upc'[u] = "notFound" /\ orig'[u] = 0)
         /\ StoreTypeOK' /\ LogOK'
         /\ \A w \in Updater \ {u} :
              upc'[w] = upc[w] /\ orig'[w] = orig[w] /\ must'[w] = must[w]
<1>1. Rev \in Nat /\ Rev \in 1..Rev /\ ModRev(Rev) \in 0..Rev
      /\ (ModRev(Rev) = 0 <=> log[Rev] = None)
  <2>1. Rev \in Nat /\ Rev \in 1..Rev
    BY DEF StoreInv, LogOK, Rev
  <2> QED  BY <2>1, ModRevFacts DEF StoreInv
<1>2. begun[u] \in 1..Rev
  BY DEF StoreInv, UpdaterInv
<1>3. Rev \in begun[u]..Rev
  BY <1>1, <1>2
<1>4. StoreTypeOK' /\ LogOK'
  BY <1>1 DEF StoreInv, StoreTypeOK, LogOK, Refresh, Goto, Steps, Answers
<1>5. /\ orig'[u] = ModRev(Rev) /\ ~must'[u]
      /\ upc'[u] = p \/ (upc'[u] = "notFound" /\ log[Rev] = None)
      /\ \A w \in Updater \ {u} :
           upc'[w] = upc[w] /\ orig'[w] = orig[w] /\ must'[w] = must[w]
  BY DEF StoreInv, StoreTypeOK, Refresh, Goto
<1> QED  BY <1>1, <1>2, <1>3, <1>4, <1>5

LEMMA UnchangedLog ==
  ASSUME UNCHANGED log
  PROVE  /\ Rev' = Rev /\ \A r : ModRev(r)' = ModRev(r)
         /\ \A o : Uid(o)' = Uid(o) /\ Value(o)' = Value(o)
BY DEF Rev, ModRev, Uid, Value, Changed

\* An updater that has read etcd goes on to the top of the loop.
LEMMA RefreshTryInv ==
  ASSUME StoreInv, NEW u \in Updater, Refresh(u, "try"), upc[u] # "idle",
         UNCHANGED <<log, req, begun, wrote>>
  PROVE  StoreInv'
<1>1. "try" \in Steps
  BY DEF Steps
<1>2. /\ orig'[u] = ModRev(Rev) /\ orig'[u] \in 0..Rev /\ ~must'[u]
      /\ begun[u] \in 1..Rev
      /\ \E r \in begun[u]..Rev : ModRev(r) = orig'[u]
      /\ upc'[u] = "try" \/ (upc'[u] = "notFound" /\ orig'[u] = 0)
      /\ StoreTypeOK' /\ LogOK'
      /\ \A w \in Updater \ {u} :
           upc'[w] = upc[w] /\ orig'[w] = orig[w] /\ must'[w] = must[w]
  BY <1>1, RefreshFacts
<1>3. AnswerIsTrue(u)'
  BY <1>2, UnchangedLog DEF AnswerIsTrue, Fresh
<1>4. UpdaterInv(u)'
  BY <1>2, <1>3, UnchangedLog DEF UpdaterInv, Fresh
<1> QED  BY <1>2, <1>4, OneUpdater

LEMMA GuaranteedUpdateInv ==
  ASSUME StoreInv, CacheBehind, NEW u \in Updater, GuaranteedUpdate(u, stored)
  PROVE  StoreInv'
<1>1. Rev \in Nat /\ Rev \in 1..Rev
  BY DEF StoreInv, LogOK, Rev
<1>2. PICK v \in Val, k \in Conditions : req' = [req EXCEPT ![u] = [k EXCEPT !.want = v]]
  BY DEF GuaranteedUpdate
<1>3. [k EXCEPT !.want = v] \in Request
  <2>1. \A r \in 1..Rev : ModRev(r) \in Nat /\ Uid(ModRev(r)) \in Nat
    BY ModRevFacts, UidIsNat DEF StoreInv
  <2>2. NoRequest \in Request
    BY DEF NoRequest, Request
  <2>3. \/ \E b \in BOOLEAN : k = [NoRequest EXCEPT !.ignoreNotFound = b]
        \/ \E r \in 1..Rev : k = [NoRequest EXCEPT !.expect = ModRev(r)]
        \/ \E r \in 1..Rev : k = [NoRequest EXCEPT !.uid = Uid(ModRev(r))]
    BY <1>2 DEF Conditions
  <2>4. k \in Request
    BY <2>1, <2>2, <2>3 DEF Request
  <2> QED  BY <2>4 DEF Request
<1>4. stored \in 0..Rev /\ stored \in Nat
  BY <1>1 DEF CacheBehind
<1>5. StoreTypeOK'
  <2>1. req' \in [Updater -> Request]
    BY <1>2, <1>3 DEF StoreInv, StoreTypeOK
  <2> QED  BY <1>1, <1>4, <2>1
           DEF StoreInv, StoreTypeOK, GuaranteedUpdate, Goto, Steps
<1>6. LogOK' /\ Rev' = Rev /\ UNCHANGED log
  BY LogKept DEF StoreInv, GuaranteedUpdate
<1>7. /\ orig'[u] = stored /\ must'[u] = (stored # 0) /\ begun'[u] = Rev
      /\ upc'[u] = IF stored = 0 THEN "get" ELSE "try"
  BY DEF StoreInv, StoreTypeOK, GuaranteedUpdate, Goto
<1>8. UpdaterInv(u)'
  <2>1. upc'[u] \in {"get", "try"} /\ ~(upc'[u] = "try" /\ ~must'[u])
    BY <1>7
  <2>2. AnswerIsTrue(u)'
    BY <2>1 DEF AnswerIsTrue
  <2> QED  BY <1>1, <1>4, <1>6, <1>7, <2>1, <2>2 DEF UpdaterInv
<1>9. \A w \in Updater \ {u} :
           /\ req'[w] = req[w] /\ upc'[w] = upc[w] /\ orig'[w] = orig[w]
           /\ must'[w] = must[w] /\ begun'[w] = begun[w] /\ wrote'[w] = wrote[w]
  BY <1>2 DEF StoreInv, StoreTypeOK, GuaranteedUpdate, Goto
<1> QED  BY <1>5, <1>6, <1>8, <1>9, OneUpdater

LEMMA conditionalDeleteInv ==
  ASSUME StoreInv, NEW u \in Updater, conditionalDelete(u)
  PROVE  StoreInv'
<1>1. Rev \in Nat /\ Rev \in 1..Rev
  BY DEF StoreInv, LogOK, Rev
<1>2. PICK r \in 1..Rev : req' = [req EXCEPT ![u] = [NoRequest EXCEPT !.uid = Uid(ModRev(r))]]
  BY DEF conditionalDelete
<1>3. [NoRequest EXCEPT !.uid = Uid(ModRev(r))] \in Request
  <2>1. Uid(ModRev(r)) \in Nat
    BY UidIsNat DEF StoreInv
  <2> QED  BY <2>1 DEF NoRequest, Request
<1>4. StoreTypeOK'
  <2>1. req' \in [Updater -> Request]
    BY <1>2, <1>3 DEF StoreInv, StoreTypeOK
  <2> QED  BY <1>1, <2>1 DEF StoreInv, StoreTypeOK, conditionalDelete, Goto, Steps
<1>5. LogOK' /\ Rev' = Rev /\ UNCHANGED log
  BY LogKept DEF StoreInv, conditionalDelete
<1>6. upc'[u] = "get" /\ begun'[u] = Rev /\ orig'[u] = orig[u] /\ orig[u] \in 0..Rev
  BY DEF StoreInv, StoreTypeOK, conditionalDelete, Goto, UpdaterInv
<1>7. UpdaterInv(u)'
  <2>1. AnswerIsTrue(u)'
    BY <1>6 DEF AnswerIsTrue
  <2> QED  BY <1>1, <1>5, <1>6, <2>1 DEF UpdaterInv
<1>8. \A w \in Updater \ {u} :
           /\ req'[w] = req[w] /\ upc'[w] = upc[w] /\ orig'[w] = orig[w]
           /\ must'[w] = must[w] /\ begun'[w] = begun[w] /\ wrote'[w] = wrote[w]
  BY <1>2 DEF StoreInv, StoreTypeOK, conditionalDelete, Goto
<1> QED  BY <1>4, <1>5, <1>7, <1>8, OneUpdater

\* Nothing is concluded from a suggestion but that a precondition fails.
LEMMA TryInv ==
  ASSUME StoreInv, NEW u \in Updater, Try(u)
  PROVE  StoreInv'
<1>1. upc[u] = "try" /\ UNCHANGED <<log, req, orig, must, begun, wrote>>
  BY DEF Try
<1>2. /\ orig[u] \in 0..Rev /\ begun[u] \in 1..Rev
      /\ ~must[u] => Fresh(u, orig[u])
  BY <1>1 DEF StoreInv, UpdaterInv
<1>3. \/ upc'[u] = "invalid" /\ PreconditionFails(u)
      \/ upc'[u] = "get"
      \/ upc'[u] = "conflict" /\ Conflicts(u) /\ ~must[u]
      \/ upc'[u] = "txn" /\ ~PreconditionFails(u) /\ ~Conflicts(u)
      \/ upc'[u] = "check" /\ ~PreconditionFails(u)
      \/ upc'[u] = "noop" /\ ~PreconditionFails(u) /\ AsWanted(u) /\ ~must[u]
  BY DEF StoreInv, StoreTypeOK, Try, Goto
<1>4. StoreTypeOK'
  BY DEF StoreInv, StoreTypeOK, Try, Goto, Steps, Answers
<1>5. LogOK' /\ Rev' = Rev
  BY <1>1, LogKept DEF StoreInv
<1>6. AnswerIsTrue(u)'
  BY <1>1, <1>2, <1>3, UnchangedLog
  DEF AnswerIsTrue, Fresh, PreconditionFails, Conflicts, AsWanted
<1>7. UpdaterInv(u)'
  BY <1>1, <1>2, <1>3, <1>6, UnchangedLog DEF UpdaterInv, PreconditionFails, Conflicts
<1>8. \A w \in Updater \ {u} : upc'[w] = upc[w]
  BY DEF StoreInv, StoreTypeOK, Try, Goto
<1> QED  BY <1>1, <1>4, <1>5, <1>7, <1>8, OneUpdater

LEMMA CheckDataInv ==
  ASSUME StoreInv, NEW u \in Updater, CheckData(u)
  PROVE  StoreInv'
<1> DEFINE same == Value(ModRev(Rev)) = req[u].want /\ Uid(ModRev(Rev)) = Uid(orig[u])
<1>1. upc[u] = "check" /\ UNCHANGED <<log, req, begun, wrote>>
      /\ Refresh(u, IF same THEN "noop" ELSE "try")
  BY DEF CheckData
<1>2. CASE ~same
  BY <1>1, <1>2, RefreshTryInv
<1>3. CASE same
  <2>1. "noop" \in Steps /\ Refresh(u, "noop")
    BY <1>1, <1>3 DEF Steps, Answers
  <2>2. /\ orig'[u] = ModRev(Rev) /\ orig'[u] \in 0..Rev /\ ~must'[u]
        /\ begun[u] \in 1..Rev
        /\ \E r \in begun[u]..Rev : ModRev(r) = orig'[u]
        /\ upc'[u] = "noop" \/ (upc'[u] = "notFound" /\ orig'[u] = 0)
        /\ StoreTypeOK' /\ LogOK'
        /\ \A w \in Updater \ {u} :
             upc'[w] = upc[w] /\ orig'[w] = orig[w] /\ must'[w] = must[w]
    BY <1>1, <2>1, RefreshFacts
  <2>3. req[u].uid \in {0, Uid(orig[u])}
    BY <1>1 DEF StoreInv, UpdaterInv
  <2>4. AnswerIsTrue(u)'
    BY <1>1, <1>3, <2>2, <2>3, UnchangedLog DEF AnswerIsTrue, Fresh
  <2>5. UpdaterInv(u)'
    BY <1>1, <2>2, <2>4, UnchangedLog DEF UpdaterInv
  <2> QED  BY <1>1, <2>2, <2>5, OneUpdater
<1> QED  BY <1>2, <1>3

\* etcd compares before it writes, so what is replaced is what was looked at.
LEMMA TxnInv ==
  ASSUME StoreInv, NEW u \in Updater, Txn(u)
  PROVE  StoreInv'
<1>1. Rev \in Nat /\ Rev \in 1..Rev /\ upc[u] = "txn" /\ UNCHANGED <<req, begun>>
  BY DEF StoreInv, LogOK, Rev, Txn
<1>2. CASE ModRev(Rev) # orig[u]
  <2>1. Refresh(u, "try") /\ UNCHANGED <<log, wrote>>
    BY <1>2 DEF Txn
  <2> QED  BY <1>1, <2>1, RefreshTryInv
<1>3. CASE ModRev(Rev) = orig[u]
  <2>1. PICK v \in Val \cup {None} : v = req[u].want /\ log' = Append(log, v)
    BY <1>3 DEF Txn, Write, StoreInv, StoreTypeOK, Request
  <2>2. /\ LogOK' /\ Rev' = Rev + 1 /\ log'[Rev + 1] = v
        /\ ModRev(Rev)' = ModRev(Rev)' /\ UNCHANGED <<orig, must>>
    BY <1>3, <2>1, LogGrows DEF StoreInv, Txn
  <2>3. /\ upc'[u] = "ok" /\ wrote'[u] = Rev + 1
        /\ \A w \in Updater \ {u} : upc'[w] = upc[w] /\ wrote'[w] = wrote[w]
    BY <1>3 DEF StoreInv, StoreTypeOK, Txn, Goto
  <2>4. StoreTypeOK'
    BY <1>1, <1>3 DEF StoreInv, StoreTypeOK, Txn, Goto, Steps, Answers
  <2>5. /\ orig[u] \in 0..Rev /\ begun[u] \in 1..Rev
        /\ req[u].uid \in {0, Uid(orig[u])} /\ req[u].expect \in {0, orig[u]}
    BY <1>1 DEF StoreInv, UpdaterInv
  <2>6. PICK n \in Nat : n = Rev
    BY <1>1
  <2>7. PICK o \in Nat : o = orig[u]
    BY <1>1, <2>5
  <2>8. ModRev(n)' = o /\ Uid(o)' = Uid(o)
    BY <1>1, <1>3, <2>1, <2>5, <2>6, <2>7, LogGrows DEF StoreInv
  <2>9. AnswerIsTrue(u)'
    <3>1. wrote'[u] - 1 = n /\ orig'[u] = o /\ Uid(orig[u])' = Uid(o)'
      BY <2>2, <2>3, <2>6, <2>7
    <3>2. ModRev(wrote[u] - 1)' = ModRev(n)'
      BY <3>1
    <3> QED  BY <1>1, <2>1, <2>2, <2>3, <2>5, <2>6, <2>7, <2>8, <3>1, <3>2 DEF AnswerIsTrue
  <2>10. UpdaterInv(u)'
    BY <1>1, <2>2, <2>3, <2>5, <2>9 DEF UpdaterInv
  <2> QED  BY <1>1, <2>1, <2>2, <2>3, <2>4, <2>10, OneUpdater
<1> QED  BY <1>2, <1>3

LEMMA ResetInv ==
  ASSUME StoreInv, NEW u \in Updater, Reset(u)
  PROVE  StoreInv'
<1>1. LogOK' /\ Rev' = Rev /\ Rev \in Nat
  BY LogKept DEF StoreInv, LogOK, Rev, Reset
<1>2. StoreTypeOK'
  BY DEF StoreInv, StoreTypeOK, Reset, Goto, Steps, NoRequest, Request
<1>3. UpdaterInv(u)'
  <2>1. upc'[u] = "idle" /\ orig'[u] = 0
    BY DEF StoreInv, StoreTypeOK, Reset, Goto
  <2> QED  BY <1>1, <2>1 DEF UpdaterInv, AnswerIsTrue
<1>4. \A w \in Updater \ {u} :
           /\ req'[w] = req[w] /\ upc'[w] = upc[w] /\ orig'[w] = orig[w]
           /\ must'[w] = must[w] /\ begun'[w] = begun[w] /\ wrote'[w] = wrote[w]
  BY DEF StoreInv, StoreTypeOK, Reset, Goto
<1> QED  BY <1>1, <1>2, <1>3, <1>4, OneUpdater DEF Reset

LEMMA HandleInv ==
  ASSUME StoreInv, NEW u \in Updater, Handle(u)
  PROVE  StoreInv'
<1>1. CASE getCurrentState(u)
  BY <1>1, RefreshTryInv DEF getCurrentState
<1> QED  BY <1>1, TryInv, CheckDataInv, TxnInv, ResetInv DEF Handle, Return, CallFails

LEMMA StoreInvInit == StoreInit => StoreInv
<1> SUFFICES ASSUME StoreInit PROVE StoreInv
  OBVIOUS
<1>1. LogOK
  BY DEF StoreInit, LogOK
<1>2. StoreTypeOK
  BY DEF StoreInit, StoreTypeOK, Steps, NoRequest, Request
<1>3. \A u \in Updater : UpdaterInv(u)
  BY <1>1 DEF StoreInit, UpdaterInv, AnswerIsTrue, LogOK, Rev
<1> QED  BY <1>1, <1>2, <1>3 DEF StoreInv

LEMMA StoreCacheInvNext == StoreCacheInv /\ [CacherNext]_cacherVars => StoreCacheInv'
<1> SUFFICES ASSUME StoreCacheInv, [CacherNext]_cacherVars PROVE StoreCacheInv'
  OBVIOUS
<1>1. StoreInv /\ CacheBehind /\ LogOK /\ Rev \in Nat /\ Rev \in 1..Rev
  BY DEF StoreCacheInv, StoreInv, LogOK, Rev
<1>2. ASSUME UNCHANGED storeVars PROVE StoreInv' /\ Rev' = Rev
  <2>1. LogOK' /\ Rev' = Rev
    BY <1>1, <1>2, LogKept DEF storeVars
  <2>2. StoreTypeOK'
    BY <1>1, <1>2 DEF storeVars, updateVars, StoreInv, StoreTypeOK
  <2>3. ASSUME NEW w \in Updater PROVE UpdaterInv(w)'
    BY <1>1, <1>2, UpdaterKept DEF storeVars, updateVars, StoreInv
  <2> QED  BY <2>1, <2>2, <2>3 DEF StoreInv
<1>3. CASE Requests
  <2>1. StoreInv'
    BY <1>1, <1>3, ElsewhereInv, GuaranteedUpdateInv, conditionalDeleteInv, HandleInv
    DEF Requests
  <2>2. UNCHANGED <<stored, rv>>
    BY <1>3 DEF Requests, cacheVars
  <2>3. Rev' >= Rev /\ Rev' \in Nat
    <3>1. UNCHANGED log \/ \E v : log' = Append(log, v)
      BY <1>3 DEF Requests, WriteElsewhere, UpdateElsewhere, Create, unconditionalDelete,
               Write, GuaranteedUpdate, conditionalDelete, Handle, getCurrentState, Try,
               CheckData, Txn, CallFails, Return, Reset
    <3>2. \A v : Len(Append(log, v)) = Len(log) + 1
      BY <1>1 DEF LogOK
    <3> QED  BY <1>1, <3>1, <3>2 DEF Rev
  <2> QED  BY <1>1, <2>1, <2>2, <2>3 DEF StoreCacheInv, CacheBehind
<1>4. CASE Replace
  <2>1. UNCHANGED storeVars /\ \/ stored' = ModRev(Rev) /\ rv' = Rev
                               \/ UNCHANGED <<stored, rv>>
    BY <1>4 DEF Replace
  <2>2. ModRev(Rev) \in 0..Rev
    BY <1>1, ModRevFacts
  <2> QED  BY <1>1, <1>2, <2>1, <2>2 DEF StoreCacheInv, CacheBehind
<1>5. CASE processEvent
  <2>1. UNCHANGED storeVars
    BY <1>5 DEF processEvent
  <2>2. PICK r \in rv + 1..Rev : rv' = r /\ stored' = ModRev(r)
    BY <1>5 DEF processEvent
  <2>3. r \in 1..Rev
    BY <1>1 DEF CacheBehind
  <2>4. ModRev(r) \in 0..Rev
    BY <1>1, <2>3, ModRevFacts
  <2> QED  BY <1>1, <1>2, <2>1, <2>2, <2>3, <2>4 DEF StoreCacheInv, CacheBehind
<1>6. CASE UNCHANGED <<storeVars, stored, rv>>
  BY <1>1, <1>2, <1>6 DEF StoreCacheInv, CacheBehind
<1>7. CacherNext => Requests \/ Replace \/ processEvent \/ UNCHANGED <<storeVars, stored, rv>>
  BY DEF CacherNext, terminateAllWatchers, WatchBreaks, dispatchEvent, WatchReady, Watching,
         StopWatch, TooOld, Register, SendInitial, SendNext, ProcessEnds, cacheVars
<1> QED  BY <1>3, <1>4, <1>5, <1>6, <1>7 DEF cacherVars, cacheVars

LEMMA StoreCacheInvariant == CacherSafety => []StoreCacheInv
<1>1. CacherInit => StoreCacheInv
  BY StoreInvInit DEF CacherInit, StoreCacheInv, CacheBehind, StoreInv, LogOK, Rev
<1> QED  BY <1>1, StoreCacheInvNext, PTL DEF CacherSafety

\* A write replaces the very object that was looked at, and a conflict, a no-op or
\* a missing object is true of etcd at some time during the call, for any number
\* of updaters and API servers and however stale the suggestion of the watch
\* cache is.  A precondition that fails is true of etcd too, except when
\* GuaranteedUpdate holds it against a suggestion, which may be stale
\* (store.go:285).
THEOREM StoreAnswersTruly == CacherSafety => []AnswersAreTrue
<1>1. StoreCacheInv => AnswersAreTrue
  BY DEF StoreCacheInv, StoreInv, UpdaterInv, AnswerIsTrue, AnswersAreTrue
<1> QED  BY <1>1, StoreCacheInvariant, PTL

-----------------------------------------------------------------------------
(* The invariant of the watch cache *)

Event == [rev : Nat, prev : Val \cup {None}]

\* The revisions of a queue of events, or of what a client was told.
Revs(s) == {s[i].rev : i \in 1..Len(s)}

Rising(s) == \A i, j \in 1..Len(s) : i < j => s[i].rev < s[j].rev

Below(X, Y) == \A x \in X, y \in Y : x < y

\* The event e is the change of the object at a revision the cache knows.
Happened(e) == e.rev \in 2..rv /\ Changed(e.rev) /\ e.prev = log[e.rev - 1]

Events(s) ==
  /\ s \in Seq(Event) /\ Rising(s)
  /\ \A i \in 1..Len(s) : Happened(s[i])

\* The cache has the object of revision rv, and its window all changes from the
\* oldest it can deliver.
CacheInv ==
  /\ conn \in {"off", "list", "watch"} /\ (conn = "watch" \/ ready => rv # 0)
  /\ rv \in 0..Rev /\ listRV \in 0..rv
  /\ stored = IF rv = 0 THEN 0 ELSE ModRev(rv)
  /\ Events(incoming) /\ Events(window)
  /\ Len(window) <= Capacity /\ \A i \in 1..Len(window) : window[i].rev > listRV
  /\ \A q \in 1..rv : q >= Oldest /\ Changed(q) => q \in Revs(window)

CallTypeOK ==
  /\ wpc \in [Watcher -> {"none", "ready", "open", "closed"}]
  /\ asked \in [Watcher -> [rv : Nat, select : SUBSET Val]]
  /\ initial \in [Watcher -> Seq(Event)] /\ input \in [Watcher -> Seq(Event)]
  /\ from \in [Watcher -> Nat] /\ since \in [Watcher -> Nat]
  /\ listed \in [Watcher -> BOOLEAN] /\ done \in [Watcher -> BOOLEAN]
  /\ doubtful \in [Watcher -> BOOLEAN]
  /\ got \in [Watcher -> Seq([type : {"ADDED", "MODIFIED", "DELETED"}, rev : Nat])]

\* A watcher is listed from when it is registered to when it is stopped.
LifeInv(w) ==
  /\ wpc[w] \in {"none", "ready"} =>
       initial[w] = <<>> /\ input[w] = <<>> /\ got[w] = <<>> /\ ~done[w]
  /\ wpc[w] = "ready" => rv # 0 /\ asked[w].rv \in 0..Rev
  /\ listed[w] <=> wpc[w] = "open" /\ ~done[w]

\* What the client has heard, and all there was to hear up to the last of it.
HeardInv(w) ==
  /\ since[w] \in 1..Rev /\ Rising(got[w])
  /\ \A i \in 1..Len(got[w]) :
       got[w][i].rev \in since[w]..Rev /\ Told(w, got[w][i].rev) = <<got[w][i]>>
  /\ \A r \in Revs(got[w]), q \in 1..Rev :
       q >= since[w] /\ q <= r /\ Told(w, q) # <<>> => q \in Revs(got[w])

\* The revisions that wait for w in a queue.
Later(w, s) == {r \in Revs(s) : r > from[w]}

\* Everything the client is to hear of what the cache knows was heard, or waits
\* in one of three queues, in order.
LiveInv(w) ==
  /\ conn # "list"
  /\ since[w] <= rv \/ (from[w] = since[w] /\ asked[w].rv # 0)
  /\ from[w] <= rv \/ from[w] = since[w]
  /\ Rising(initial[w]) /\ Events(input[w]) /\ Below(Revs(input[w]), Revs(incoming))
  /\ Below(Revs(got[w]), Revs(initial[w]))
  /\ Below(Revs(got[w]) \cup Revs(initial[w]), Later(w, input[w]) \cup Later(w, incoming))
  /\ \A i \in 1..Len(initial[w]) :
       LET e == initial[w][i] IN
       /\ e.rev \in since[w]..rv
       /\ Heard(asked[w].select, e.prev, log[e.rev], e.rev) = Told(w, e.rev)
  /\ \A r \in Later(w, input[w]) \cup Later(w, incoming) : r > since[w]
  /\ \A r \in Revs(got[w]) : r <= rv
  /\ \A q \in 1..rv :
       q >= since[w] /\ Told(w, q) # <<>> =>
         q \in Revs(got[w]) \cup Revs(initial[w]) \cup Later(w, input[w]) \cup Later(w, incoming)

WatcherInv(w) ==
  /\ LifeInv(w)
  /\ wpc[w] = "open" /\ ~doubtful[w] => HeardInv(w)
  /\ listed[w] /\ ~doubtful[w] => LiveInv(w)

WatchInv == CacheInv /\ CallTypeOK /\ \A w \in Watcher : WatcherInv(w)

-----------------------------------------------------------------------------
(* Queues of events *)

LEMMA RevsAppend ==
  ASSUME NEW S, \A x \in S : x.rev \in Nat, NEW s \in Seq(S), NEW e \in S
  PROVE  /\ Revs(Append(s, e)) = Revs(s) \cup {e.rev}
         /\ Rising(s) /\ (\A r \in Revs(s) : r < e.rev) => Rising(Append(s, e))
<1> DEFINE t == Append(s, e)
<1>1. /\ Len(s) \in Nat /\ Len(t) = Len(s) + 1 /\ t[Len(s) + 1] = e
      /\ \A i \in 1..Len(s) : t[i] = s[i]
  OBVIOUS
<1> HIDE DEF t
<1>2. \A i \in 1..Len(t) : i \in 1..Len(s) \/ i = Len(s) + 1
  BY <1>1
<1>3. Revs(t) = Revs(s) \cup {e.rev}
  <2>1. \A r \in Revs(t) : r \in Revs(s) \cup {e.rev}
    BY <1>1, <1>2 DEF Revs
  <2>2. \A r \in Revs(s) : r \in Revs(t)
    BY <1>1 DEF Revs
  <2>3. e.rev \in Revs(t)
    BY <1>1 DEF Revs
  <2> QED  BY <2>1, <2>2, <2>3
<1>4. ASSUME Rising(s), \A r \in Revs(s) : r < e.rev, NEW i \in 1..Len(t), NEW j \in 1..Len(t),
             i < j
      PROVE  t[i].rev < t[j].rev
  <2>1. i \in 1..Len(s)
    BY <1>1, <1>4
  <2>2. CASE j = Len(s) + 1
    BY <1>1, <1>4, <2>1, <2>2 DEF Revs
  <2>3. CASE j \in 1..Len(s)
    BY <1>1, <1>4, <2>1, <2>3 DEF Rising
  <2> QED  BY <1>2, <2>2, <2>3
<1> QED  BY <1>3, <1>4 DEF t, Rising

LEMMA RevsTail ==
  ASSUME NEW S, \A x \in S : x.rev \in Nat, NEW s \in Seq(S), s # <<>>, Rising(s)
  PROVE  /\ Tail(s) \in Seq(S) /\ Head(s) = s[1] /\ 1 \in 1..Len(s)
         /\ Head(s).rev \in Revs(s) /\ Rising(Tail(s))
         /\ Revs(Tail(s)) = Revs(s) \ {Head(s).rev}
         /\ \A r \in Revs(Tail(s)) : Head(s).rev < r
         /\ \A i \in 1..Len(Tail(s)) : i + 1 \in 1..Len(s) /\ Tail(s)[i] = s[i + 1]
<1> DEFINE t == Tail(s)
<1>1. /\ Len(s) \in Nat /\ Len(s) # 0 /\ Len(t) = Len(s) - 1 /\ t \in Seq(S)
      /\ \A i \in 1..Len(t) : t[i] = s[i + 1]
      /\ Head(s) = s[1] /\ \A i \in 1..Len(s) : s[i].rev \in Nat
  OBVIOUS
<1> HIDE DEF t
<1>2. 1 \in 1..Len(s) /\ \A i \in 1..Len(t) : i + 1 \in 1..Len(s) /\ 1 < i + 1
  BY <1>1
<1>3. \A i \in 1..Len(s) : i = 1 \/ (i - 1 \in 1..Len(t) /\ (i - 1) + 1 = i)
  BY <1>1
<1>4. \A i \in 1..Len(t) : s[1].rev < t[i].rev
  BY <1>1, <1>2 DEF Rising
<1>5. Head(s).rev \in Revs(s)
  BY <1>1, <1>2 DEF Revs
<1>6. \A r \in Revs(t) : Head(s).rev < r /\ r \in Revs(s)
  BY <1>1, <1>2, <1>4 DEF Revs
<1>7. \A r \in Revs(s) : r = Head(s).rev \/ r \in Revs(t)
  <2>1. ASSUME NEW i \in 1..Len(s) PROVE s[i].rev = s[1].rev \/ s[i].rev \in Revs(t)
    <3>1. CASE i = 1
      BY <3>1
    <3>2. CASE i # 1
      <4>1. i - 1 \in 1..Len(t) /\ t[i - 1] = s[i]
        BY <1>1, <1>3, <3>2
      <4> QED  BY <4>1 DEF Revs
    <3> QED  BY <3>1, <3>2
  <2> QED  BY <1>1, <2>1 DEF Revs
<1>8. Rising(t)
  <2> SUFFICES ASSUME NEW i \in 1..Len(t), NEW j \in 1..Len(t), i < j
               PROVE  t[i].rev < t[j].rev
    BY DEF Rising
  <2>1. i + 1 < j + 1
    BY <1>1
  <2> QED  BY <1>1, <1>2, <2>1 DEF Rising
<1>9. Head(s).rev \in Nat
  BY <1>1, <1>2
<1>10. Revs(t) = Revs(s) \ {Head(s).rev}
  <2>1. Head(s).rev \notin Revs(t)
    BY <1>6, <1>9
  <2> QED  BY <1>6, <1>7, <2>1
<1> QED  BY <1>1, <1>2, <1>5, <1>6, <1>8, <1>10 DEF t

-----------------------------------------------------------------------------
(* What stays true when the log grows *)

LogStep == UNCHANGED log \/ \E v \in Val \cup {None} : log' = Append(log, v)

LEMMA LogStepFacts ==
  ASSUME LogOK, LogStep
  PROVE  /\ Rev \in Nat /\ Rev' \in Nat /\ Rev' >= Rev
         /\ \A r \in 1..Rev : /\ log'[r] = log[r] /\ ModRev(r)' = ModRev(r)
                              /\ Changed(r)' <=> Changed(r)
<1>1. Rev \in Nat
  BY DEF LogOK, Rev
<1>2. CASE UNCHANGED log
  BY <1>1, <1>2 DEF Rev, ModRev, Changed
<1>3. CASE \E v \in Val \cup {None} : log' = Append(log, v)
  <2>1. PICK v \in Val \cup {None} : log' = Append(log, v)
    BY <1>3
  <2>2. Rev' = Rev + 1
    BY <2>1, LogGrows
  <2>3. \A r \in 1..Rev : /\ log'[r] = log[r] /\ ModRev(r)' = ModRev(r)
                          /\ Changed(r)' <=> Changed(r)
    BY <2>1, LogGrows
  <2> QED  BY <1>1, <2>2, <2>3
<1> QED  BY <1>2, <1>3 DEF LogStep

LEMMA ToldKept ==
  ASSUME LogOK, LogStep, NEW w \in Watcher, since[w] \in 1..Rev,
         asked'[w] = asked[w], since'[w] = since[w], NEW q \in 1..Rev
  PROVE  Told(w, q)' = Told(w, q)
<1>1. Rev \in Nat /\ log'[q] = log[q] /\ (Changed(q)' <=> Changed(q))
  BY LogStepFacts
<1>2. q > since[w] => log'[q - 1] = log[q - 1]
  <2>1. q > since[w] => q - 1 \in 1..Rev
    BY <1>1
  <2> QED  BY <2>1, LogStepFacts
<1>3. CASE q = since[w] /\ asked[w].rv = 0
  BY <1>1, <1>3 DEF Told, Heard
<1>4. CASE ~(q = since[w] /\ asked[w].rv = 0) /\ q > since[w] /\ Changed(q)
  BY <1>1, <1>2, <1>4 DEF Told, Heard
<1>5. CASE ~(q = since[w] /\ asked[w].rv = 0) /\ ~(q > since[w] /\ Changed(q))
  BY <1>1, <1>5 DEF Told
<1> QED  BY <1>3, <1>4, <1>5

LEMMA EventsKept ==
  ASSUME LogOK, LogStep, rv \in 0..Rev, rv' \in Nat, rv' >= rv, NEW s, Events(s)
  PROVE  Events(s)'
<1>1. ASSUME NEW i \in 1..Len(s) PROVE Happened(s[i])'
  <2>1. s[i].rev \in 2..rv /\ Changed(s[i].rev) /\ s[i].prev = log[s[i].rev - 1]
    BY DEF Events, Happened
  <2>2. s[i].rev \in 1..Rev /\ s[i].rev - 1 \in 1..Rev /\ s[i].rev \in 2..rv'
    BY <2>1, LogStepFacts
  <2> QED  BY <2>1, <2>2, LogStepFacts DEF Happened
<1> QED  BY <1>1 DEF Events, Rising

LEMMA HeardKept ==
  ASSUME LogOK, LogStep, CallTypeOK, NEW w \in Watcher, HeardInv(w),
         asked'[w] = asked[w], since'[w] = since[w], got'[w] = got[w]
  PROVE  HeardInv(w)'
<1> PICK g : g = got[w]
  OBVIOUS
<1>1. Rev \in Nat /\ Rev' \in Nat /\ Rev' >= Rev /\ since[w] \in 1..Rev /\ since'[w] \in 1..Rev'
  BY LogStepFacts DEF HeardInv
<1>2. \A q \in 1..Rev : Told(w, q)' = Told(w, q)
  BY <1>1, ToldKept
<1>3. \A i \in 1..Len(g) : g[i].rev \in since[w]..Rev /\ Told(w, g[i].rev) = <<g[i]>>
  BY DEF HeardInv
<1>4. \A i \in 1..Len(g) : g[i].rev \in 1..Rev /\ g[i].rev \in since'[w]..Rev'
  BY <1>1, <1>3
<1>5. \A i \in 1..Len(g) : g[i].rev \in since'[w]..Rev' /\ Told(w, g[i].rev)' = <<g[i]>>
  BY <1>2, <1>3, <1>4
<1>6. ASSUME NEW r \in Revs(g), NEW q \in 1..Rev', q >= since[w], q <= r, Told(w, q)' # <<>>
      PROVE  q \in Revs(g)
  <2>1. r \in 1..Rev
    BY <1>4 DEF Revs
  <2>2. q \in 1..Rev
    BY <1>1, <1>6, <2>1
  <2> QED  BY <1>2, <1>6, <2>2 DEF HeardInv
<1>7. Rising(g)
  BY DEF HeardInv
<1> QED  BY <1>1, <1>5, <1>6, <1>7 DEF HeardInv, Revs, Rising

\* A watcher that is listed is not disturbed by what does not concern it.
LEMMA LiveKept ==
  ASSUME LogOK, LogStep, CacheInv, CallTypeOK, NEW w \in Watcher, HeardInv(w), LiveInv(w),
         conn' # "list", UNCHANGED <<rv, incoming>>,
         asked'[w] = asked[w], since'[w] = since[w], got'[w] = got[w], from'[w] = from[w],
         initial'[w] = initial[w], input'[w] = input[w]
  PROVE  LiveInv(w)'
<1> PICK x : x = input[w]
  OBVIOUS
<1> PICK y : y = initial[w]
  OBVIOUS
<1>1. Rev \in Nat /\ rv \in 0..Rev /\ rv' \in Nat /\ rv' >= rv /\ since[w] \in 1..Rev
  BY LogStepFacts DEF CacheInv, HeardInv
<1>2. Events(x)'
  BY <1>1, EventsKept DEF LiveInv
<1>3. \A q \in 1..Rev : Told(w, q)' = Told(w, q) /\ log'[q] = log[q]
  BY <1>1, ToldKept, LogStepFacts
<1>4. ASSUME NEW i \in 1..Len(y)
      PROVE  /\ y[i].rev \in since'[w]..rv'
             /\ Heard(asked'[w].select, y[i].prev, log'[y[i].rev], y[i].rev)
                  = Told(w, y[i].rev)'
  <2>1. /\ y[i].rev \in since[w]..rv
        /\ Heard(asked[w].select, y[i].prev, log[y[i].rev], y[i].rev) = Told(w, y[i].rev)
    BY DEF LiveInv
  <2>2. y[i].rev \in 1..Rev
    BY <1>1, <2>1
  <2> QED  BY <1>3, <2>1, <2>2
<1>5. /\ Revs(got[w])' = Revs(got[w]) /\ Revs(initial[w])' = Revs(initial[w])
      /\ Later(w, input[w])' = Later(w, input[w])
      /\ Later(w, incoming)' = Later(w, incoming)
      /\ Revs(input[w])' = Revs(input[w]) /\ Revs(incoming)' = Revs(incoming)
  BY DEF Revs, Later
<1>6. ASSUME NEW q \in 1..rv', q >= since'[w], Told(w, q)' # <<>>
      PROVE  q \in (Revs(got[w]) \cup Revs(initial[w]) \cup Later(w, input[w]) \cup Later(w, incoming))'
  <2>1. q \in 1..rv /\ q \in 1..Rev
    BY <1>1
  <2>2. Told(w, q) # <<>>
    BY <1>3, <1>6, <2>1
  <2>3. q \in Revs(got[w]) \cup Revs(initial[w]) \cup Later(w, input[w]) \cup Later(w, incoming)
    BY <1>6, <2>1, <2>2 DEF LiveInv
  <2> QED  BY <1>5, <2>3
<1>7. Rising(initial[w])'
  BY DEF LiveInv, Rising
<1>8. (/\ Below(Revs(input[w]), Revs(incoming))
       /\ Below(Revs(got[w]), Revs(initial[w]))
       /\ Below(Revs(got[w]) \cup Revs(initial[w]), Later(w, input[w]) \cup Later(w, incoming))
       /\ \A r \in Later(w, input[w]) \cup Later(w, incoming) : r > since[w]
       /\ \A r \in Revs(got[w]) : r <= rv)'
  BY <1>5 DEF LiveInv, Below
<1>9. (since[w] <= rv \/ (from[w] = since[w] /\ asked[w].rv # 0))' /\ (from[w] <= rv \/ from[w] = since[w])'
  BY DEF LiveInv
<1>10. Events(input[w])'
  BY <1>2 DEF Events, Happened, Rising
<1> QED  BY <1>4, <1>6, <1>7, <1>8, <1>9, <1>10 DEF LiveInv

LEMMA WatcherKept ==
  ASSUME LogOK, LogStep, CacheInv, CallTypeOK, NEW w \in Watcher, WatcherInv(w),
         rv # 0 => rv' # 0,
         listed[w] /\ ~doubtful[w] => conn' # "list" /\ UNCHANGED <<rv, incoming>>,
         wpc'[w] = wpc[w], asked'[w] = asked[w], initial'[w] = initial[w],
         from'[w] = from[w], input'[w] = input[w], listed'[w] = listed[w],
         done'[w] = done[w], got'[w] = got[w], since'[w] = since[w],
         doubtful'[w] = doubtful[w]
  PROVE  WatcherInv(w)'
<1>1. LifeInv(w)'
  BY LogStepFacts DEF WatcherInv, LifeInv
<1>2. ASSUME wpc[w] = "open", ~doubtful[w] PROVE HeardInv(w)'
  BY <1>2, HeardKept DEF WatcherInv
<1>3. ASSUME listed[w], ~doubtful[w] PROVE LiveInv(w)'
  <2>1. HeardInv(w)
    BY <1>3 DEF WatcherInv, LifeInv
  <2> QED  BY <1>3, <2>1, LiveKept DEF WatcherInv
<1> QED  BY <1>1, <1>2, <1>3 DEF WatcherInv

LEMMA CacheInvKept ==
  ASSUME LogOK, LogStep, CacheInv, UNCHANGED <<stored, rv, listRV, window, incoming>>,
         conn' \in {"off", "list", "watch"}, conn' = "watch" \/ ready' => rv # 0
  PROVE  CacheInv'
<1>1. Rev \in Nat /\ rv \in 0..Rev /\ rv' \in 0..Rev' /\ rv' \in Nat /\ rv' >= rv
  BY LogStepFacts DEF CacheInv
<1>2. stored' = IF rv' = 0 THEN 0 ELSE ModRev(rv)'
  <2>1. PICK r \in Nat : r = rv
    BY <1>1
  <2>2. r # 0 => ModRev(r)' = ModRev(r)
    BY <1>1, <2>1, LogStepFacts
  <2> QED  BY <2>1, <2>2 DEF CacheInv
<1>3. (Events(incoming) /\ Events(window))'
  <2>1. PICK x, y : x = incoming /\ y = window
    OBVIOUS
  <2>2. Events(x)' /\ Events(y)'
    BY <1>1, <2>1, EventsKept DEF CacheInv
  <2> QED  BY <2>1, <2>2 DEF Events, Happened, Rising
<1>4. Oldest' = Oldest /\ Revs(window)' = Revs(window)
  BY DEF Oldest, Revs
<1>5. ASSUME NEW q \in 1..rv', q >= Oldest', Changed(q)' PROVE q \in Revs(window)'
  <2>1. q \in 1..Rev /\ q \in 1..rv
    BY <1>1
  <2>2. Changed(q)
    BY <1>5, <2>1, LogStepFacts
  <2> QED  BY <1>4, <1>5, <2>1, <2>2 DEF CacheInv
<1> QED  BY <1>1, <1>2, <1>3, <1>5 DEF CacheInv

\* Steps after which every watcher is as it was, and so is the cache but for conn.
LEMMA AllKept ==
  ASSUME LogOK, LogStep, WatchInv, UNCHANGED <<stored, rv, listRV, window, incoming, callVars>>,
         conn' \in {"off", "watch"}, conn' = "watch" \/ ready' => rv # 0
  PROVE  WatchInv'
<1>1. CacheInv'
  BY CacheInvKept DEF WatchInv
<1>2. CallTypeOK'
  BY DEF WatchInv, CallTypeOK, callVars
<1>3. ASSUME NEW w \in Watcher PROVE WatcherInv(w)'
  BY WatcherKept DEF WatchInv, callVars
<1> QED  BY <1>1, <1>2, <1>3 DEF WatchInv

\* The same, while the cache is listing.
LEMMA AllKeptListing ==
  ASSUME LogOK, LogStep, WatchInv, UNCHANGED <<cacheVars, callVars>>
  PROVE  WatchInv'
<1>1. CacheInv'
  BY CacheInvKept DEF WatchInv, CacheInv, cacheVars
<1>2. CallTypeOK'
  BY DEF WatchInv, CallTypeOK, callVars
<1>3. ASSUME NEW w \in Watcher PROVE WatcherInv(w)'
  <2>1. listed[w] /\ ~doubtful[w] => conn # "list"
    BY DEF WatchInv, WatcherInv, LiveInv
  <2> QED  BY <2>1, WatcherKept DEF WatchInv, callVars, cacheVars
<1> QED  BY <1>1, <1>2, <1>3 DEF WatchInv

LEMMA RequestsWatchInv ==
  ASSUME StoreInv, WatchInv, Requests
  PROVE  WatchInv'
<1>1. LogStep
  <2>1. log[Rev] \in Val \cup {None} /\ \A u \in Updater : req[u].want \in Val \cup {None}
    BY DEF StoreInv, LogOK, Rev, StoreTypeOK, Request
  <2> QED  BY <2>1
           DEF LogStep, Requests, WriteElsewhere, UpdateElsewhere, Create,
               unconditionalDelete, Write, GuaranteedUpdate, conditionalDelete, Handle,
               getCurrentState, Try, CheckData, Txn, CallFails, Return, Reset
<1> QED  BY <1>1, AllKeptListing DEF StoreInv, Requests

\* Whoever is listed is stopped before the cache lists again.
LEMMA TerminateWatchInv ==
  ASSUME StoreInv, WatchInv, terminateAllWatchers
  PROVE  WatchInv'
<1>1. LogStep /\ LogOK
  BY DEF terminateAllWatchers, storeVars, LogStep, StoreInv
<1>2. CacheInv'
  BY <1>1, CacheInvKept DEF WatchInv, CacheInv, terminateAllWatchers
<1>3. CallTypeOK'
  BY DEF WatchInv, CallTypeOK, terminateAllWatchers
<1>4. ASSUME NEW w \in Watcher PROVE WatcherInv(w)'
  <2>1. /\ done'[w] = (done[w] \/ listed[w]) /\ listed'[w] = FALSE
        /\ UNCHANGED <<rv, incoming, wpc, asked, initial, from, input, got, since, doubtful>>
    BY DEF terminateAllWatchers
  <2>2. LifeInv(w)'
    BY <1>1, <2>1, LogStepFacts DEF WatchInv, CallTypeOK, WatcherInv, LifeInv
  <2>3. ASSUME wpc[w] = "open", ~doubtful[w] PROVE HeardInv(w)'
    BY <1>1, <2>1, <2>3, HeardKept DEF WatchInv, WatcherInv
  <2> QED  BY <2>1, <2>2, <2>3 DEF WatcherInv
<1> QED  BY <1>2, <1>3, <1>4 DEF WatchInv

LEMMA EventHasRev ==
  /\ \A e \in Event : e.rev \in Nat
  /\ \A h \in [type : {"ADDED", "MODIFIED", "DELETED"}, rev : Nat] : h.rev \in Nat
BY DEF Event

\* The window starts anew, and nobody is listed who would miss something.
LEMMA ReplaceWatchInv ==
  ASSUME StoreInv, WatchInv, Replace
  PROVE  WatchInv'
<1>1. LogStep /\ LogOK /\ UNCHANGED log /\ Rev' = Rev /\ Rev \in Nat /\ Rev # 0 /\ Rev \in 1..Rev
  BY DEF Replace, storeVars, LogStep, StoreInv, LogOK, Rev
<1>2. \A w \in Watcher : ~(listed[w] /\ ~doubtful[w])
  BY DEF WatchInv, WatcherInv, LiveInv, Replace
<1>3. CallTypeOK'
  BY DEF WatchInv, CallTypeOK, Replace, callVars
<1>4. CASE conn' = "watch"
  <2>1. /\ ready' /\ stored' = ModRev(Rev) /\ rv' = Rev /\ listRV' = Rev /\ window' = <<>>
        /\ UNCHANGED <<incoming, callVars>>
    BY <1>4 DEF Replace
  <2>2. rv \in 0..Rev /\ rv' \in Nat /\ rv' >= rv
    BY <1>1, <2>1 DEF WatchInv, CacheInv
  <2>3. Events(incoming)'
    <3>1. PICK x : x = incoming
      OBVIOUS
    <3>2. Events(x)'
      BY <1>1, <2>2, <3>1, EventsKept DEF WatchInv, CacheInv
    <3> QED  BY <2>1, <3>1, <3>2 DEF Events, Happened, Rising
  <2>4. Events(window)'
    BY <2>1 DEF Events, Rising
  <2>5. stored' = ModRev(rv)'
    <3>1. PICK r \in Nat : r = Rev
      BY <1>1
    <3>2. ModRev(r)' = ModRev(r)
      BY <1>1, UnchangedLog
    <3> QED  BY <2>1, <3>1, <3>2
  <2>6. Len(window)' = 0 /\ Len(window)' # Capacity /\ Len(window)' <= Capacity /\ Oldest' = Rev + 1
    BY <1>1, <2>1, CacherAssumption DEF Oldest
  <2>7. ASSUME NEW q \in 1..rv', q >= Oldest' PROVE FALSE
    BY <1>1, <2>1, <2>6, <2>7
  <2>8. CacheInv'
    BY <1>1, <1>4, <2>1, <2>3, <2>4, <2>5, <2>6, <2>7 DEF CacheInv
  <2>9. ASSUME NEW w \in Watcher PROVE WatcherInv(w)'
    BY <1>1, <1>2, <2>1, WatcherKept DEF WatchInv, callVars
  <2> QED  BY <1>3, <2>8, <2>9 DEF WatchInv
<1>5. CASE conn' = "off"
  <2>1. UNCHANGED <<ready, stored, rv, listRV, window, incoming, callVars>>
    BY <1>5 DEF Replace
  <2> QED  BY <1>1, <1>5, <2>1, AllKept DEF WatchInv, CacheInv
<1> QED  BY <1>4, <1>5 DEF Replace

\* Where nothing changes, the object stays the same.
LEMMA SameBetween ==
  ASSUME LogOK, NEW a \in 1..Rev, NEW b \in a..Rev, \A q \in a + 1..b : ~Changed(q)
  PROVE  log[b] = log[a]
<1> SUFFICES ASSUME log[b] # log[a] PROVE FALSE
  OBVIOUS
<1>1. Rev \in Nat /\ a \in Nat /\ b \in Nat /\ a <= b
  BY DEF LogOK, Rev
<1> DEFINE D == {i \in a..b : log[i] # log[b]}
<1>2. a \in D /\ D \subseteq 0..b
  BY <1>1
<1>3. PICK i \in D : \A y \in D : y <= i
  <2> HIDE DEF D
  <2> QED  BY <1>1, <1>2, MaxExists
<1>4. i \in a..b /\ i # b /\ log[i] # log[b]
  BY <1>3
<1>5. i + 1 \in a..b /\ i + 1 \in a + 1..b /\ i + 1 # 1 /\ (i + 1) - 1 = i
  BY <1>1, <1>4
<1>6. i + 1 \notin D
  <2>1. i + 1 \in D => i + 1 <= i
    BY <1>3
  <2> QED  BY <1>1, <1>4, <2>1
<1>7. log[i + 1] = log[b]
  BY <1>5, <1>6
<1> QED  BY <1>4, <1>5, <1>7 DEF Changed

\* What processEvent makes of revision r has happened.
LEMMA NextEvent ==
  ASSUME StoreInv, CacheInv, conn = "watch", NEW r \in rv + 1..Rev, Changed(r),
         \A q \in rv + 1..r - 1 : ~Changed(q)
  PROVE  /\ rv \in 1..Rev /\ r \in 2..Rev /\ Value(stored) = log[r - 1]
         /\ log[r - 1] \in Val \cup {None}
<1>1. LogOK /\ Rev \in Nat /\ rv \in 1..Rev /\ stored = ModRev(rv)
  BY DEF StoreInv, LogOK, Rev, CacheInv
<1>2. r \in 2..Rev /\ r - 1 \in rv..Rev /\ r - 1 \in 1..Rev
  BY <1>1
<1>3. log[r - 1] = log[rv]
  BY <1>1, <1>2, SameBetween
<1>4. Value(stored) = log[rv]
  <2>1. stored \in Nat /\ (stored = 0 <=> log[rv] = None)
        /\ (log[rv] # None => log[stored] = log[rv])
    BY <1>1, ModRevFacts
  <2> QED  BY <2>1 DEF Value
<1>5. log[r - 1] \in Val \cup {None}
  BY <1>1, <1>2 DEF LogOK, Rev
<1> QED  BY <1>1, <1>2, <1>3, <1>4, <1>5

LEMMA ProcessCacheInv ==
  ASSUME StoreInv, CacheInv, processEvent, NEW r \in rv + 1..Rev, NEW e \in Event,
         Changed(r), \A q \in rv + 1..r - 1 : ~Changed(q),
         e = [rev |-> r, prev |-> Value(stored)],
         incoming' = Append(incoming, e), updateCache(e), rv' = r, stored' = ModRev(r)
  PROVE  CacheInv' /\ Happened(e)'
<1>1. /\ LogOK /\ LogStep /\ UNCHANGED <<log, listRV>> /\ Rev' = Rev /\ Rev \in Nat
      /\ conn = "watch" /\ conn' = "watch"
  BY DEF processEvent, storeVars, LogStep, StoreInv, LogOK, Rev
<1>2. /\ rv \in 1..Rev /\ r \in 2..Rev /\ e.rev = r /\ e.prev = log[r - 1]
      /\ rv < r /\ listRV \in 0..rv /\ rv \in Nat /\ r \in Nat
  BY <1>1, NextEvent DEF CacheInv
<1>3. \A q \in 1..Rev : Changed(q)' <=> Changed(q)
  BY <1>1, LogStepFacts
<1>4. Happened(e)'
  BY <1>1, <1>2, <1>3 DEF Happened
<1>5. rv \in 0..Rev /\ rv' \in Nat /\ rv' >= rv
  BY <1>2
<1>6. ASSUME NEW s, Events(s)
      PROVE  /\ Events(s)' /\ \A x \in Revs(s) : x < r
             /\ Append(s, e) \in Seq(Event) /\ Rising(Append(s, e))
             /\ \A i \in 1..Len(Append(s, e)) : Happened(Append(s, e)[i])'
             /\ Revs(Append(s, e)) = Revs(s) \cup {r}
  <2>1. Events(s)'
    BY <1>1, <1>5, <1>6, EventsKept
  <2>2. s \in Seq(Event) /\ Rising(s)
    BY <1>6 DEF Events
  <2>3. \A x \in Revs(s) : x < r
    BY <1>2, <1>6 DEF Events, Happened, Revs
  <2>4. Rising(Append(s, e)) /\ Revs(Append(s, e)) = Revs(s) \cup {r}
    BY <1>2, <2>2, <2>3, RevsAppend, EventHasRev
  <2>5. ASSUME NEW i \in 1..Len(Append(s, e)) PROVE Happened(Append(s, e)[i])'
    <3>1. CASE i = Len(s) + 1
      <4>1. Append(s, e)[i] = e
        BY <2>2, <3>1
      <4> QED  BY <1>4, <4>1
    <3>2. CASE i # Len(s) + 1
      <4>1. i \in 1..Len(s) /\ Append(s, e)[i] = s[i]
        BY <2>2, <3>2
      <4> QED  BY <2>1, <4>1 DEF Events
    <3> QED  BY <3>1, <3>2
  <2> QED  BY <2>1, <2>2, <2>3, <2>4, <2>5
<1>7. Events(incoming)'
  <2>1. PICK x : x = incoming
    OBVIOUS
  <2> QED  BY <1>6, <2>1 DEF CacheInv, Events, Rising
<1>8. PICK k : k = IF Len(window) = Capacity THEN Tail(window) ELSE window
  OBVIOUS
<1>9. window' = Append(k, e)
  BY <1>8 DEF updateCache
<1>10. /\ Events(window) /\ window \in Seq(Event) /\ Len(window) \in Nat
       /\ Rising(window) /\ Len(window) <= Capacity /\ Capacity \in Nat /\ Capacity # 0
  BY CacherAssumption DEF CacheInv, Events
<1>11. window # <<>> =>
         /\ Tail(window) \in Seq(Event) /\ Rising(Tail(window)) /\ Head(window) = window[1]
         /\ Revs(Tail(window)) = Revs(window) \ {window[1].rev}
         /\ \A x \in Revs(Tail(window)) : window[1].rev < x
         /\ \A i \in 1..Len(Tail(window)) :
              i + 1 \in 1..Len(window) /\ Tail(window)[i] = window[i + 1]
         /\ Len(Tail(window)) = Len(window) - 1
  BY <1>10, RevsTail, EventHasRev
<1>12. Len(window) = Capacity => window # <<>>
  BY <1>10
<1>13. /\ Events(k) /\ Revs(k) \subseteq Revs(window) /\ k \in Seq(Event)
       /\ Len(k) \in Nat /\ Len(k) < Capacity
  <2>1. CASE Len(window) = Capacity
    <3>1. k = Tail(window)
      BY <1>8, <2>1
    <3>2. \A i \in 1..Len(k) : Happened(k[i])
      BY <1>10, <1>11, <1>12, <2>1, <3>1 DEF Events
    <3> QED  BY <1>10, <1>11, <1>12, <2>1, <3>1, <3>2 DEF Events
  <2>2. CASE Len(window) # Capacity
    BY <1>8, <1>10, <2>2
  <2> QED  BY <2>1, <2>2
<1>14. /\ Events(window)' /\ Revs(window)' = Revs(k) \cup {r} /\ Len(window') = Len(k) + 1
       /\ Len(window') <= Capacity
  BY <1>6, <1>9, <1>10, <1>13 DEF Events, Revs, Rising
<1>15. \A x \in Revs(window) : x > listRV
  BY DEF CacheInv, Revs
<1>16. \A i \in 1..Len(window') : window'[i].rev \in Revs(k) \cup {r}
  BY <1>14 DEF Revs
<1>17. \A i \in 1..Len(window') : window'[i].rev > listRV
  BY <1>2, <1>13, <1>15, <1>16
<1>18. ASSUME NEW q \in 1..rv', q >= Oldest', Changed(q)' PROVE q \in Revs(window)'
  <2>1. q \in 1..Rev /\ Changed(q) /\ q \in Nat /\ q <= r
    <3>1. q \in 1..Rev /\ q \in Nat /\ q <= r
      BY <1>1, <1>2
    <3> QED  BY <1>3, <1>18, <3>1
  <2>2. CASE q > rv
    <3>1. q \notin rv + 1..r - 1
      BY <2>1
    <3>2. q = r
      BY <1>2, <2>1, <2>2, <3>1
    <3> QED  BY <1>14, <3>2
  <2>3. CASE q <= rv /\ Len(window) = Capacity
    <3>1. k = Tail(window) /\ Oldest = window[1].rev /\ Len(window') = Capacity
          /\ Oldest' = window'[1].rev
      BY <1>8, <1>10, <1>11, <1>12, <1>14, <2>3 DEF Oldest
    <3>2. k # <<>>
      <4> SUFFICES ASSUME k = <<>> PROVE FALSE
        OBVIOUS
      <4>1. window'[1] = e
        BY <1>9
      <4> QED  BY <1>2, <1>18, <2>3, <3>1, <4>1
    <3>3. 1 \in 1..Len(k) /\ window'[1] = k[1]
      BY <1>9, <1>13, <3>2
    <3>4. window[1].rev < window'[1].rev
      BY <1>11, <1>12, <2>3, <3>1, <3>3 DEF Revs
    <3>5. window[1].rev \in Nat /\ window'[1].rev \in Nat
      BY <1>10, <1>11, <1>12, <1>13, <2>3, <3>3, EventHasRev
    <3>6. q > window[1].rev
      BY <1>18, <2>1, <3>1, <3>4, <3>5
    <3>7. q \in Revs(window)
      BY <1>2, <2>1, <2>3, <3>1, <3>5, <3>6 DEF CacheInv
    <3> QED  BY <1>11, <1>12, <1>14, <2>1, <2>3, <3>1, <3>5, <3>6, <3>7
  <2>4. CASE q <= rv /\ Len(window) # Capacity
    <3>1. k = window /\ Oldest = listRV + 1
      BY <1>8, <2>4 DEF Oldest
    <3>2. Oldest' = listRV + 1 \/ Oldest' = window'[1].rev
      BY <1>1 DEF Oldest
    <3>3. 1 \in 1..Len(window')
      BY <1>13, <1>14
    <3>4. window'[1].rev \in Nat
      BY <1>13, <1>14, <3>3, EventHasRev DEF Events
    <3>5. q >= listRV + 1
      BY <1>2, <1>17, <1>18, <2>1, <3>2, <3>3, <3>4
    <3>6. q \in Revs(window)
      BY <1>2, <2>1, <2>4, <3>1, <3>5 DEF CacheInv
    <3> QED  BY <1>14, <3>1, <3>6
  <2> QED  BY <1>2, <2>1, <2>2, <2>3, <2>4
<1>19. stored' = ModRev(rv)'
  BY <1>1, UnchangedLog
<1> QED  BY <1>1, <1>2, <1>4, <1>7, <1>14, <1>17, <1>18, <1>19 DEF CacheInv

\* A new event is the only one, of what has become known, that is of interest.
LEMMA ProcessLive ==
  ASSUME StoreInv, CacheInv, CallTypeOK, processEvent, NEW r \in rv + 1..Rev, NEW e \in Event,
         Changed(r), \A q \in rv + 1..r - 1 : ~Changed(q),
         e = [rev |-> r, prev |-> Value(stored)],
         incoming' = Append(incoming, e), rv' = r, NEW w \in Watcher, HeardInv(w), LiveInv(w)
  PROVE  LiveInv(w)'
<1>1. /\ LogOK /\ LogStep /\ UNCHANGED <<log, callVars>> /\ Rev' = Rev /\ Rev \in Nat
      /\ conn = "watch" /\ conn' = "watch"
  BY DEF processEvent, storeVars, LogStep, StoreInv, LogOK, Rev
<1>2. /\ rv \in 1..Rev /\ r \in 2..Rev /\ e.rev = r /\ rv < r /\ rv \in Nat /\ r \in Nat
      /\ since[w] \in 1..Rev /\ since[w] \in Nat /\ from[w] \in Nat
  BY <1>1, NextEvent DEF HeardInv, CallTypeOK
<1>3. \A q \in 1..Rev : Told(w, q)' = Told(w, q)
  BY <1>1, <1>2, ToldKept DEF callVars
<1>4. Revs(incoming)' = Revs(incoming) \cup {r} /\ \A x \in Revs(incoming) : x \in Nat /\ x <= rv
  <2>1. incoming \in Seq(Event) /\ \A i \in 1..Len(incoming) : incoming[i].rev \in 2..rv
    BY DEF CacheInv, Events, Happened
  <2>2. Revs(Append(incoming, e)) = Revs(incoming) \cup {e.rev}
    BY <2>1, RevsAppend, EventHasRev, Zenon
  <2>3. Revs(incoming)' = Revs(Append(incoming, e))
    BY Zenon DEF Revs
  <2>4. \A x \in Revs(incoming) : x \in 2..rv
    BY <2>1, Zenon DEF Revs
  <2> QED  BY <1>1, <1>2, <2>2, <2>3, <2>4
<1>5. \A x \in Revs(input[w]) : x \in Nat /\ x <= rv
  <2>1. \A x \in Revs(input[w]) : x \in 2..rv
    BY Zenon DEF LiveInv, Events, Happened, Revs
  <2> QED  BY <1>1, <1>2, <2>1
<1>6. \A x \in Revs(initial[w]) \cup Revs(got[w]) : x \in Nat /\ x <= rv
  <2>1. \A x \in Revs(initial[w]) : x \in Nat /\ x <= rv
    BY <1>2 DEF LiveInv, Revs
  <2>2. \A x \in Revs(got[w]) : x \in Nat
    BY <1>2 DEF HeardInv, Revs
  <2> QED  BY <2>1, <2>2 DEF LiveInv
<1>7. /\ Revs(got[w])' = Revs(got[w]) /\ Revs(initial[w])' = Revs(initial[w])
      /\ Later(w, input[w])' = Later(w, input[w]) /\ Revs(input[w])' = Revs(input[w])
  BY <1>1 DEF Revs, Later, callVars
<1>8. /\ \A x \in Later(w, incoming)' : x \in Later(w, incoming) \/ (x = r /\ r > from[w])
      /\ Later(w, incoming) \subseteq Later(w, incoming)'
      /\ r > from[w] => r \in Later(w, incoming)'
  BY <1>1, <1>4 DEF Later, callVars
<1>9. (Below(Revs(input[w]), Revs(incoming)))'
  BY <1>2, <1>4, <1>5, <1>7 DEF LiveInv, Below
<1>10. (Below(Revs(got[w]), Revs(initial[w])))'
  BY <1>7 DEF LiveInv, Below
<1>11. (Below(Revs(got[w]) \cup Revs(initial[w]), Later(w, input[w]) \cup Later(w, incoming)))'
  <2>1. \A x \in Revs(got[w]) \cup Revs(initial[w]), y \in Later(w, input[w]) \cup Later(w, incoming) : x < y
    BY DEF LiveInv, Below
  <2>2. \A x \in Revs(got[w]) \cup Revs(initial[w]) : x < r
    BY <1>2, <1>6
  <2> QED  BY <1>7, <1>8, <2>1, <2>2 DEF Below
<1>12. since[w] <= rv \/ (from[w] = since[w] /\ asked[w].rv # 0)
  BY DEF LiveInv
<1>13. from[w] <= rv \/ from[w] = since[w]
  BY DEF LiveInv
<1>14. (\A x \in Later(w, input[w]) \cup Later(w, incoming) : x > since[w])'
  <2>1. r > from[w] => r > since[w]
    BY <1>2, <1>12
  <2> QED  BY <1>1, <1>7, <1>8, <2>1 DEF LiveInv, callVars
<1>15. (Rising(initial[w]) /\ Events(input[w]))'
  <2>1. PICK x : x = input[w]
    OBVIOUS
  <2>2. Events(x)'
    BY <1>1, <1>2, <2>1, EventsKept DEF LiveInv
  <2> QED  BY <1>1, <2>1, <2>2 DEF LiveInv, Events, Happened, Rising, callVars
<1>16. ASSUME NEW i \in 1..Len(initial[w]), NEW x, x = initial[w][i]
       PROVE  /\ x.rev \in since[w]..r
              /\ Heard(asked[w].select, x.prev, log[x.rev], x.rev) = Told(w, x.rev)'
  <2>2. x.rev \in since[w]..rv /\ Heard(asked[w].select, x.prev, log[x.rev], x.rev) = Told(w, x.rev)
    BY <1>16 DEF LiveInv
  <2>3. x.rev \in 1..Rev /\ x.rev \in since[w]..r
    BY <1>1, <1>2, <2>2
  <2>4. Told(w, x.rev)' = Told(w, x.rev)
    BY <1>3, <2>3
  <2> QED  BY <2>2, <2>3, <2>4
<1>17. ASSUME NEW q \in 1..r, q >= since[w], Told(w, q)' # <<>>
       PROVE  q \in (Revs(got[w]) \cup Revs(initial[w]) \cup Later(w, input[w]) \cup Later(w, incoming))'
  <2>1. q \in Nat /\ q \in 1..Rev
    BY <1>1, <1>2
  <2>2. Told(w, q) # <<>>
    BY <1>3, <1>17, <2>1
  <2>3. CASE q <= rv
    <3>1. q \in 1..rv
      BY <1>2, <2>1, <2>3
    <3>2. q \in Revs(got[w]) \cup Revs(initial[w]) \cup Later(w, input[w]) \cup Later(w, incoming)
      BY <1>17, <2>2, <3>1 DEF LiveInv
    <3> QED  BY <1>7, <1>8, <3>2
  <2>4. CASE q > rv
    <3>1. ~(q = since[w] /\ asked[w].rv = 0)
      BY <1>2, <1>12, <2>1, <2>4
    <3>2. q > since[w] /\ Changed(q)
      BY <2>2, <3>1 DEF Told
    <3>3. q \notin rv + 1..r - 1
      BY <3>2
    <3>4. q = r
      BY <1>2, <2>1, <2>4, <3>3
    <3>5. r > from[w]
      BY <1>2, <1>13, <3>2, <3>4
    <3> QED  BY <1>8, <3>4, <3>5
  <2> QED  BY <1>2, <2>1, <2>3, <2>4
<1>18. \A x \in Revs(got[w])' : x <= r
  BY <1>2, <1>6, <1>7
<1>19. since[w] <= r \/ (from[w] = since[w] /\ asked[w].rv # 0)
  BY <1>2, <1>12
<1>20. from[w] <= r \/ from[w] = since[w]
  BY <1>2, <1>13
<1> HIDE DEF Revs, Later
<1> QED  BY <1>1, <1>9, <1>10, <1>11, <1>14, <1>15, <1>16, <1>17, <1>18, <1>19, <1>20
         DEF LiveInv, callVars

LEMMA ProcessWatchInv ==
  ASSUME StoreInv, WatchInv, processEvent
  PROVE  WatchInv'
<1>1. PICK r \in rv + 1..Rev :
        /\ Changed(r) /\ \A q \in rv + 1..r - 1 : ~Changed(q)
        /\ incoming' = Append(incoming, [rev |-> r, prev |-> Value(stored)])
        /\ updateCache([rev |-> r, prev |-> Value(stored)])
        /\ rv' = r /\ stored' = ModRev(r)
  BY DEF processEvent
<1>2. PICK e : e = [rev |-> r, prev |-> Value(stored)]
  OBVIOUS
<1>3. /\ rv \in 1..Rev /\ r \in 2..Rev /\ Value(stored) = log[r - 1]
      /\ log[r - 1] \in Val \cup {None}
  BY <1>1, NextEvent DEF WatchInv, processEvent
<1>4. r \in Nat /\ rv' # 0 /\ LogOK /\ LogStep /\ UNCHANGED callVars
  BY <1>1, <1>3 DEF StoreInv, LogStep, processEvent, storeVars
<1>5. e \in Event
  BY <1>2, <1>3, <1>4 DEF Event
<1>6. CacheInv'
  BY <1>1, <1>2, <1>5, ProcessCacheInv DEF WatchInv
<1>7. CallTypeOK'
  BY <1>4 DEF WatchInv, CallTypeOK, callVars
<1>8. ASSUME NEW w \in Watcher PROVE WatcherInv(w)'
  <2>1. LifeInv(w)'
    BY <1>4, LogStepFacts DEF WatchInv, WatcherInv, LifeInv, callVars
  <2>2. ASSUME wpc[w] = "open", ~doubtful[w] PROVE HeardInv(w)'
    BY <1>4, <2>2, HeardKept DEF WatchInv, WatcherInv, callVars
  <2>3. ASSUME listed[w], ~doubtful[w] PROVE LiveInv(w)'
    <3>1. HeardInv(w) /\ LiveInv(w)
      BY <2>3 DEF WatchInv, WatcherInv, LifeInv
    <3> QED  BY <1>1, <1>2, <1>5, <3>1, ProcessLive DEF WatchInv
  <2> QED  BY <1>4, <2>1, <2>2, <2>3 DEF WatcherInv, callVars
<1> QED  BY <1>6, <1>7, <1>8 DEF WatchInv

LEMMA BreakWatchInv ==
  ASSUME StoreInv, WatchInv, WatchBreaks
  PROVE  WatchInv'
BY AllKept DEF WatchBreaks, StoreInv, LogStep, storeVars

-----------------------------------------------------------------------------
(* Steps of one watcher *)

\* It is enough to look at the watcher that takes the step.
LEMMA OneWatcherMoves ==
  ASSUME StoreInv, WatchInv, UNCHANGED <<storeVars, cacheVars>>, NEW w \in Watcher,
         CallTypeOK', WatcherInv(w)',
         \A v \in Watcher \ {w} :
           /\ wpc'[v] = wpc[v] /\ asked'[v] = asked[v] /\ initial'[v] = initial[v]
           /\ from'[v] = from[v] /\ input'[v] = input[v] /\ listed'[v] = listed[v]
           /\ done'[v] = done[v] /\ got'[v] = got[v] /\ since'[v] = since[v]
           /\ doubtful'[v] = doubtful[v]
  PROVE  WatchInv'
<1>1. LogOK /\ LogStep
  BY DEF StoreInv, LogStep, storeVars
<1>2. CacheInv'
  BY <1>1, CacheInvKept DEF WatchInv, CacheInv, cacheVars
<1>3. ASSUME NEW v \in Watcher PROVE WatcherInv(v)'
  <2>1. CASE v = w
    BY <2>1
  <2>2. CASE v # w
    <3>1. listed[v] /\ ~doubtful[v] => conn # "list"
      BY DEF WatchInv, WatcherInv, LiveInv
    <3> QED  BY <1>1, <2>2, <3>1, WatcherKept DEF WatchInv, cacheVars
  <2> QED  BY <2>1, <2>2
<1> QED  BY <1>2, <1>3 DEF WatchInv

LEMMA SelectionsTypeOK == \A s \in Selections : s \in SUBSET Val
BY CacherAssumption DEF Selections

LEMMA WatchReadyInv ==
  ASSUME StoreInv, WatchInv, NEW w \in Watcher, WatchReady(w)
  PROVE  WatchInv'
<1>1. PICK r \in 0..Rev, s \in Selections : asked' = [asked EXCEPT ![w] = [rv |-> r, select |-> s]]
  BY DEF WatchReady
<1>2. Rev \in Nat /\ r \in Nat /\ s \in SUBSET Val /\ Rev' = Rev /\ rv' = rv /\ rv # 0
  BY SelectionsTypeOK DEF StoreInv, LogOK, Rev, WatchReady, storeVars, cacheVars, WatchInv, CacheInv
<1>3. CallTypeOK'
  BY <1>1, <1>2 DEF WatchInv, CallTypeOK, WatchReady
<1>4. wpc[w] = "none" /\ wpc'[w] = "ready" /\ asked'[w] = [rv |-> r, select |-> s]
  BY <1>1 DEF WatchReady, Free, WatchInv, CallTypeOK
<1>5. LifeInv(w)'
  BY <1>2, <1>4 DEF WatchInv, WatcherInv, LifeInv, WatchReady
<1>6. WatcherInv(w)'
  BY <1>4, <1>5 DEF WatcherInv, LifeInv
<1> QED  BY <1>1, <1>3, <1>6, OneWatcherMoves DEF WatchReady, WatchInv, CallTypeOK

LEMMA TooOldInv ==
  ASSUME StoreInv, WatchInv, NEW w \in Watcher, TooOld(w)
  PROVE  WatchInv'
<1>1. CallTypeOK'
  BY DEF WatchInv, CallTypeOK, TooOld, Nothing
<1>2. wpc[w] = "ready" /\ wpc'[w] = "closed"
  BY DEF TooOld, WatchInv, CallTypeOK
<1>3. WatcherInv(w)'
  BY <1>2 DEF WatchInv, WatcherInv, LifeInv, TooOld
<1> QED  BY <1>1, <1>3, OneWatcherMoves DEF TooOld, WatchInv, CallTypeOK

LEMMA StopWatchInv ==
  ASSUME StoreInv, WatchInv, NEW w \in Watcher, StopWatch(w)
  PROVE  WatchInv'
<1>1. CallTypeOK'
  BY DEF WatchInv, CallTypeOK, StopWatch
<1>2. /\ wpc[w] = "open" /\ wpc'[w] = "open" /\ ~listed'[w] /\ done'[w]
      /\ LogOK /\ LogStep /\ UNCHANGED <<wpc, asked, since, got, doubtful>>
  BY DEF StopWatch, WatchInv, CallTypeOK, StoreInv, LogStep, storeVars
<1>3. LifeInv(w)'
  BY <1>2 DEF LifeInv
<1>4. ~doubtful[w] => HeardInv(w)'
  BY <1>2, HeardKept DEF WatchInv, WatcherInv
<1>5. WatcherInv(w)'
  BY <1>2, <1>3, <1>4 DEF WatcherInv
<1> QED  BY <1>1, <1>5, OneWatcherMoves DEF StopWatch, WatchInv, CallTypeOK

LEMMA ProcessEndsInv ==
  ASSUME StoreInv, WatchInv, NEW w \in Watcher, ProcessEnds(w)
  PROVE  WatchInv'
<1>1. CallTypeOK'
  BY DEF WatchInv, CallTypeOK, ProcessEnds, Nothing
<1>2. wpc[w] = "open" /\ wpc'[w] = "closed" /\ done[w] /\ UNCHANGED <<listed, done>>
  BY DEF ProcessEnds, WatchInv, CallTypeOK
<1>3. WatcherInv(w)'
  BY <1>2 DEF WatchInv, WatcherInv, LifeInv
<1> QED  BY <1>1, <1>3, OneWatcherMoves DEF ProcessEnds, WatchInv, CallTypeOK

-----------------------------------------------------------------------------
(* Registration *)

\* A set of natural numbers has a least one.
LEMMA MinExists ==
  ASSUME NEW S, S \subseteq Nat, S # {}
  PROVE  Min(S) \in S /\ \A y \in S : Min(S) <= y
<1>1. PICK b \in S : \A y \in S : ~(<<y, b>> \in OpToRel(<, Nat))
  BY NatLessThanWellFounded, WFMin
<1>2. \A y \in S : b <= y
  <2>1. \A y \in S : ~(y < b)
    BY <1>1 DEF OpToRel
  <2> QED  BY <2>1
<1>3. \E x \in S : \A y \in S : x <= y
  BY <1>2
<1> QED  BY <1>3, Zenon DEF Min

\* What is found in the window is all of it after revision a.
LEMMA AfterFacts ==
  ASSUME window \in Seq(Event), Rising(window), NEW a \in Nat
  PROVE  /\ After(a) \in Seq(Event) /\ Rising(After(a))
         /\ \A i \in 1..Len(After(a)) :
              After(a)[i].rev > a /\ \E j \in 1..Len(window) : After(a)[i] = window[j]
         /\ \A x \in Revs(window) : x > a => x \in Revs(After(a))
<1> DEFINE n == Len(window)
           C == {i \in 1..n : window[i].rev > a}
           f == Min(C \cup {n + 1})
           t == SubSeq(window, f, n)
<1>1. n \in Nat /\ \A i \in 1..n : window[i] \in Event /\ window[i].rev \in Nat
  BY EventHasRev
<1>2. C \subseteq 1..n /\ C \cup {n + 1} \subseteq Nat
  BY <1>1
<1>3. f \in C \cup {n + 1} /\ \A y \in C \cup {n + 1} : f <= y
  <2> HIDE DEF C
  <2> QED  BY <1>2, MinExists
<1>4. f \in 1..n + 1
  BY <1>1, <1>3
<1>5. \A i \in 1..n : i < f => ~(window[i].rev > a)
  BY <1>1, <1>3
<1>6. f # n + 1 => f \in 1..n /\ window[f].rev > a
  BY <1>3
<1> HIDE DEF C, f, n
<1>7. \A i \in 1..n : i >= f => window[i].rev > a
  <2> SUFFICES ASSUME NEW i \in 1..n, i >= f PROVE window[i].rev > a
    OBVIOUS
  <2>1. f \in 1..n /\ window[f].rev > a
    BY <1>1, <1>4, <1>6
  <2>2. i # f => window[f].rev < window[i].rev
    BY <1>1, <1>4, <2>1 DEF Rising, n
  <2> QED  BY <1>1, <2>1, <2>2
<1>8. /\ t \in Seq(Event) /\ Len(t) = (n + 1) - f
      /\ \A i \in 1..Len(t) : t[i] = window[f + i - 1]
  <2>1. f \in Nat /\ n \in Nat /\ f <= n + 1 /\ f >= 1
    BY <1>1, <1>4
  <2>2. \A i \in f..n : i \in 1..Len(window)
    BY <2>1 DEF n
  <2>3. \A i \in f..n : window[i] \in Event
    BY <2>2
  <2> QED  BY <2>1, <2>3 DEF n
<1>9. \A i \in 1..Len(t) : f + i - 1 \in 1..n /\ f + i - 1 >= f
  BY <1>1, <1>4, <1>8
<1>10. After(a) = t
  BY DEF After, t, f, C, n
<1> HIDE DEF t
<1>11. Rising(t)
  <2> SUFFICES ASSUME NEW i \in 1..Len(t), NEW j \in 1..Len(t), i < j
               PROVE  t[i].rev < t[j].rev
    BY DEF Rising
  <2>1. f + i - 1 < f + j - 1
    BY <1>1, <1>4, <1>8
  <2> QED  BY <1>8, <1>9, <2>1 DEF Rising, n
<1>12. \A i \in 1..Len(t) : t[i].rev > a /\ \E j \in 1..Len(window) : t[i] = window[j]
  BY <1>7, <1>8, <1>9 DEF n
<1>13. ASSUME NEW j \in 1..n, window[j].rev > a PROVE window[j].rev \in Revs(t)
  <2>1. j >= f /\ j - f + 1 \in 1..Len(t) /\ f + (j - f + 1) - 1 = j
    BY <1>1, <1>4, <1>5, <1>8, <1>13
  <2>2. t[j - f + 1] = window[j]
    BY <1>8, <2>1
  <2> QED  BY <2>1, <2>2 DEF Revs
<1>14. \A x \in Revs(window) : x > a => x \in Revs(t)
  BY <1>13 DEF Revs, n
<1> QED  BY <1>8, <1>10, <1>11, <1>12, <1>14

\* What a watcher gets when it is registered, and where it starts from: the
\* events it is given and those on their way that it will take are, together,
\* what it has to hear of.
Registered(w, i, f, s) ==
  LET a == asked[w].rv IN
  /\ i \in Seq(Event) /\ Rising(i) /\ f \in Nat /\ s \in 1..Rev
  /\ s <= rv \/ (f = s /\ a # 0)
  /\ f <= rv \/ f = s
  /\ \A x \in Revs(i) : x <= f
  /\ \A j \in 1..Len(i) : /\ i[j].rev \in s..rv
                          /\ a = 0 => i[j].rev = s /\ i[j].prev = None
                          /\ a # 0 => i[j].rev > s /\ Happened(i[j])
  /\ \A x \in Revs(incoming) : x > f => x > s
  /\ a = 0 => s = rv
  /\ a = 0 /\ log[s] # None => s \in Revs(i)
  /\ \A q \in 1..rv : q > s /\ Changed(q) => q \in Revs(i)

LEMMA RegisterFacts ==
  ASSUME StoreInv, CacheInv, NEW w \in Watcher, asked[w].rv \in 0..Rev, rv # 0,
         asked[w].rv = 0 \/ asked[w].rv >= Oldest - 1,
         ~(asked[w].rv = 0 /\ stored = 0 /\ incoming # <<>>)
  PROVE  Registered(w, EventsSince(asked[w].rv), StartsFrom(w),
                    IF asked[w].rv = 0 THEN rv ELSE asked[w].rv)
<1> PICK a : a = asked[w].rv
  OBVIOUS
<1>1. /\ LogOK /\ Rev \in Nat /\ rv \in Nat /\ rv \in 1..Rev /\ a \in Nat /\ a <= Rev
      /\ stored = ModRev(rv)
  BY DEF StoreInv, LogOK, Rev, CacheInv
<1>2. stored = 0 <=> log[rv] = None
  BY <1>1, ModRevFacts
<1>3. \A x \in Revs(incoming) : x \in Nat /\ x <= rv
  <2>1. \A x \in Revs(incoming) : x \in 2..rv
    BY Zenon DEF CacheInv, Events, Happened, Revs
  <2> QED  BY <1>1, <2>1
<1>4. CASE a = 0 /\ stored = 0
  <2>1. EventsSince(a) = <<>> /\ StartsFrom(w) = 0 /\ incoming = <<>>
    BY <1>4 DEF EventsSince, StartsFrom
  <2>2. Revs(<<>>) = {} /\ Revs(incoming) = {}
    BY <2>1 DEF Revs
  <2>3. \A q \in 1..rv : ~(q > rv)
    BY <1>1
  <2>4. <<>> \in Seq(Event) /\ Rising(<<>>) /\ Len(<<>>) = 0
    BY DEF Rising
  <2>5. Registered(w, <<>>, 0, rv)
    BY <1>1, <1>2, <1>4, <2>2, <2>3, <2>4 DEF Registered
  <2> QED  BY <1>4, <2>1, <2>5
<1>5. CASE a = 0 /\ stored # 0
  <2>1. PICK e : e = [rev |-> rv, prev |-> None]
    OBVIOUS
  <2>2. e.rev = rv /\ e.prev = None /\ e \in Event
    BY <1>1, <2>1 DEF Event
  <2>3. PICK i : i = <<e>>
    OBVIOUS
  <2>4. i \in Seq(Event) /\ Len(i) = 1 /\ i[1] = e /\ i # <<>> /\ Last(i).rev = rv
    BY <2>2, <2>3 DEF Last
  <2>5. EventsSince(a) = i /\ StartsFrom(w) = rv
    BY <1>5, <2>1, <2>3, <2>4 DEF EventsSince, StartsFrom
  <2>6. Rising(i) /\ Revs(i) = {rv}
    BY <2>2, <2>4 DEF Rising, Revs
  <2>7. \A q \in 1..rv : ~(q > rv)
    BY <1>1
  <2>8. \A j \in 1..Len(i) : i[j].rev = rv /\ i[j].prev = None /\ i[j].rev \in rv..rv
    BY <1>1, <2>2, <2>4
  <2>9. Registered(w, i, rv, rv)
    BY <1>1, <1>3, <1>5, <2>4, <2>6, <2>7, <2>8 DEF Registered
  <2> QED  BY <1>5, <2>5, <2>9
<1>6. CASE a # 0
  <2>1. PICK i : i = After(a)
    OBVIOUS
  <2>2. EventsSince(a) = i
    BY <1>1, <1>6, <2>1 DEF EventsSince
  <2>3. /\ i \in Seq(Event) /\ Rising(i)
        /\ \A j \in 1..Len(i) : i[j].rev > a /\ \E k \in 1..Len(window) : i[j] = window[k]
        /\ \A x \in Revs(window) : x > a => x \in Revs(i)
    BY <1>1, <2>1, AfterFacts DEF CacheInv, Events
  <2>4. Len(i) \in Nat /\ \A j \in 1..Len(i) : Happened(i[j]) /\ i[j].rev \in 2..rv
    <3>1. \A k \in 1..Len(window) : Happened(window[k])
      BY DEF CacheInv, Events
    <3>2. \A j \in 1..Len(i) : Happened(i[j])
      BY <2>3, <3>1, Zenon
    <3> QED  BY <2>3, <3>2 DEF Happened
  <2>5. \A q \in 1..rv : q > a /\ Changed(q) => q \in Revs(i)
    <3> SUFFICES ASSUME NEW q \in 1..rv, q > a, Changed(q) PROVE q \in Revs(i)
      OBVIOUS
    <3>1. Oldest \in Nat
      <4>1. Len(window) = Capacity => window[1] \in Event
        BY CacherAssumption DEF CacheInv, Events
      <4> QED  BY <1>1, <4>1, EventHasRev DEF Oldest, CacheInv
    <3>2. q >= Oldest
      BY <1>1, <1>6, <3>1
    <3>3. q \in Revs(window)
      BY <3>2 DEF CacheInv
    <3> QED  BY <2>3, <3>3
  <2>6. CASE i = <<>>
    <3>1. StartsFrom(w) = a
      BY <2>2, <2>6 DEF StartsFrom
    <3>2. Revs(i) = {} /\ Len(i) = 0
      BY <2>6 DEF Revs
    <3>3. a > rv \/ a <= rv
      BY <1>1
    <3>4. Registered(w, i, a, a)
      BY <1>1, <1>6, <2>3, <2>5, <3>2 DEF Registered
    <3> QED  BY <1>6, <2>2, <3>1, <3>4
  <2>7. CASE i # <<>>
    <3>1. PICK n \in Nat : n = Len(i) /\ n \in 1..Len(i)
      BY <2>3, <2>7
    <3>2. PICK f : f = i[n].rev
      OBVIOUS
    <3>3. StartsFrom(w) = f
      BY <2>2, <2>7, <3>1, <3>2 DEF StartsFrom, Last
    <3>4. f \in Nat /\ f <= rv /\ f > a
      BY <1>1, <2>3, <2>4, <3>1, <3>2
    <3>5. \A x \in Revs(i) : x <= f
      <4>1. ASSUME NEW j \in 1..Len(i) PROVE i[j].rev <= f
        <5>1. j # n => i[j].rev < f
          BY <2>3, <3>1, <3>2 DEF Rising
        <5>2. i[j].rev \in Nat
          BY <1>1, <2>4
        <5> QED  BY <3>2, <3>4, <5>1, <5>2
      <4> QED  BY <4>1 DEF Revs
    <3>6. \A j \in 1..Len(i) : i[j].rev \in a..rv
      BY <1>1, <2>3, <2>4
    <3>7. \A x \in Revs(incoming) : x > f => x > a
      BY <1>1, <1>3, <3>4
    <3>8. a <= rv
      BY <1>1, <3>4
    <3>9. Registered(w, i, f, a)
      BY <1>1, <1>6, <2>3, <2>4, <2>5, <3>4, <3>5, <3>6, <3>7, <3>8 DEF Registered
    <3> QED  BY <1>6, <2>2, <3>3, <3>9
  <2> QED  BY <2>6, <2>7
<1> QED  BY <1>4, <1>5, <1>6

\* A watcher that is registered so has everything to come.
LEMMA RegisterLive ==
  ASSUME StoreInv, CacheInv, CallTypeOK, NEW w \in Watcher, conn # "list",
         NEW i, NEW f, NEW s, Registered(w, i, f, s),
         UNCHANGED <<storeVars, cacheVars, asked, input, got>>,
         input[w] = <<>>, got[w] = <<>>,
         initial'[w] = i, from'[w] = f, since'[w] = s
  PROVE  HeardInv(w)' /\ LiveInv(w)'
<1> PICK a : a = asked[w].rv
  OBVIOUS
<1> PICK h : h = asked[w].select
  OBVIOUS
<1>1. /\ Rev \in Nat /\ Rev' = Rev /\ rv \in 1..Rev \cup {0} /\ rv \in Nat /\ h \in SUBSET Val
      /\ UNCHANGED <<log, rv, incoming, conn>>
  BY DEF StoreInv, LogOK, Rev, CacheInv, CallTypeOK, storeVars, cacheVars
<1>2. /\ i \in Seq(Event) /\ Rising(i) /\ f \in Nat /\ s \in 1..Rev
      /\ s <= rv \/ (f = s /\ a # 0)
      /\ f <= rv \/ f = s
      /\ \A x \in Revs(i) : x <= f
      /\ \A j \in 1..Len(i) : /\ i[j].rev \in s..rv
                              /\ a = 0 => i[j].rev = s /\ i[j].prev = None
                              /\ a # 0 => i[j].rev > s /\ Happened(i[j])
      /\ \A x \in Revs(incoming) : x > f => x > s
      /\ a = 0 => s = rv
      /\ a = 0 /\ log[s] # None => s \in Revs(i)
      /\ \A q \in 1..rv : q > s /\ Changed(q) => q \in Revs(i)
  BY DEF Registered
<1>3. ASSUME NEW q
      PROVE  Told(w, q)' = CASE q = s /\ a = 0 -> Heard(h, None, log[q], q)
                             [] q > s /\ Changed(q) -> Heard(h, log[q - 1], log[q], q)
                             [] OTHER -> <<>>
  BY <1>1 DEF Told, Changed
<1>4. /\ Revs(input[w])' = {} /\ Revs(got[w])' = {} /\ Later(w, input[w])' = {}
      /\ Revs(initial[w])' = Revs(i) /\ Len(got[w])' = 0 /\ Rising(got[w])'
      /\ Later(w, incoming)' = {x \in Revs(incoming) : x > f}
      /\ Revs(incoming)' = Revs(incoming)
  BY <1>1 DEF Revs, Later, Rising
<1>5. HeardInv(w)'
  BY <1>1, <1>2, <1>4 DEF HeardInv
<1>6. ASSUME NEW j \in 1..Len(i), NEW e, e = i[j]
      PROVE  e.rev \in s..rv /\ Heard(h, e.prev, log[e.rev], e.rev) = Told(w, e.rev)'
  <2>1. /\ e.rev \in s..rv
        /\ a = 0 => e.rev = s /\ e.prev = None
        /\ a # 0 => e.rev > s /\ Happened(e)
    <3>1. /\ i[j].rev \in s..rv
          /\ a = 0 => i[j].rev = s /\ i[j].prev = None
          /\ a # 0 => i[j].rev > s /\ Happened(i[j])
      BY <1>2, Zenon
    <3> QED  BY <1>6, <3>1, Zenon
  <2>2. PICK q : q = e.rev
    OBVIOUS
  <2>3. CASE a = 0
    <3>1. Told(w, q)' = Heard(h, None, log[q], q)
      BY <1>3, <2>1, <2>2, <2>3
    <3> QED  BY <2>1, <2>2, <2>3, <3>1, Zenon
  <2>4. CASE a # 0
    <3>1. q > s /\ Changed(q) /\ e.prev = log[q - 1]
      BY <2>1, <2>2, <2>4 DEF Happened
    <3>2. Told(w, q)' = Heard(h, log[q - 1], log[q], q)
      BY <1>3, <2>4, <3>1
    <3> QED  BY <2>1, <2>2, <3>1, <3>2, Zenon
  <2> QED  BY <2>3, <2>4
<1>7. ASSUME NEW q \in 1..rv, q >= s, Told(w, q)' # <<>>
      PROVE  q \in Revs(i)
  <2>1. CASE q = s /\ a = 0
    <3>1. Heard(h, None, log[q], q) # <<>>
      BY <1>3, <1>7, <2>1
    <3>2. log[q] # None
      BY <1>1, <3>1, StoreAssumption DEF Heard
    <3> QED  BY <1>2, <2>1, <3>2
  <2>2. CASE ~(q = s /\ a = 0)
    <3>1. q > s /\ Changed(q)
      BY <1>3, <1>7, <2>2
    <3> QED  BY <1>2, <3>1
  <2> QED  BY <2>1, <2>2
<1>8. (Below(Revs(got[w]) \cup Revs(initial[w]), Later(w, input[w]) \cup Later(w, incoming)))'
  <2>1. \A x \in Revs(i) : x \in Nat
    <3>1. \A j \in 1..Len(i) : i[j].rev \in Nat
      BY <1>2, EventHasRev
    <3> QED  BY <3>1 DEF Revs
  <2>2. \A y \in Revs(incoming) : y \in Nat
    <3>1. \A j \in 1..Len(incoming) : incoming[j].rev \in Nat
      BY EventHasRev DEF CacheInv, Events
    <3> QED  BY <3>1 DEF Revs
  <2>3. \A x \in Revs(i), y \in Revs(incoming) : y > f => x < y
    BY <1>2, <2>1, <2>2
  <2> QED  BY <1>4, <2>3 DEF Below
<1>9. (/\ Below(Revs(input[w]), Revs(incoming)) /\ Below(Revs(got[w]), Revs(initial[w]))
       /\ \A r \in Later(w, input[w]) \cup Later(w, incoming) : r > since[w]
       /\ \A r \in Revs(got[w]) : r <= rv)'
  BY <1>2, <1>4 DEF Below
<1>10. (Rising(initial[w]) /\ Events(input[w]))'
  BY <1>2 DEF Rising, Events
<1>11. (/\ since[w] <= rv \/ (from[w] = since[w] /\ asked[w].rv # 0)
        /\ from[w] <= rv \/ from[w] = since[w])'
  BY <1>1, <1>2
<1>12. (\A j \in 1..Len(initial[w]) :
          LET e == initial[w][j] IN
          /\ e.rev \in since[w]..rv
          /\ Heard(asked[w].select, e.prev, log[e.rev], e.rev) = Told(w, e.rev))'
  BY <1>1, <1>6
<1>13. (\A q \in 1..rv :
          q >= since[w] /\ Told(w, q) # <<>> =>
            q \in Revs(got[w]) \cup Revs(initial[w]) \cup Later(w, input[w]) \cup Later(w, incoming))'
  BY <1>1, <1>4, <1>7
<1>14. LiveInv(w)'
  BY <1>1, <1>8, <1>9, <1>10, <1>11, <1>12, <1>13, Zenon DEF LiveInv
<1> QED  BY <1>5, <1>14

LEMMA RegisterInv ==
  ASSUME StoreInv, WatchInv, NEW w \in Watcher, Register(w)
  PROVE  WatchInv'
<1> DEFINE a == asked[w].rv
           i == EventsSince(a)
           f == StartsFrom(w)
           s == IF a = 0 THEN rv ELSE a
<1>1. /\ wpc[w] = "ready" /\ (a = 0 \/ a >= Oldest - 1) /\ rv # 0 /\ a \in 0..Rev
      /\ initial[w] = <<>> /\ input[w] = <<>> /\ got[w] = <<>> /\ ~done[w]
      /\ rv \in Nat /\ a \in Nat /\ Rev \in Nat
  BY DEF Register, WatchInv, WatcherInv, LifeInv, CacheInv, StoreInv, LogOK, Rev
<1>2. i \in Seq(Event) /\ f \in Nat /\ s \in Nat
  <2>1. After(a) \in Seq(Event)
    BY <1>1, AfterFacts DEF WatchInv, CacheInv, Events
  <2>2. <<[rev |-> rv, prev |-> None]>> \in Seq(Event)
    BY <1>1 DEF Event
  <2>3. i \in Seq(Event)
    BY <2>1, <2>2 DEF EventsSince
  <2>4. i # <<>> => Last(i).rev \in Nat
    <3> HIDE DEF i
    <3>1. i # <<>> => i[Len(i)] \in Event
      BY <2>3
    <3> QED  BY <3>1, EventHasRev DEF Last
  <2>5. f \in Nat
    BY <1>1, <2>4 DEF StartsFrom
  <2> QED  BY <1>1, <2>3, <2>5
<1> HIDE DEF i, f, s
<1>3. /\ wpc' = [wpc EXCEPT ![w] = "open"]
      /\ initial' = [initial EXCEPT ![w] = i]
      /\ from' = [from EXCEPT ![w] = f]
      /\ listed' = [listed EXCEPT ![w] = TRUE]
      /\ since' = [since EXCEPT ![w] = s]
      /\ UNCHANGED <<storeVars, cacheVars, asked, input, done, got>>
  BY DEF Register, i, f, s
<1>4. PICK d \in BOOLEAN :
        /\ doubtful' = [doubtful EXCEPT ![w] = d]
        /\ ~d => conn # "list" /\ ~(a = 0 /\ stored = 0 /\ incoming # <<>>)
  BY DEF Register
<1>5. CallTypeOK'
  <2>1. CallTypeOK
    BY DEF WatchInv
  <2> HIDE DEF a
  <2> QED  BY <1>2, <1>3, <1>4, <2>1 DEF CallTypeOK
<1>6. /\ wpc'[w] = "open" /\ initial'[w] = i /\ from'[w] = f /\ listed'[w] = TRUE
      /\ since'[w] = s /\ doubtful'[w] = d /\ done'[w] = done[w]
  BY <1>3, <1>4 DEF WatchInv, CallTypeOK
<1>7. ~d => HeardInv(w)' /\ LiveInv(w)'
  <2> SUFFICES ASSUME ~d PROVE HeardInv(w)' /\ LiveInv(w)'
    OBVIOUS
  <2>1. CacheInv /\ CallTypeOK
    BY DEF WatchInv
  <2>2. Registered(w, i, f, s)
    BY <1>1, <1>4, <2>1, RegisterFacts DEF i, f, s
  <2> QED  BY <1>1, <1>3, <1>4, <1>6, <2>1, <2>2, RegisterLive
<1>8. WatcherInv(w)'
  BY <1>1, <1>6, <1>7 DEF WatcherInv, LifeInv
<1> QED  BY <1>3, <1>4, <1>5, <1>8, OneWatcherMoves DEF WatchInv, CallTypeOK

-----------------------------------------------------------------------------
(* Events move from queue to queue *)

\* Everything that waits for w, or that it has heard.
Known(w) == Revs(got[w]) \cup Revs(initial[w]) \cup Later(w, input[w]) \cup Later(w, incoming)

Waiting(w) == Later(w, input[w]) \cup Later(w, incoming)

\* The object is the same and nothing is lost on the way.
LEMMA LiveMoves ==
  ASSUME StoreInv, CacheInv, NEW w \in Watcher, HeardInv(w), LiveInv(w),
         UNCHANGED <<log, rv, conn>>,
         asked'[w] = asked[w], since'[w] = since[w], from'[w] = from[w],
         Rising(initial[w])', Events(input[w])',
         (Below(Revs(input[w]), Revs(incoming)))',
         (Below(Revs(got[w]), Revs(initial[w])))',
         (Below(Revs(got[w]) \cup Revs(initial[w]), Waiting(w)))',
         \A i \in 1..Len(initial'[w]) : \E j \in 1..Len(initial[w]) : initial'[w][i] = initial[w][j],
         Waiting(w)' \subseteq Waiting(w),
         \A r \in Revs(got[w])' : r <= rv,
         \A q \in Known(w) : Told(w, q) # <<>> => q \in Known(w)'
  PROVE  LiveInv(w)'
<1> PICK y : y = initial'[w]
  OBVIOUS
<1>1. LogOK /\ LogStep /\ Rev \in Nat /\ Rev' = Rev /\ rv \in 0..Rev /\ since[w] \in 1..Rev
  BY DEF StoreInv, LogOK, LogStep, Rev, CacheInv, HeardInv
<1>2. \A q \in 1..Rev : Told(w, q)' = Told(w, q)
  BY <1>1, ToldKept
<1>3. ASSUME NEW i \in 1..Len(y), NEW e, e = y[i]
      PROVE  /\ e.rev \in since[w]..rv
             /\ Heard(asked[w].select, e.prev, log[e.rev], e.rev) = Told(w, e.rev)'
  <2>1. PICK j \in 1..Len(initial[w]) : e = initial[w][j]
    BY <1>3
  <2>2. /\ e.rev \in since[w]..rv
        /\ Heard(asked[w].select, e.prev, log[e.rev], e.rev) = Told(w, e.rev)
    BY <2>1 DEF LiveInv
  <2>3. e.rev \in 1..Rev
    BY <1>1, <2>2
  <2>4. Told(w, e.rev)' = Told(w, e.rev)
    BY <1>2, <2>3
  <2> QED  BY <2>2, <2>4
<1>4. (\A i \in 1..Len(initial[w]) :
         LET e == initial[w][i] IN
         /\ e.rev \in since[w]..rv
         /\ Heard(asked[w].select, e.prev, log[e.rev], e.rev) = Told(w, e.rev))'
  BY <1>3
<1>5. ASSUME NEW q \in 1..rv, q >= since[w], Told(w, q)' # <<>>
      PROVE  q \in Known(w)'
  <2>1. q \in 1..Rev
    BY <1>1
  <2>2. Told(w, q) # <<>>
    BY <1>2, <1>5, <2>1
  <2>3. q \in Known(w)
    BY <1>5, <2>2 DEF LiveInv, Known
  <2> QED  BY <2>2, <2>3
<1>6. (\A r \in Later(w, input[w]) \cup Later(w, incoming) : r > since[w])'
  <2>1. \A r \in Waiting(w) : r > since[w]
    BY DEF LiveInv, Waiting
  <2>2. \A r \in Waiting(w)' : r > since[w]
    BY <2>1
  <2> QED  BY <2>2 DEF Waiting
<1>7. (/\ since[w] <= rv \/ (from[w] = since[w] /\ asked[w].rv # 0)
       /\ from[w] <= rv \/ from[w] = since[w])'
  BY DEF LiveInv
<1>8. conn' # "list"
  BY DEF LiveInv
<1>9. (Below(Revs(got[w]) \cup Revs(initial[w]), Later(w, input[w]) \cup Later(w, incoming)))'
  BY Zenon DEF Waiting
<1>10. (\A q \in 1..rv :
          q >= since[w] /\ Told(w, q) # <<>> =>
            q \in Revs(got[w]) \cup Revs(initial[w]) \cup Later(w, input[w]) \cup Later(w, incoming))'
  BY <1>5 DEF Known
<1>11. (\A r \in Revs(got[w]) : r <= rv)'
  OBVIOUS
<1> QED  BY <1>4, <1>6, <1>7, <1>8, <1>9, <1>10, <1>11, Zenon DEF LiveInv

\* What is to be told of a revision is one thing, or nothing.
LEMMA HeardIsOne ==
  ASSUME NEW s, NEW old, NEW new, NEW r \in Nat
  PROVE  \/ Heard(s, old, new, r) = <<>>
         \/ \E h \in [type : {"ADDED", "MODIFIED", "DELETED"}, rev : Nat] :
              h.rev = r /\ Heard(s, old, new, r) = <<h>>
<1>1. \A t \in {"ADDED", "MODIFIED", "DELETED"} :
        /\ [type |-> t, rev |-> r] \in [type : {"ADDED", "MODIFIED", "DELETED"}, rev : Nat]
        /\ [type |-> t, rev |-> r].rev = r
  OBVIOUS
<1> QED  BY <1>1 DEF Heard

LEMMA ToldIsOne ==
  ASSUME NEW w \in Watcher, NEW r \in Nat
  PROVE  \/ Told(w, r) = <<>>
         \/ \E h \in [type : {"ADDED", "MODIFIED", "DELETED"}, rev : Nat] :
              h.rev = r /\ Told(w, r) = <<h>>
<1>1. Told(w, r) \in {Heard(asked[w].select, None, log[r], r),
                      Heard(asked[w].select, log[r - 1], log[r], r), <<>>}
  BY DEF Told
<1> QED  BY <1>1, HeardIsOne

\* The client is told of revision r, when all before it was heard.
LEMMA HeardGrows ==
  ASSUME StoreInv, CallTypeOK, NEW w \in Watcher, HeardInv(w), UNCHANGED log,
         asked'[w] = asked[w], since'[w] = since[w], NEW r \in since[w]..Rev,
         \A x \in Revs(got[w]) : x < r,
         \A q \in 1..Rev : q >= since[w] /\ q < r /\ Told(w, q) # <<>> => q \in Revs(got[w]),
         got'[w] = got[w] \o Told(w, r)
  PROVE  /\ HeardInv(w)'
         /\ Told(w, r) = <<>> => Revs(got[w])' = Revs(got[w])
         /\ Told(w, r) # <<>> => Revs(got[w])' = Revs(got[w]) \cup {r}
<1> DEFINE H == [type : {"ADDED", "MODIFIED", "DELETED"}, rev : Nat]
<1> PICK g : g = got[w]
  OBVIOUS
<1>1. /\ LogOK /\ LogStep /\ Rev \in Nat /\ Rev' = Rev /\ since[w] \in 1..Rev
      /\ r \in Nat /\ r \in 1..Rev
  BY DEF StoreInv, LogOK, LogStep, Rev, HeardInv
<1>2. \A q \in 1..Rev : Told(w, q)' = Told(w, q)
  BY <1>1, ToldKept
<1>3. g \in Seq(H) /\ Rising(g) /\ Len(g) \in Nat
  BY DEF CallTypeOK, HeardInv
<1>4. CASE Told(w, r) = <<>>
  <2>1. got'[w] = g
    BY <1>3, <1>4
  <2>2. HeardInv(w)'
    BY <1>1, <2>1, HeardKept
  <2> QED  BY <1>4, <2>1, <2>2 DEF Revs
<1>5. CASE Told(w, r) # <<>>
  <2>1. PICK h \in H : h.rev = r /\ Told(w, r) = <<h>>
    BY <1>1, <1>5, ToldIsOne
  <2> HIDE DEF H
  <2>2. PICK k : k = Append(g, h)
    OBVIOUS
  <2>3. got'[w] = k
    BY <1>3, <2>1, <2>2
  <2>4. \A x \in H : x.rev \in Nat
    BY DEF H
  <2>5. Revs(k) = Revs(g) \cup {r} /\ Rising(k)
    <3>1. /\ Revs(Append(g, h)) = Revs(g) \cup {h.rev}
          /\ Rising(g) /\ (\A x \in Revs(g) : x < h.rev) => Rising(Append(g, h))
      BY <1>3, <2>4, RevsAppend
    <3>2. \A x \in Revs(g) : x < h.rev
      BY <2>1
    <3> QED  BY <1>3, <2>1, <2>2, <3>1, <3>2, Zenon
  <2>6. ASSUME NEW i \in 1..Len(k)
        PROVE  k[i].rev \in since[w]..Rev /\ Told(w, k[i].rev)' = <<k[i]>>
    <3>1. CASE i = Len(g) + 1
      <4>1. k[i] = h
        BY <1>3, <2>2, <3>1
      <4> QED  BY <1>1, <1>2, <2>1, <4>1
    <3>2. CASE i # Len(g) + 1
      <4>1. i \in 1..Len(g) /\ k[i] = g[i]
        BY <1>3, <2>2, <3>2
      <4>2. g[i].rev \in since[w]..Rev /\ Told(w, g[i].rev) = <<g[i]>>
        BY <4>1 DEF HeardInv
      <4>3. g[i].rev \in 1..Rev
        BY <1>1, <4>2
      <4> QED  BY <1>2, <4>1, <4>2, <4>3
    <3> QED  BY <3>1, <3>2
  <2>7. ASSUME NEW x \in Revs(k), NEW q \in 1..Rev, q >= since[w], q <= x, Told(w, q)' # <<>>
        PROVE  q \in Revs(k)
    <3>1. Told(w, q) # <<>>
      BY <1>2, <2>7
    <3>2. CASE q = r
      BY <2>5, <3>2
    <3>3. CASE q # r
      <4>1. q \in Nat /\ \A y \in Revs(g) : y \in Nat
        <5>1. \A j \in 1..Len(g) : g[j].rev \in Nat
          BY <1>3, <2>4
        <5> QED  BY <1>1, <5>1 DEF Revs
      <4>2. q < r
        BY <1>1, <2>5, <2>7, <3>3, <4>1
      <4> QED  BY <2>5, <2>7, <3>1, <4>2
    <3> QED  BY <3>2, <3>3
  <2>8. HeardInv(w)'
    BY <1>1, <2>3, <2>5, <2>6, <2>7 DEF HeardInv, Revs, Rising
  <2> QED  BY <1>5, <2>3, <2>5, <2>8 DEF Revs
<1> QED  BY <1>4, <1>5

\* A client that is still served is told the next thing, and then it has heard
\* all that was to be heard up to there.
LEMMA TellNext ==
  ASSUME StoreInv, CacheInv, CallTypeOK, NEW w \in Watcher, HeardInv(w), LiveInv(w),
         UNCHANGED log, asked'[w] = asked[w], since'[w] = since[w],
         NEW r \in since[w]..rv, r \in Known(w) \ Revs(got[w]),
         \A q \in Known(w) \ Revs(got[w]) : r <= q,
         got'[w] = got[w] \o Told(w, r)
  PROVE  /\ HeardInv(w)'
         /\ Told(w, r) = <<>> => Revs(got[w])' = Revs(got[w])
         /\ Told(w, r) # <<>> => Revs(got[w])' = Revs(got[w]) \cup {r}
<1>1. /\ Rev \in Nat /\ rv \in 0..Rev /\ rv \in Nat /\ since[w] \in 1..Rev
      /\ r \in Nat /\ r \in since[w]..Rev
  BY DEF StoreInv, LogOK, Rev, CacheInv, HeardInv
<1>2. \A x \in Revs(got[w]) : x < r
  BY DEF Known, LiveInv, Below
<1>3. ASSUME NEW q \in 1..Rev, q >= since[w], q < r, Told(w, q) # <<>> PROVE q \in Revs(got[w])
  <2>1. q \in 1..rv
    BY <1>1, <1>3
  <2>2. q \in Known(w)
    BY <1>3, <2>1 DEF LiveInv, Known
  <2>3. ~(r <= q)
    BY <1>1, <1>3
  <2> QED  BY <2>2, <2>3
<1> QED  BY <1>1, <1>2, <1>3, HeardGrows

LEMMA DispatchLive ==
  ASSUME StoreInv, CacheInv, CallTypeOK, NEW w \in Watcher, HeardInv(w), LiveInv(w), listed[w],
         dispatchEvent, NEW e, e = Head(incoming),
         (~Concerns(e, w) /\ input'[w] = input[w]) \/ input'[w] = Append(input[w], e)
  PROVE  LiveInv(w)'
<1>1. /\ incoming # <<>> /\ incoming' = Tail(incoming)
      /\ UNCHANGED <<log, rv, conn, wpc, asked, initial, from, got, since, doubtful>>
  BY DEF dispatchEvent, storeVars
<1>2. incoming \in Seq(Event) /\ Rising(incoming) /\ \A i \in 1..Len(incoming) : Happened(incoming[i])
  BY DEF CacheInv, Events
<1>3. /\ 1 \in 1..Len(incoming) /\ e = incoming[1] /\ e.rev \in Revs(incoming)
      /\ Revs(Tail(incoming)) = Revs(incoming) \ {e.rev}
      /\ \A x \in Revs(Tail(incoming)) : e.rev < x
  BY <1>1, <1>2, RevsTail, EventHasRev
<1>4. Happened(e) /\ e \in Event /\ e.rev \in Nat
  BY <1>2, <1>3, EventHasRev
<1>5. /\ Revs(incoming)' = Revs(incoming) \ {e.rev}
      /\ \A x \in Revs(incoming)' : e.rev < x
  BY <1>1, <1>3 DEF Revs
<1>6. /\ Revs(got[w])' = Revs(got[w]) /\ Revs(initial[w])' = Revs(initial[w])
      /\ Rising(initial[w])'
      /\ Later(w, incoming)' = Later(w, incoming) \ {e.rev}
  <2>1. Revs(got[w])' = Revs(got[w]) /\ Revs(initial[w])' = Revs(initial[w])
    BY <1>1 DEF Revs
  <2>2. Rising(initial[w])'
    BY <1>1 DEF Rising, LiveInv
  <2>3. Later(w, incoming)' = Later(w, incoming) \ {e.rev}
    BY <1>1, <1>5 DEF Later
  <2> QED  BY <2>1, <2>2, <2>3
<1>7. /\ Below(Revs(got[w]), Revs(initial[w]))
      /\ Below(Revs(got[w]) \cup Revs(initial[w]), Waiting(w))
      /\ Below(Revs(input[w]), Revs(incoming)) /\ Events(input[w])
      /\ \A r \in Revs(got[w]) : r <= rv
  BY DEF LiveInv, Waiting
<1>8. CASE ~Concerns(e, w) /\ input'[w] = input[w]
  <2>1. Told(w, e.rev) = <<>>
    <3>1. asked[w].select \subseteq Val /\ asked[w].select \cap ({log[e.rev], e.prev} \ {None}) = {}
      BY <1>8 DEF Concerns, Triggers, CallTypeOK
    <3>2. log[e.rev] \notin asked[w].select /\ e.prev \notin asked[w].select /\ None \notin asked[w].select
      BY <3>1, StoreAssumption
    <3>3. e.prev = log[e.rev - 1]
      BY <1>4 DEF Happened
    <3> QED  BY <3>2, <3>3 DEF Told, Heard
  <2>2. Events(input[w])' /\ Revs(input[w])' = Revs(input[w]) /\ Later(w, input[w])' = Later(w, input[w])
    BY <1>1, <1>7, <1>8 DEF Events, Rising, Happened, Changed, Revs, Later
  <2>3. (Below(Revs(input[w]), Revs(incoming)))'
    BY <1>5, <1>7, <2>2 DEF Below
  <2>4. Waiting(w)' \subseteq Waiting(w) /\ \A q \in Known(w) : q # e.rev => q \in Known(w)'
    BY <1>6, <2>2 DEF Waiting, Known
  <2>5. (/\ Below(Revs(got[w]), Revs(initial[w]))
         /\ Below(Revs(got[w]) \cup Revs(initial[w]), Waiting(w)))'
    BY <1>6, <1>7, <2>4 DEF Below
  <2>6. \A q \in Known(w) : Told(w, q) # <<>> => q \in Known(w)'
    BY <2>1, <2>4
  <2> QED  BY <1>1, <1>6, <1>7, <2>2, <2>3, <2>4, <2>5, <2>6, LiveMoves
<1>9. CASE input'[w] = Append(input[w], e)
  <2>1. PICK k : k = input[w]
    OBVIOUS
  <2>2. k \in Seq(Event) /\ Rising(k) /\ Len(k) \in Nat /\ \A i \in 1..Len(k) : Happened(k[i])
    BY <1>7, <2>1 DEF Events
  <2>3. \A x \in Revs(k) : x < e.rev
    BY <1>3, <1>7, <2>1 DEF Below
  <2>4. Revs(Append(k, e)) = Revs(k) \cup {e.rev} /\ Rising(Append(k, e))
    BY <1>4, <2>2, <2>3, RevsAppend, EventHasRev
  <2>5. ASSUME NEW i \in 1..Len(Append(k, e)) PROVE Happened(Append(k, e)[i])
    <3>1. Append(k, e)[i] = e \/ (i \in 1..Len(k) /\ Append(k, e)[i] = k[i])
      BY <1>4, <2>2
    <3> QED  BY <1>4, <2>2, <3>1
  <2>6. Append(k, e) \in Seq(Event)
    BY <1>4, <2>2
  <2>7. Events(Append(k, e))
    BY <2>4, <2>5, <2>6 DEF Events
  <2>8. /\ Events(input[w])' /\ Revs(input[w])' = Revs(input[w]) \cup {e.rev}
    <3>1. PICK m : m = Append(k, e)
      OBVIOUS
    <3>2. input'[w] = m /\ Revs(m) = Revs(k) \cup {e.rev} /\ Events(m)
      BY <1>9, <2>1, <2>4, <2>7, <3>1
    <3>3. \A i \in 1..Len(m) : Happened(m[i])'
      BY <1>1, <3>2 DEF Events, Happened, Changed
    <3>4. m \in Seq(Event) /\ Rising(m)
      BY <3>2 DEF Events
    <3> QED  BY <2>1, <3>2, <3>3, <3>4 DEF Events, Rising, Revs
  <2>9. (Below(Revs(input[w]), Revs(incoming)))'
    BY <1>5, <1>7, <2>8 DEF Below
  <2>10. Waiting(w)' = Waiting(w)
    BY <1>1, <1>3, <1>5, <2>8 DEF Waiting, Later
  <2>11. (/\ Below(Revs(got[w]), Revs(initial[w]))
          /\ Below(Revs(got[w]) \cup Revs(initial[w]), Waiting(w)))'
    BY <1>6, <1>7, <2>10 DEF Below
  <2>12. Known(w)' = Known(w)
    BY <1>6, <2>10 DEF Known, Waiting
  <2> QED  BY <1>1, <1>6, <1>7, <2>8, <2>9, <2>10, <2>11, <2>12, LiveMoves
<1> QED  BY <1>8, <1>9

LEMMA DispatchInv ==
  ASSUME StoreInv, WatchInv, dispatchEvent
  PROVE  WatchInv'
<1>1. /\ LogOK /\ LogStep /\ incoming # <<>> /\ incoming' = Tail(incoming)
      /\ UNCHANGED <<log, conn, ready, stored, rv, listRV, window, wpc, asked,
                     initial, from, got, since, doubtful>>
  BY DEF dispatchEvent, storeVars, StoreInv, LogStep
<1>2. CacheInv /\ CallTypeOK /\ incoming \in Seq(Event) /\ Head(incoming) \in Event
  <2>1. CacheInv /\ CallTypeOK
    BY DEF WatchInv
  <2>2. Events(incoming)
    BY <2>1 DEF CacheInv
  <2>3. incoming \in Seq(Event) /\ incoming # <<>>
    BY <1>1, <2>2 DEF Events
  <2>4. Head(incoming) \in Event
    BY <2>3
  <2> QED BY <2>1, <2>3, <2>4
<1>3. PICK e \in Event : e = Head(incoming)
  BY <1>2
<1> DEFINE slow(w) == Concerns(e, w) /\ Len(input[w]) = ChanSize
<1>4. /\ input' = [w \in Watcher |-> IF Concerns(e, w) /\ ~slow(w)
                                    THEN Append(input[w], e) ELSE input[w]]
      /\ listed' = [w \in Watcher |-> listed[w] /\ ~slow(w)]
      /\ done' = [w \in Watcher |-> done[w] \/ slow(w)]
  BY <1>3 DEF dispatchEvent
<1>5. CacheInv'
  <2>1. Events(incoming)'
    <3>1. PICK x : x = incoming
      OBVIOUS
    <3>2. Events(Tail(x))
      <4>1. /\ Tail(x) \in Seq(Event) /\ Rising(Tail(x))
            /\ \A i \in 1..Len(Tail(x)) : i + 1 \in 1..Len(x) /\ Tail(x)[i] = x[i + 1]
        BY <1>1, <1>2, <3>1, RevsTail, EventHasRev DEF CacheInv, Events
      <4>2. \A i \in 1..Len(x) : Happened(x[i])
        BY <1>2, <3>1 DEF CacheInv, Events
      <4> QED  BY <4>1, <4>2 DEF Events
    <3> QED  BY <1>1, <3>1, <3>2 DEF Events, Happened, Changed, Rising
  <2>2. PICK y : y = window
    OBVIOUS
  <2>3. Events(y)' /\ ModRev(rv)' = ModRev(rv) /\ Oldest' = Oldest /\ Rev' = Rev
    BY <1>1, <1>2, <2>2 DEF CacheInv, Events, Happened, Changed, Rising, ModRev, Oldest, Rev
  <2>4. \A q : Changed(q)' <=> Changed(q)
    BY <1>1 DEF Changed
  <2>5. Events(window)' /\ Revs(window)' = Revs(window)
    BY <1>1, <2>2, <2>3 DEF Events, Happened, Rising, Revs
  <2> QED  BY <1>1, <1>2, <2>1, <2>3, <2>4, <2>5 DEF CacheInv
<1>6. CallTypeOK'
  <2>1. \A w \in Watcher : Append(input[w], e) \in Seq(Event) /\ input[w] \in Seq(Event)
    BY <1>2 DEF CallTypeOK
  <2>2. input' \in [Watcher -> Seq(Event)]
    BY <1>4, <2>1
  <2>3. listed' \in [Watcher -> BOOLEAN] /\ done' \in [Watcher -> BOOLEAN]
    BY <1>4
  <2> QED  BY <1>1, <1>2, <2>2, <2>3 DEF CallTypeOK
<1>7. ASSUME NEW w \in Watcher PROVE WatcherInv(w)'
  <2>1. /\ listed'[w] = (listed[w] /\ ~slow(w)) /\ done'[w] = (done[w] \/ slow(w))
        /\ input'[w] = IF Concerns(e, w) /\ ~slow(w) THEN Append(input[w], e) ELSE input[w]
    BY <1>4
  <2>2. slow(w) => listed[w]
    BY DEF Concerns
  <2>3. ~listed[w] => input'[w] = input[w]
    BY <2>1 DEF Concerns
  <2>4. WatcherInv(w) /\ (listed[w] \in BOOLEAN) /\ (done[w] \in BOOLEAN) /\ Rev' = Rev
    BY <1>1, <1>2 DEF WatchInv, CallTypeOK, Rev
  <2> HIDE DEF slow
  <2>5. LifeInv(w)'
    BY <1>1, <2>1, <2>2, <2>3, <2>4 DEF WatcherInv, LifeInv
  <2>6. ASSUME wpc[w] = "open", ~doubtful[w] PROVE HeardInv(w)'
    BY <1>1, <1>2, <2>4, <2>6, HeardKept DEF WatcherInv
  <2>7. ASSUME listed[w], ~slow(w), ~doubtful[w] PROVE LiveInv(w)'
    <3>1. HeardInv(w) /\ LiveInv(w)
      BY <2>4, <2>7 DEF WatcherInv, LifeInv
    <3>2. (~Concerns(e, w) /\ input'[w] = input[w]) \/ input'[w] = Append(input[w], e)
      BY <2>1, <2>7
    <3> QED  BY <1>2, <1>3, <2>7, <3>1, <3>2, DispatchLive
  <2> QED  BY <1>1, <2>1, <2>5, <2>6, <2>7 DEF WatcherInv
<1> QED  BY <1>5, <1>6, <1>7 DEF WatchInv

-----------------------------------------------------------------------------
(* What is sent to the client *)

LEMMA KnownAreRevisions ==
  ASSUME CacheInv, CallTypeOK, NEW w \in Watcher
  PROVE  \A q \in Known(w) : q \in Nat
<1>1. ASSUME NEW S, \A x \in S : x.rev \in Nat, NEW s \in Seq(S) PROVE \A q \in Revs(s) : q \in Nat
  <2>1. \A i \in 1..Len(s) : s[i].rev \in Nat
    BY <1>1
  <2> QED  BY <2>1 DEF Revs
<1>2. /\ initial[w] \in Seq(Event) /\ input[w] \in Seq(Event) /\ incoming \in Seq(Event)
      /\ got[w] \in Seq([type : {"ADDED", "MODIFIED", "DELETED"}, rev : Nat])
  BY DEF CacheInv, CallTypeOK, Events
<1>3. \A q \in Revs(initial[w]) \cup Revs(input[w]) \cup Revs(incoming) : q \in Nat
  BY <1>1, <1>2, EventHasRev
<1>4. \A q \in Revs(got[w]) : q \in Nat
  BY <1>1, <1>2, EventHasRev
<1> QED  BY <1>3, <1>4 DEF Known, Later

\* What was sent has its type, and the client hears no more after the end.
LEMMA SendTypeOK ==
  ASSUME CallTypeOK, NEW w \in Watcher, NEW e \in Event, Send(w, e)
  PROVE  /\ got' \in [Watcher -> Seq([type : {"ADDED", "MODIFIED", "DELETED"}, rev : Nat])]
         /\ \A v \in Watcher \ {w} : got'[v] = got[v]
         /\ done[w] => got' = got
         /\ ~done[w] =>
              got'[w] = got[w] \o Heard(asked[w].select, e.prev, log[e.rev], e.rev)
<1> DEFINE H == [type : {"ADDED", "MODIFIED", "DELETED"}, rev : Nat]
<1>1. PICK h : h = Heard(asked[w].select, e.prev, log[e.rev], e.rev)
  OBVIOUS
<1>2. h \in Seq(H)
  <2>1. h = <<>> \/ \E x \in H : h = <<x>>
    BY <1>1, EventHasRev, HeardIsOne
  <2> HIDE DEF H
  <2>2. <<>> \in Seq(H) /\ \A x \in H : <<x>> \in Seq(H)
    OBVIOUS
  <2> QED  BY <2>1, <2>2
<1> HIDE DEF H
<1>3. got \in [Watcher -> Seq(H)]
  BY DEF CallTypeOK, H
<1>4. got' = IF done[w] THEN got ELSE [got EXCEPT ![w] = got[w] \o h]
  BY <1>1 DEF Send
<1>5. got[w] \o h \in Seq(H)
  BY <1>2, <1>3
<1>6. got' \in [Watcher -> Seq(H)]
  BY <1>3, <1>4, <1>5
<1>7. (\A v \in Watcher \ {w} : got'[v] = got[v]) /\ (~done[w] => got'[w] = got[w] \o h)
  BY <1>3, <1>4
<1> QED  BY <1>1, <1>4, <1>6, <1>7 DEF H

LEMMA SendInitialInv ==
  ASSUME StoreInv, WatchInv, NEW w \in Watcher, SendInitial(w)
  PROVE  WatchInv'
<1>1. /\ CacheInv /\ CallTypeOK /\ WatcherInv(w) /\ LogOK /\ LogStep
      /\ wpc[w] = "open" /\ initial[w] # <<>> /\ initial[w] \in Seq(Event)
      /\ initial' = [initial EXCEPT ![w] = Tail(initial[w])]
      /\ UNCHANGED <<storeVars, cacheVars, wpc, asked, from, input, listed, done, since, doubtful>>
  BY DEF SendInitial, WatchInv, StoreInv, LogStep, storeVars, CallTypeOK
<1>2. PICK i \in Seq(Event) : i = initial[w]
  BY <1>1
<1>3. PICK e \in Event : e = Head(i)
  BY <1>1, <1>2
<1>4. Send(w, e) /\ initial'[w] = Tail(i) /\ Tail(i) \in Seq(Event)
  BY <1>1, <1>2, <1>3 DEF SendInitial, CallTypeOK
<1>5. /\ got' \in [Watcher -> Seq([type : {"ADDED", "MODIFIED", "DELETED"}, rev : Nat])]
      /\ \A v \in Watcher \ {w} : got'[v] = got[v]
      /\ done[w] => got' = got
      /\ ~done[w] => got'[w] = got[w] \o Heard(asked[w].select, e.prev, log[e.rev], e.rev)
  BY <1>1, <1>4, SendTypeOK
<1>6. CallTypeOK'
  BY <1>1, <1>2, <1>4, <1>5 DEF CallTypeOK
<1>7. LifeInv(w)'
  BY <1>1 DEF WatcherInv, LifeInv
<1>8. ASSUME done[w], ~doubtful[w] PROVE HeardInv(w)' /\ ~listed'[w]
  BY <1>1, <1>5, <1>8, HeardKept DEF WatcherInv, LifeInv
<1>9. ASSUME ~done[w], ~doubtful[w] PROVE HeardInv(w)' /\ LiveInv(w)'
  <2>1. HeardInv(w) /\ LiveInv(w)
    BY <1>1, <1>9 DEF WatcherInv, LifeInv
  <2>2. Rising(i)
    BY <1>2, <2>1 DEF LiveInv
  <2>3. PICK r : r = e.rev
    OBVIOUS
  <2>4. /\ 1 \in 1..Len(i) /\ e = i[1] /\ r \in Revs(i) /\ Rising(Tail(i))
        /\ Revs(Tail(i)) = Revs(i) \ {r} /\ \A x \in Revs(Tail(i)) : r < x
        /\ \A j \in 1..Len(Tail(i)) : j + 1 \in 1..Len(i) /\ Tail(i)[j] = i[j + 1]
    BY <1>1, <1>2, <1>3, <2>2, <2>3, RevsTail, EventHasRev
  <2>5. /\ r \in since[w]..rv /\ r \in Nat
        /\ Heard(asked[w].select, e.prev, log[e.rev], e.rev) = Told(w, r)
    BY <1>2, <2>1, <2>3, <2>4, EventHasRev DEF LiveInv
  <2>6. got'[w] = got[w] \o Told(w, r)
    BY <1>5, <1>9, <2>5
  <2>7. /\ Below(Revs(got[w]), Revs(initial[w]))
        /\ Below(Revs(got[w]) \cup Revs(initial[w]), Waiting(w))
        /\ Below(Revs(input[w]), Revs(incoming)) /\ Events(input[w])
        /\ \A x \in Revs(got[w]) : x <= rv
    BY <2>1 DEF LiveInv, Waiting
  <2>8. \A q \in Known(w) \ Revs(got[w]) : r <= q
    <3>1. \A q \in Waiting(w) : r < q
      BY <1>2, <2>4, <2>7 DEF Below
    <3>2. \A q \in Revs(i) : q = r \/ r < q
      BY <2>4
    <3>3. \A q \in Known(w) \ Revs(got[w]) : q = r \/ r < q
      BY <1>2, <3>1, <3>2 DEF Known, Waiting
    <3>4. \A q \in Known(w) : q \in Nat
      BY <1>1, KnownAreRevisions
    <3> QED  BY <2>5, <3>3, <3>4
  <2>9. r \in Known(w) /\ r \notin Revs(got[w])
    <3>1. ~(r < r)
      BY <2>5
    <3> QED  BY <1>2, <2>4, <2>7, <3>1 DEF Known, Below
  <2>10. /\ HeardInv(w)'
         /\ Told(w, r) = <<>> => Revs(got[w])' = Revs(got[w])
         /\ Told(w, r) # <<>> => Revs(got[w])' = Revs(got[w]) \cup {r}
    BY <1>1, <2>1, <2>5, <2>6, <2>8, <2>9, TellNext DEF storeVars
  <2>11. Revs(got[w])' \subseteq Revs(got[w]) \cup {r}
    BY <2>10
  <2>12. /\ Revs(initial[w])' = Revs(initial[w]) \ {r} /\ Rising(initial[w])'
         /\ \A x \in Revs(initial[w])' : r < x
    <3>1. PICK t : t = Tail(i)
      OBVIOUS
    <3>2. initial'[w] = t /\ Revs(t) = Revs(i) \ {r} /\ Rising(t) /\ \A x \in Revs(t) : r < x
      BY <1>4, <2>4, <3>1
    <3>3. Revs(initial[w])' = Revs(t) /\ Rising(initial[w])'
      BY <3>2 DEF Revs, Rising
    <3> QED  BY <1>2, <3>2, <3>3
  <2>13. /\ Waiting(w)' = Waiting(w) /\ Events(input[w])'
         /\ (Below(Revs(input[w]), Revs(incoming)))'
    BY <1>1, <2>7 DEF Waiting, Later, Revs, Below, Events, Rising, Happened, Changed,
                      storeVars, cacheVars
  <2>14. \A x \in Waiting(w) : r < x
    BY <1>2, <2>4, <2>7 DEF Below
  <2>15. (/\ Below(Revs(got[w]), Revs(initial[w]))
          /\ Below(Revs(got[w]) \cup Revs(initial[w]), Waiting(w)))'
    BY <2>7, <2>11, <2>12, <2>13, <2>14 DEF Below
  <2>16. \A j \in 1..Len(initial'[w]) : \E k \in 1..Len(initial[w]) : initial'[w][j] = initial[w][k]
    BY <1>2, <1>4, <2>4
  <2>17. \A x \in Revs(got[w])' : x <= rv
    BY <2>5, <2>7, <2>11 DEF CacheInv
  <2>18. \A q \in Known(w) : Told(w, q) # <<>> => q \in Known(w)'
    BY <2>10, <2>12, <2>13 DEF Known, Waiting
  <2>19. LiveInv(w)'
    BY <1>1, <2>1, <2>12, <2>13, <2>15, <2>16, <2>17, <2>18, LiveMoves DEF storeVars, cacheVars
  <2> QED  BY <2>10, <2>19
<1>10. WatcherInv(w)'
  BY <1>1, <1>7, <1>8, <1>9 DEF WatcherInv, LifeInv
<1> QED  BY <1>1, <1>5, <1>6, <1>10, OneWatcherMoves DEF CallTypeOK

LEMMA SendNextInv ==
  ASSUME StoreInv, WatchInv, NEW w \in Watcher, SendNext(w)
  PROVE  WatchInv'
<1>1. /\ CacheInv /\ CallTypeOK /\ WatcherInv(w) /\ LogOK /\ LogStep
      /\ wpc[w] = "open" /\ initial[w] = <<>> /\ input[w] # <<>> /\ input[w] \in Seq(Event)
      /\ input' = [input EXCEPT ![w] = Tail(input[w])] /\ from[w] \in Nat
      /\ UNCHANGED <<storeVars, cacheVars, wpc, asked, initial, from, listed, done, since, doubtful>>
  BY DEF SendNext, WatchInv, StoreInv, LogStep, storeVars, CallTypeOK
<1>2. PICK i \in Seq(Event) : i = input[w]
  BY <1>1
<1>3. PICK e \in Event : e = Head(i)
  BY <1>1, <1>2
<1>4. PICK r \in Nat : r = e.rev
  BY EventHasRev
<1>5. /\ IF r > from[w] THEN Send(w, e) ELSE UNCHANGED got
      /\ input'[w] = Tail(i) /\ Tail(i) \in Seq(Event)
  BY <1>1, <1>2, <1>3, <1>4 DEF SendNext, CallTypeOK
<1>6. /\ got' \in [Watcher -> Seq([type : {"ADDED", "MODIFIED", "DELETED"}, rev : Nat])]
      /\ \A v \in Watcher \ {w} : got'[v] = got[v]
      /\ done[w] \/ ~(r > from[w]) => got' = got
      /\ ~done[w] /\ r > from[w] =>
           got'[w] = got[w] \o Heard(asked[w].select, e.prev, log[e.rev], e.rev)
  <2>1. CASE r > from[w]
    BY <1>1, <1>5, <2>1, SendTypeOK
  <2>2. CASE ~(r > from[w])
    BY <1>1, <1>5, <2>2 DEF CallTypeOK
  <2> QED  BY <2>1, <2>2
<1>7. CallTypeOK'
  BY <1>1, <1>2, <1>5, <1>6 DEF CallTypeOK
<1>8. LifeInv(w)'
  BY <1>1 DEF WatcherInv, LifeInv
<1>9. ASSUME done[w], ~doubtful[w] PROVE HeardInv(w)' /\ ~listed'[w]
  BY <1>1, <1>6, <1>9, HeardKept DEF WatcherInv, LifeInv
<1>10. ASSUME ~done[w], ~doubtful[w] PROVE HeardInv(w)' /\ LiveInv(w)'
  <2>1. HeardInv(w) /\ LiveInv(w)
    BY <1>1, <1>10 DEF WatcherInv, LifeInv
  <2>2. Rising(i) /\ \A j \in 1..Len(i) : Happened(i[j])
    BY <1>2, <2>1 DEF LiveInv, Events
  <2>3. PICK t : t = Tail(i)
    OBVIOUS
  <2>4. /\ 1 \in 1..Len(i) /\ e = i[1] /\ r \in Revs(i) /\ Rising(t)
        /\ Revs(t) = Revs(i) \ {r} /\ \A x \in Revs(t) : r < x
        /\ \A j \in 1..Len(t) : j + 1 \in 1..Len(i) /\ t[j] = i[j + 1]
    BY <1>1, <1>2, <1>3, <1>4, <2>2, <2>3, RevsTail, EventHasRev
  <2>5. Happened(e) /\ r \in 2..rv /\ Changed(r) /\ e.prev = log[r - 1]
    BY <1>4, <2>2, <2>4 DEF Happened
  <2>6. /\ Below(Revs(got[w]), Revs(initial[w]))
        /\ Below(Revs(got[w]) \cup Revs(initial[w]), Waiting(w))
        /\ Below(Revs(input[w]), Revs(incoming))
        /\ \A x \in Waiting(w) : x > since[w]
        /\ \A x \in Revs(got[w]) : x <= rv
        /\ since[w] \in Nat /\ rv \in Nat
    <3>1. since[w] \in Nat /\ rv \in Nat
      BY <1>1 DEF CallTypeOK, CacheInv, LogOK, Rev
    <3> QED  BY <2>1, <3>1, Zenon DEF LiveInv, Waiting
  <2>7. input'[w] = t /\ Revs(input[w])' = Revs(t) /\ Revs(initial[w]) = {}
        /\ Revs(initial[w])' = {} /\ Revs(incoming)' = Revs(incoming) /\ initial'[w] = <<>>
    <3>1. input'[w] = t /\ initial'[w] = <<>> /\ incoming' = incoming
      BY <1>1, <1>5, <2>3 DEF cacheVars
    <3>2. Revs(<<>>) = {}
      BY DEF Revs
    <3>3. Revs(initial[w])' = Revs(<<>>) /\ Revs(initial[w]) = Revs(<<>>)
      BY <1>1, <3>1, Zenon DEF Revs
    <3>4. Revs(input[w])' = Revs(t) /\ Revs(incoming)' = Revs(incoming)
      BY <3>1, Zenon DEF Revs
    <3> QED  BY <3>1, <3>2, <3>3, <3>4
  <2>8. Rising(initial[w])' /\ Events(input[w])'
    <3>1. \A j \in 1..Len(t) : Happened(t[j])'
      BY <1>1, <2>2, <2>4 DEF Happened, Changed, storeVars, cacheVars
    <3> QED  BY <1>5, <2>3, <2>4, <2>7, <3>1 DEF Events, Rising
  <2>9. (Below(Revs(input[w]), Revs(incoming)))'
    BY <1>2, <2>4, <2>6, <2>7 DEF Below
  <2>10. Waiting(w)' = {x \in Revs(t) : x > from[w]} \cup Later(w, incoming)
    BY <1>1, <2>7 DEF Waiting, Later
  <2>11. Waiting(w)' \subseteq Waiting(w) /\ \A x \in Waiting(w) : x \in Waiting(w)' \/ x = r
    BY <1>2, <2>4, <2>10 DEF Waiting, Later
  <2>12. \A x \in Waiting(w)' : r < x
    BY <1>2, <2>4, <2>6, <2>10 DEF Below, Later
  <2>13. \A j \in 1..Len(initial'[w]) : \E k \in 1..Len(initial[w]) : initial'[w][j] = initial[w][k]
    BY <2>7
  <2>14. CASE ~(r > from[w])
    <3>1. got' = got
      BY <1>6, <2>14
    <3>2. HeardInv(w)' /\ Revs(got[w])' = Revs(got[w])
      BY <1>1, <2>1, <3>1, HeardKept DEF Revs
    <3>3. (/\ Below(Revs(got[w]), Revs(initial[w]))
           /\ Below(Revs(got[w]) \cup Revs(initial[w]), Waiting(w)))'
      BY <2>6, <2>7, <2>11, <3>2 DEF Below
    <3>4. Waiting(w)' = Waiting(w)
      BY <1>2, <2>4, <2>10, <2>14 DEF Waiting, Later
    <3>5. \A q \in Known(w) : q \in Known(w)'
      BY <2>7, <3>2, <3>4 DEF Known, Waiting
    <3>6. \A x \in Revs(got[w])' : x <= rv
      BY <2>6, <3>2
    <3>7. LiveInv(w)'
      BY <1>1, <2>1, <2>8, <2>9, <2>11, <2>13, <3>3, <3>5, <3>6, LiveMoves DEF storeVars, cacheVars
    <3> QED  BY <3>2, <3>7
  <2>15. CASE r > from[w]
    <3>1. r \in Waiting(w) /\ r > since[w]
      BY <1>2, <2>4, <2>6, <2>15 DEF Waiting, Later
    <3>2. Heard(asked[w].select, e.prev, log[e.rev], e.rev) = Told(w, r)
      <4>1. ~(r = since[w] /\ asked[w].rv = 0)
        BY <2>6, <3>1
      <4>2. Told(w, r) = Heard(asked[w].select, log[r - 1], log[r], r)
        BY <2>5, <3>1, <4>1 DEF Told
      <4> QED  BY <1>4, <2>5, <4>2
    <3>3. got'[w] = got[w] \o Told(w, r)
      BY <1>6, <1>10, <2>15, <3>2
    <3>4. r \in since[w]..rv
      BY <2>5, <2>6, <3>1
    <3>5. r \in Known(w) /\ r \notin Revs(got[w])
      <4>1. ~(r < r)
        OBVIOUS
      <4> QED  BY <2>6, <3>1, <4>1 DEF Known, Waiting, Below
    <3>6. \A q \in Known(w) \ Revs(got[w]) : r <= q
      <4>1. \A q \in Known(w) \ Revs(got[w]) : q = r \/ r < q
        BY <2>7, <2>11, <2>12 DEF Known, Waiting
      <4>2. \A q \in Known(w) : q \in Nat
        BY <1>1, KnownAreRevisions
      <4> QED  BY <4>1, <4>2
    <3>7. /\ HeardInv(w)'
          /\ Told(w, r) = <<>> => Revs(got[w])' = Revs(got[w])
          /\ Told(w, r) # <<>> => Revs(got[w])' = Revs(got[w]) \cup {r}
      BY <1>1, <2>1, <3>3, <3>4, <3>5, <3>6, TellNext DEF storeVars
    <3>8. Revs(got[w])' \subseteq Revs(got[w]) \cup {r}
      BY <3>7
    <3>9. (/\ Below(Revs(got[w]), Revs(initial[w]))
           /\ Below(Revs(got[w]) \cup Revs(initial[w]), Waiting(w)))'
      BY <2>6, <2>7, <2>11, <2>12, <3>8 DEF Below
    <3>10. \A x \in Revs(got[w])' : x <= rv
      BY <2>6, <3>4, <3>8
    <3>11. \A q \in Known(w) : Told(w, q) # <<>> => q \in Known(w)'
      BY <2>7, <2>11, <3>7 DEF Known, Waiting
    <3>12. LiveInv(w)'
      BY <1>1, <2>1, <2>8, <2>9, <2>11, <2>13, <3>9, <3>10, <3>11, LiveMoves DEF storeVars, cacheVars
    <3> QED  BY <3>7, <3>12
  <2> QED  BY <2>14, <2>15
<1>11. WatcherInv(w)'
  BY <1>1, <1>8, <1>9, <1>10 DEF WatcherInv, LifeInv
<1> QED  BY <1>1, <1>6, <1>7, <1>11, OneWatcherMoves DEF CallTypeOK

-----------------------------------------------------------------------------
(* Watches *)

LEMMA WatchInvInit == CacherInit => WatchInv
<1> SUFFICES ASSUME CacherInit PROVE WatchInv
  OBVIOUS
<1>1. Rev \in Nat
  BY DEF CacherInit, StoreInit, Rev
<1>2. Events(<<>>)
  BY DEF Events, Rising
<1>3. CacheInv
  BY <1>1, <1>2, CacherAssumption DEF CacherInit, CacheInv
<1>4. CallTypeOK
  BY DEF CacherInit, CallTypeOK, Nothing
<1>5. \A w \in Watcher : WatcherInv(w)
  BY DEF CacherInit, WatcherInv, LifeInv
<1> QED  BY <1>3, <1>4, <1>5 DEF WatchInv

LEMMA WatchInvNext == StoreInv /\ WatchInv /\ [CacherNext]_cacherVars => WatchInv'
<1> SUFFICES ASSUME StoreInv, WatchInv, [CacherNext]_cacherVars PROVE WatchInv'
  OBVIOUS
<1>1. CASE UNCHANGED cacherVars
  BY <1>1, AllKeptListing DEF StoreInv, LogStep, cacherVars, storeVars
<1>2. ASSUME NEW w \in Watcher, WatchReady(w) \/ Watching(w) \/ StopWatch(w) PROVE WatchInv'
  BY <1>2, WatchReadyInv, TooOldInv, RegisterInv, SendInitialInv, SendNextInv, ProcessEndsInv,
     StopWatchInv DEF Watching
<1> QED  BY <1>1, <1>2, RequestsWatchInv, TerminateWatchInv, ReplaceWatchInv, ProcessWatchInv,
            BreakWatchInv, DispatchInv DEF CacherNext

LEMMA WatchInvariant == CacherSafety => []WatchInv
<1>1. StoreCacheInv => StoreInv
  BY DEF StoreCacheInv
<1> QED  BY <1>1, WatchInvInit, WatchInvNext, StoreCacheInvariant, PTL DEF CacherSafety

\* What was heard is in the order of the revisions, and has no gaps.
LEMMA HeardIsConsecutive ==
  ASSUME StoreInv, CallTypeOK, NEW w \in Watcher, HeardInv(w), NEW i \in 1..Len(got[w])
  PROVE  LET r    == got[w][i].rev
             next == IF i = 1 THEN since[w] ELSE got[w][i - 1].rev + 1 IN
         /\ r \in next..Rev /\ Told(w, r) = <<got[w][i]>>
         /\ \A q \in next..r - 1 : Told(w, q) = <<>>
<1> PICK g : g = got[w]
  OBVIOUS
<1> DEFINE r    == g[i].rev
           next == IF i = 1 THEN since[w] ELSE g[i - 1].rev + 1
<1>1. /\ Rev \in Nat /\ since[w] \in 1..Rev /\ Len(g) \in Nat /\ i \in 1..Len(g)
      /\ \A j \in 1..Len(g) : g[j].rev \in since[w]..Rev /\ Told(w, g[j].rev) = <<g[j]>>
  <2>1. Rev \in Nat
    BY DEF StoreInv, LogOK, Rev
  <2>2. Len(g) \in Nat
    BY DEF CallTypeOK
  <2> QED  BY <2>1, <2>2, Zenon DEF HeardInv
<1>2. \A j \in 1..Len(g) : g[j].rev \in Nat
  BY <1>1
<1>3. \A j, k \in 1..Len(g) : j < k => g[j].rev < g[k].rev
  BY DEF HeardInv, Rising
<1>4. r \in Nat /\ r \in since[w]..Rev /\ Told(w, r) = <<g[i]>>
  BY <1>1, <1>2
<1>5. next \in Nat /\ next >= since[w] /\ next <= r
  <2>1. CASE i = 1
    BY <1>1, <1>4, <2>1
  <2>2. CASE i # 1
    <3>1. i - 1 \in 1..Len(g) /\ i - 1 < i
      BY <1>1, <2>2
    <3>2. g[i - 1].rev < g[i].rev /\ g[i - 1].rev \in since[w]..Rev
      BY <1>1, <1>3, <3>1
    <3> QED  BY <1>1, <1>4, <2>2, <3>2
  <2> QED  BY <2>1, <2>2
<1>6. ASSUME NEW q \in next..r - 1, Told(w, q) # <<>> PROVE FALSE
  <2>1. q \in Nat /\ q \in 1..Rev /\ q >= since[w] /\ q < r
    BY <1>1, <1>4, <1>5
  <2>2. r \in Revs(g)
    BY <1>1 DEF Revs
  <2>3. q \in Revs(g)
    BY <1>6, <2>1, <2>2 DEF HeardInv
  <2>4. PICK j \in 1..Len(g) : q = g[j].rev
    BY <2>3 DEF Revs
  <2>5. j < i
    <3>1. ~(i < j) /\ i # j
      BY <1>2, <1>3, <1>4, <2>1, <2>4
    <3> QED  BY <1>1, <3>1
  <2>6. i # 1 /\ i - 1 \in 1..Len(g) /\ (j < i - 1 \/ j = i - 1)
    BY <1>1, <2>5
  <2>7. q <= g[i - 1].rev
    BY <1>2, <1>3, <2>4, <2>6
  <2> QED  BY <1>2, <2>1, <2>6, <2>7
<1>7. r \in next..Rev
  BY <1>1, <1>4, <1>5
<1> QED  BY <1>4, <1>6, <1>7

\* Every client of the watch cache that was registered without doubt hears what
\* happens to the object in order, once and with no gap, whatever the sizes of
\* the window and the channels, the filters, the number of watches, and however
\* often the watch of etcd breaks.
THEOREM WatchesAreConsecutive == CacherSafety => []WatchIsConsecutive
<1>1. StoreCacheInv /\ WatchInv => WatchIsConsecutive
  <2> SUFFICES ASSUME StoreInv, WatchInv, NEW w \in Watcher, wpc[w] = "open", ~doubtful[w]
               PROVE  \A i \in 1..Len(got[w]) :
                        LET r    == got[w][i].rev
                            next == IF i = 1 THEN since[w] ELSE got[w][i - 1].rev + 1 IN
                        /\ r \in next..Rev /\ Told(w, r) = <<got[w][i]>>
                        /\ \A q \in next..r - 1 : Told(w, q) = <<>>
    BY DEF StoreCacheInv, WatchIsConsecutive
  <2>1. CallTypeOK /\ HeardInv(w)
    BY DEF WatchInv, WatcherInv
  <2> QED  BY <2>1, HeardIsConsecutive
<1> QED  BY <1>1, StoreCacheInvariant, WatchInvariant, PTL
=============================================================================
