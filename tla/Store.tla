-------------------------------- MODULE Store --------------------------------
(***************************************************************************)
(* The store of the API server (apiserver/pkg/storage/etcd3/store.go): how *)
(* one object is created, updated and deleted in etcd, which compares its  *)
(* revision before it writes.                                              *)
(*                                                                         *)
(* An object is known by its mod revision, 0 if there is none.  Data that  *)
(* has to be encrypted anew, and times to live, are left out.              *)
(***************************************************************************)
EXTENDS Naturals, Sequences, SequencesExt, FiniteSetsExt

CONSTANTS Val,      \* what the object can be
          None,     \* it does not exist
          Updater,  \* goroutines of the API server that handle a request
          MaxRev    \* bound: revisions of etcd

ASSUME StoreAssumption == None \notin Val /\ MaxRev \in Nat \ {0}

VARIABLES log,      \* etcd: the object at every revision
          req,      \* the request of an updater; see Request
          upc,      \* where the handler is, or what it answers
          orig,     \* origState
          must,     \* mustCheckData
          begun,    \* history: the revision when the call began
          wrote     \* history: the revision it has written

updateVars == <<req, upc, orig, must, begun, wrote>>
storeVars  == <<log, updateVars>>

\* An update wants some data; a conditional delete wants None.  The request may
\* expect a revision (tryUpdate returns a conflict if it is another) and have a
\* UID as its precondition, if these are not 0, and may ignore that there is no
\* object.
Request == [want : Val \cup {None}, expect : Nat, uid : Nat, ignoreNotFound : BOOLEAN]

NoRequest == [want |-> None, expect |-> 0, uid |-> 0, ignoreNotFound |-> FALSE]

StoreInit ==
  /\ \E v \in Val \cup {None} : log = <<v>>
  /\ req = [u \in Updater |-> NoRequest] /\ upc = [u \in Updater |-> "idle"]
  /\ orig = [u \in Updater |-> 0] /\ must = [u \in Updater |-> FALSE]
  /\ begun = [u \in Updater |-> 0] /\ wrote = [u \in Updater |-> 0]

-----------------------------------------------------------------------------
(* etcd *)

Rev == Len(log)

Changed(r) == r = 1 \/ log[r] # log[r - 1]

\* The mod revision of the object at revision r.
ModRev(r) == IF log[r] = None THEN 0 ELSE Max({q \in 1..r : Changed(q)})

Value(o) == IF o = 0 THEN None ELSE log[o]

\* The UID of an object is given when it is created.
Uid(o) == IF o = 0 THEN 0
          ELSE Max({q \in 1..o : log[q] # None /\ (q = 1 \/ log[q - 1] = None)})

Write(v) == Rev < MaxRev /\ log' = Append(log, v)

\* The revision grows because another object is written.
WriteElsewhere == Write(log[Rev]) /\ UNCHANGED updateVars

\* Another API server updates the object.
UpdateElsewhere == /\ log[Rev] # None
                   /\ \E v \in Val \ {log[Rev]} : Write(v)
                   /\ UNCHANGED updateVars

-----------------------------------------------------------------------------
(* store *)

Create == log[Rev] = None /\ (\E v \in Val : Write(v)) /\ UNCHANGED updateVars

unconditionalDelete == log[Rev] # None /\ Write(None) /\ UNCHANGED updateVars

Goto(u, p) == upc' = [upc EXCEPT ![u] = p]

\* Nothing is asked of the object, it need not even be there, or something is
\* that was true at some time.
Conditions ==
  LET known == {ModRev(r) : r \in 1..Rev} IN
  {[NoRequest EXCEPT !.ignoreNotFound = b] : b \in BOOLEAN}
    \cup {[NoRequest EXCEPT !.expect = o] : o \in known}
    \cup {[NoRequest EXCEPT !.uid = Uid(o)] : o \in known}

\* A call begins with the suggestion s; 0 if there is none.  (Bound: etcd has a
\* revision left for what it writes.)
GuaranteedUpdate(u, s) ==
  /\ upc[u] = "idle" /\ Rev < MaxRev
  /\ \E v \in Val, k \in Conditions : req' = [req EXCEPT ![u] = [k EXCEPT !.want = v]]
  /\ orig' = [orig EXCEPT ![u] = s] /\ must' = [must EXCEPT ![u] = s # 0]
  /\ begun' = [begun EXCEPT ![u] = Rev]
  /\ Goto(u, IF s = 0 THEN "get" ELSE "try")
  /\ UNCHANGED <<log, wrote>>

conditionalDelete(u) ==
  /\ upc[u] = "idle" /\ Rev < MaxRev
  /\ \E r \in 1..Rev : req' = [req EXCEPT ![u] = [NoRequest EXCEPT !.uid = Uid(ModRev(r))]]
  /\ begun' = [begun EXCEPT ![u] = Rev]
  /\ Goto(u, "get")
  /\ UNCHANGED <<log, orig, must, wrote>>

\* getState: the object as it is now, and the handler goes on at p, or an error.
Refresh(u, p) ==
  /\ orig' = [orig EXCEPT ![u] = ModRev(Rev)]
  /\ must' = [must EXCEPT ![u] = FALSE]
  /\ Goto(u, IF log[Rev] = None /\ ~req[u].ignoreNotFound THEN "notFound" ELSE p)

getCurrentState(u) ==
  /\ upc[u] = "get"
  /\ Refresh(u, "try")
  /\ UNCHANGED <<log, req, begun, wrote>>

PreconditionFails(u) == req[u].uid # 0 /\ Uid(orig[u]) # req[u].uid

Conflicts(u) == req[u].expect # 0 /\ orig[u] # req[u].expect

AsWanted(u) == orig[u] # 0 /\ Value(orig[u]) = req[u].want

\* Slip: nothing is written if the object in the cache is as wanted.
TryTrusting(u) ==
  /\ upc[u] = "try"
  /\ Goto(u, IF PreconditionFails(u) THEN "invalid"
             ELSE IF Conflicts(u) THEN IF must[u] THEN "get" ELSE "conflict"
             ELSE IF AsWanted(u) THEN "noop" ELSE "txn")
  /\ UNCHANGED <<log, req, orig, must, begun, wrote>>

\* The top of the loop: the precondition, tryUpdate, and whether it changes the
\* data.  What follows from a suggestion is looked at again, with the object as
\* it is now, unless it is the precondition that fails.
Try(u) ==
  /\ upc[u] = "try"
  /\ Goto(u, IF PreconditionFails(u) THEN "invalid"
             ELSE IF Conflicts(u) THEN IF must[u] THEN "get" ELSE "conflict"
             ELSE IF ~AsWanted(u) THEN "txn"
             ELSE IF must[u] THEN "check" ELSE "noop")
  /\ UNCHANGED <<log, req, orig, must, begun, wrote>>

\* The data computed from a suggestion is not written if it is what is there.
CheckData(u) ==
  LET same == Value(ModRev(Rev)) = req[u].want /\ Uid(ModRev(Rev)) = Uid(orig[u]) IN
  /\ upc[u] = "check"
  /\ Refresh(u, IF same THEN "noop" ELSE "try")
  /\ UNCHANGED <<log, req, begun, wrote>>

\* The transaction writes if the object is the one seen, and reads if not.
Txn(u) ==
  /\ upc[u] = "txn"
  /\ IF ModRev(Rev) = orig[u]
     THEN /\ Write(req[u].want)
          /\ wrote' = [wrote EXCEPT ![u] = Rev + 1]
          /\ Goto(u, "ok")
          /\ UNCHANGED <<orig, must>>
     ELSE Refresh(u, "try") /\ UNCHANGED <<log, wrote>>
  /\ UNCHANGED <<req, begun>>

Answers == {"ok", "noop", "conflict", "notFound", "invalid"}

Reset(u) ==
  /\ Goto(u, "idle")
  /\ req' = [req EXCEPT ![u] = NoRequest] /\ orig' = [orig EXCEPT ![u] = 0]
  /\ must' = [must EXCEPT ![u] = FALSE]
  /\ begun' = [begun EXCEPT ![u] = 0] /\ wrote' = [wrote EXCEPT ![u] = 0]
  /\ UNCHANGED log

Return(u) == upc[u] \in Answers /\ Reset(u)

\* A call of etcd fails, or tryUpdate does with an error that is no conflict; an
\* error is returned.
CallFails(u) == upc[u] \notin Answers \cup {"idle"} /\ Reset(u)

Handle(u) == \/ getCurrentState(u) \/ Try(u) \/ CheckData(u) \/ Txn(u) \/ CallFails(u)
             \/ Return(u)

-----------------------------------------------------------------------------
(* Properties *)

\* The object o was the one in etcd at some time since the call began.
Fresh(u, o) == \E r \in begun[u]..Rev : ModRev(r) = o

\* Every answer is true of etcd, although the object comes from a cache first.
\* What is written replaces the very object that was looked at (no update is
\* lost); nothing is written only if the object is as wanted already; and it is
\* a conflict, missing or another object, only if it was so during the call:
\* except that a precondition is held against a cache that may be stale.
AnswersAreTrue ==
  \A u \in Updater :
    LET q == req[u] IN
    /\ upc[u] = "ok" =>
         /\ ModRev(wrote[u] - 1) = orig[u] /\ log[wrote[u]] = q.want
         /\ q.uid \in {0, Uid(orig[u])} /\ q.expect \in {0, orig[u]}
    /\ upc[u] = "noop" =>
         Fresh(u, orig[u]) /\ Value(orig[u]) = q.want /\ q.uid \in {0, Uid(orig[u])}
    /\ upc[u] = "conflict" => Fresh(u, orig[u]) /\ q.expect # orig[u]
    /\ upc[u] = "notFound" => Fresh(u, 0)
    /\ upc[u] = "invalid" /\ ~must[u] => Fresh(u, orig[u]) /\ q.uid # Uid(orig[u])
=============================================================================
