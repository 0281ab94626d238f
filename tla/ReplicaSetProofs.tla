--------------------------- MODULE ReplicaSetProofs ---------------------------
(***************************************************************************)
(* The expectations of the ReplicaSet controller are exact, for any set of *)
(* pods, any replicas, burst, changes and faults: the controller neither   *)
(* creates too many pods, nor keeps one it has deleted itself, nor waits   *)
(* for what will not come.                                                 *)
(***************************************************************************)
EXTENDS ReplicaSet, FiniteSetTheorems, TLAPS

Note == {"add", "update", "delete"}

RSTypeOK ==
  /\ server \in [Pod -> {"none", "live", "dying", "gone"}]
  /\ cache \in [Pod -> {"none", "live", "dying"}]
  /\ notes \in [Pod -> Seq(Note)]
  /\ external \subseteq Pod /\ uids \subseteq Pod
  /\ startup \subseteq Pod /\ carried \in Nat
  /\ listed \subseteq Pod /\ toDelete \subseteq Pod
  /\ replicas \in Replicas
  /\ want \in Nat /\ left \in Nat /\ batch \in Nat /\ todo \in Nat
  /\ exp \in [set : BOOLEAN, add : Int, del : Int, expired : BOOLEAN]

-----------------------------------------------------------------------------
(***************************************************************************)
(* Notifications of one pod.                                               *)
(***************************************************************************)
AddIn(n)    == \E i \in DOMAIN n : n[i] = "add"
OtherIn(n)  == \E i \in DOMAIN n : n[i] # "add"
AddFirst(n) == \A i \in DOMAIN n : i # 1 => n[i] # "add"

LEMMA NoNotes == ~AddIn(<<>>) /\ ~OtherIn(<<>>) /\ AddFirst(<<>>)
BY DEF AddIn, OtherIn, AddFirst

LEMMA NoteAppended ==
  ASSUME NEW n \in Seq(Note), NEW x \in Note
  PROVE  /\ n \o <<x>> \in Seq(Note)
         /\ AddIn(n \o <<x>>) <=> AddIn(n) \/ x = "add"
         /\ OtherIn(n \o <<x>>) <=> OtherIn(n) \/ x # "add"
         /\ AddFirst(n) /\ (x # "add" \/ n = <<>>) => AddFirst(n \o <<x>>)
<1> DEFINE m == n \o <<x>>
<1>1. Len(n) \in Nat /\ DOMAIN n = 1 .. Len(n) /\ (n = <<>> => Len(n) = 0)
  OBVIOUS
<1>2. /\ m \in Seq(Note) /\ DOMAIN m = 1 .. Len(n) + 1 /\ m[Len(n) + 1] = x
      /\ \A i \in 1 .. Len(n) : m[i] = n[i]
  OBVIOUS
<1> HIDE DEF m
<1>3. Len(n) + 1 \in DOMAIN m /\ \A i \in DOMAIN m : i \in DOMAIN n \/ i = Len(n) + 1
  BY <1>1, <1>2
<1>4. \A i \in DOMAIN n : i \in DOMAIN m /\ m[i] = n[i]
  BY <1>1, <1>2
<1>5. AddIn(m) <=> AddIn(n) \/ x = "add"
  BY <1>2, <1>3, <1>4 DEF AddIn
<1>6. OtherIn(m) <=> OtherIn(n) \/ x # "add"
  BY <1>2, <1>3, <1>4 DEF OtherIn
<1>7. AddFirst(n) /\ (x # "add" \/ n = <<>>) => AddFirst(m)
  BY <1>1, <1>2, <1>3, <1>4 DEF AddFirst
<1> QED BY <1>2, <1>5, <1>6, <1>7 DEF m

LEMMA NoteHandled ==
  ASSUME NEW n \in Seq(Note), n # <<>>, AddFirst(n)
  PROVE  /\ Tail(n) \in Seq(Note) /\ Head(n) \in Note
         /\ AddFirst(Tail(n)) /\ ~AddIn(Tail(n))
         /\ AddIn(n) <=> Head(n) = "add"
         /\ OtherIn(Tail(n)) => OtherIn(n)
         /\ IF Head(n) = "add" THEN OtherIn(n) => OtherIn(Tail(n)) ELSE OtherIn(n)
<1>1. /\ Len(n) \in Nat /\ Len(n) >= 1 /\ DOMAIN n = 1 .. Len(n) /\ Head(n) = n[1]
      /\ Tail(n) \in Seq(Note) /\ DOMAIN Tail(n) = 1 .. Len(n) - 1
      /\ Head(n) \in Note
  OBVIOUS
<1>2. \A i \in DOMAIN Tail(n) : i + 1 \in DOMAIN n /\ i + 1 # 1 /\ Tail(n)[i] = n[i + 1]
  BY <1>1
<1>3. \A j \in DOMAIN n : j # 1 => j - 1 \in DOMAIN Tail(n) /\ Tail(n)[j - 1] = n[j]
  BY <1>1
<1>4. 1 \in DOMAIN n
  BY <1>1
<1>5. \A i \in DOMAIN Tail(n) : Tail(n)[i] # "add"
  BY <1>2 DEF AddFirst
<1>6. AddFirst(Tail(n)) /\ ~AddIn(Tail(n))
  BY <1>5 DEF AddFirst, AddIn
<1>7. AddIn(n) <=> Head(n) = "add"
  BY <1>1, <1>4 DEF AddIn, AddFirst
<1>8. OtherIn(Tail(n)) => OtherIn(n)
  BY <1>2 DEF OtherIn
<1>9. IF Head(n) = "add" THEN OtherIn(n) => OtherIn(Tail(n)) ELSE OtherIn(n)
  BY <1>1, <1>3, <1>4 DEF OtherIn
<1> QED BY <1>1, <1>6, <1>7, <1>8, <1>9

-----------------------------------------------------------------------------
(***************************************************************************)
(* What holds of a pod, whatever the controller knows: the cache follows   *)
(* the server, the notifications follow the cache, and the controller      *)
(* deals only with pods that the cache has shown.                          *)
(***************************************************************************)
Shape(s, c, n) ==
  /\ AddFirst(n)
  /\ c # "none" => s # "none"
  /\ c = "dying" => s \in {"dying", "gone"}
  /\ c = "none" /\ s # "none" => n = <<>>
  /\ c = "live" => ~OtherIn(n)

Held == listed \cup toDelete \cup uids

PodInv(p) ==
  /\ Shape(server[p], cache[p], notes[p])
  /\ cache[p] = "none" /\ server[p] \in {"dying", "gone"} => p \in external
  /\ p \in Held /\ server[p] # "none" => cache[p] # "none"
  /\ p \in startup => AddIn(notes[p])

\* Where syncReplicaSet is, and what is under way.
CallInv ==
  /\ toDelete # {} => pc = "delete"
  /\ listed \cap toDelete = {}
  /\ todo <= left /\ (pc # "create" => left = 0)
  /\ pc \in {"create", "delete"} => exp.set
  /\ ~exp.set => exp.add = 0 /\ exp.del = 0
  /\ \A p \in toDelete : cache[p] = "live" => p \in uids
  /\ pc = "expect" => manage

BaseInv == RSTypeOK /\ (\A p \in Pod : PodInv(p)) /\ CallInv

-----------------------------------------------------------------------------
(***************************************************************************)
(* What the steps do to the pods.                                          *)
(***************************************************************************)

\* Only pod p changes.
Others(p) ==
  \A q \in Pod \ {p} : /\ server'[q] = server[q] /\ cache'[q] = cache[q]
                       /\ notes'[q] = notes[q]
                       /\ q \in external => q \in external'
                       /\ q \in Held' => q \in Held
                       /\ q \in startup' => q \in startup

LEMMA OnlyPod ==
  ASSUME \A q \in Pod : PodInv(q), NEW p \in Pod, Others(p), PodInv(p)'
  PROVE  \A q \in Pod : PodInv(q)'
<1> SUFFICES ASSUME NEW q \in Pod, q # p PROVE PodInv(q)'
  OBVIOUS
<1>1. PodInv(q)
  OBVIOUS
<1>2. /\ server'[q] = server[q] /\ cache'[q] = cache[q] /\ notes'[q] = notes[q]
      /\ q \in external => q \in external'
      /\ q \in Held' => q \in Held
      /\ q \in startup' => q \in startup
  BY DEF Others
<1> QED BY <1>1, <1>2 DEF PodInv

\* No pod changes, and the controller lists only pods of the cache.
LEMMA PodsStay ==
  ASSUME \A q \in Pod : PodInv(q), UNCHANGED <<server, cache, notes, external, startup>>,
         Held' \subseteq Held \cup Live(cache)
  PROVE  \A q \in Pod : PodInv(q)'
<1> SUFFICES ASSUME NEW q \in Pod PROVE PodInv(q)'
  OBVIOUS
<1>1. PodInv(q) /\ (q \in Held' => q \in Held \/ cache[q] = "live")
  BY DEF Live
<1> QED BY <1>1 DEF PodInv

\* The deletion of a pod begins or ends.
LEMMA PodDies ==
  ASSUME BaseInv, NEW p \in Pod, NEW s \in {"dying", "gone"},
         server[p] \in {"live", "dying"}, server' = [server EXCEPT ![p] = s],
         UNCHANGED <<cache, notes, startup>>, external' \in {external, external \cup {p}},
         cache[p] = "none" => p \in external',
         Held' \subseteq Held
  PROVE  /\ server' \in [Pod -> {"none", "live", "dying", "gone"}]
         /\ \A q \in Pod : PodInv(q)'
<1>1. server \in [Pod -> {"none", "live", "dying", "gone"}] /\ PodInv(p)
  BY DEF BaseInv, RSTypeOK
<1>2. server'[p] = s /\ s # "none" /\ \A q \in Pod \ {p} : server'[q] = server[q]
  BY <1>1
<1>3. Others(p)
  BY <1>2 DEF Others
<1>4. PodInv(p)'
  BY <1>1, <1>2 DEF PodInv, Shape
<1> QED BY <1>1, <1>3, <1>4, OnlyPod DEF BaseInv

\* The cache shows a pod.
LEMMA PodShown ==
  ASSUME BaseInv, NEW p \in Pod, Watch(p) \/ Relist(p)
  PROVE  /\ RSTypeOK'
         /\ \A q \in Pod : PodInv(q)'
         /\ cache'[p] = "live" /\ cache[p] # "live" => cache[p] = "none" /\ server[p] # "none"
         /\ \A q \in Pod \ {p} : cache'[q] = cache[q]
<1>0. RSTypeOK /\ PodInv(p)
  BY DEF BaseInv
<1>1. /\ server \in [Pod -> {"none", "live", "dying", "gone"}]
      /\ cache \in [Pod -> {"none", "live", "dying"}]
      /\ notes \in [Pod -> Seq(Note)] /\ notes[p] \in Seq(Note)
  BY <1>0 DEF RSTypeOK
<1>2. /\ UNCHANGED <<external, startup, carried, replicas, exp, uids, want, listed, toDelete,
                     left, batch, todo>>
      /\ Held' = Held
  BY DEF Watch, Relist, Shows, startVars, rsVars, expVars, syncVars, callVars, Held
<1>3. ASSUME NEW c \in {"none", "live", "dying"}, NEW x \in Note,
             Shows(p, c, <<x>>), Shape(IF c = "none" THEN "none" ELSE server[p], c, notes[p] \o <<x>>),
             c = "none" \/ cache[p] # "none" \/ p \notin Held,
             c = "live" => cache[p] = "none" /\ server[p] # "none"
      PROVE  /\ RSTypeOK'
             /\ \A q \in Pod : PodInv(q)'
             /\ cache'[p] = "live" /\ cache[p] # "live" => cache[p] = "none" /\ server[p] # "none"
             /\ \A q \in Pod \ {p} : cache'[q] = cache[q]
  <2>1. /\ cache' = [cache EXCEPT ![p] = c]
        /\ notes' = [notes EXCEPT ![p] = notes[p] \o <<x>>]
        /\ server' = IF c = "none" THEN [server EXCEPT ![p] = "none"] ELSE server
    BY <1>3 DEF Shows
  <2>2. notes[p] \o <<x>> \in Seq(Note) /\ (AddIn(notes[p]) => AddIn(notes[p] \o <<x>>))
    BY <1>1, NoteAppended
  <2>3. /\ cache' \in [Pod -> {"none", "live", "dying"}]
        /\ server' \in [Pod -> {"none", "live", "dying", "gone"}]
        /\ notes' \in [Pod -> Seq(Note)]
    BY <1>1, <2>1, <2>2
  <2>4. RSTypeOK'
    BY <1>0, <1>2, <2>3 DEF RSTypeOK
  <2>5. /\ cache'[p] = c /\ notes'[p] = notes[p] \o <<x>>
        /\ server'[p] = IF c = "none" THEN "none" ELSE server[p]
        /\ \A q \in Pod \ {p} : /\ cache'[q] = cache[q] /\ notes'[q] = notes[q]
                                /\ server'[q] = server[q]
    BY <1>1, <2>1
  <2>6. Others(p)
    BY <1>2, <2>5 DEF Others
  <2>7. PodInv(p)'
    BY <1>0, <1>2, <1>3, <2>2, <2>5 DEF PodInv
  <2>8. \A q \in Pod : PodInv(q)'
    BY <2>6, <2>7, OnlyPod DEF BaseInv
  <2> QED BY <1>3, <2>4, <2>5, <2>8
<1>4. /\ AddFirst(notes[p]) /\ (cache[p] = "none" /\ server[p] # "none" => notes[p] = <<>>)
      /\ cache[p] = "none" /\ server[p] # "none" => p \notin Held
  BY <1>0 DEF PodInv, Shape
<1>5. CASE cache[p] = "none" /\ server[p] # "none" /\ Shows(p, "live", <<"add">>)
  <2>1. AddFirst(notes[p] \o <<"add">>) /\ ~OtherIn(notes[p] \o <<"add">>)
    BY <1>1, <1>4, <1>5, NoteAppended, NoNotes DEF Note
  <2> QED BY <1>3, <1>4, <1>5, <2>1 DEF Shape, Note
<1>6. CASE (cache[p] = "live" \/ cache[p] = "none") /\ server[p] \in {"dying", "gone"}
           /\ Shows(p, "dying", <<"update">>)
  <2>1. AddFirst(notes[p] \o <<"update">>)
    BY <1>1, <1>4, NoteAppended DEF Note
  <2> QED BY <1>3, <1>4, <1>6, <2>1 DEF Shape, Note
<1>7. CASE cache[p] \in {"live", "dying"} /\ server[p] = "gone" /\ Shows(p, "none", <<"delete">>)
  <2>1. AddFirst(notes[p] \o <<"delete">>)
    BY <1>1, <1>4, NoteAppended DEF Note
  <2> QED BY <1>3, <1>4, <1>7, <2>1 DEF Shape, Note
<1>8. CASE cache[p] = "none" /\ server[p] = "gone" /\ Shows(p, "none", <<>>)
  <2>1. /\ cache' = [cache EXCEPT ![p] = "none"]
        /\ notes' = [notes EXCEPT ![p] = notes[p] \o <<>>]
        /\ server' = [server EXCEPT ![p] = "none"]
    BY <1>8 DEF Shows
  <2>2. notes[p] \o <<>> = notes[p]
    BY <1>1
  <2>3. cache' = cache /\ notes' = notes
    BY <1>1, <1>8, <2>1, <2>2
  <2>4. /\ server' \in [Pod -> {"none", "live", "dying", "gone"}] /\ server'[p] = "none"
        /\ \A q \in Pod \ {p} : server'[q] = server[q]
    BY <1>1, <2>1
  <2>5. RSTypeOK'
    BY <1>0, <1>2, <2>3, <2>4 DEF RSTypeOK
  <2>6. Others(p)
    BY <1>2, <2>3, <2>4 DEF Others
  <2>7. PodInv(p)'
    BY <1>0, <1>2, <1>8, <2>3, <2>4 DEF PodInv, Shape
  <2>8. \A q \in Pod : PodInv(q)'
    BY <2>6, <2>7, OnlyPod DEF BaseInv
  <2> QED BY <2>3, <2>5, <2>8
<1>9. \/ cache[p] = "none" /\ server[p] # "none" /\ Shows(p, "live", <<"add">>)
      \/ (cache[p] = "live" \/ cache[p] = "none") /\ server[p] \in {"dying", "gone"}
           /\ Shows(p, "dying", <<"update">>)
      \/ cache[p] \in {"live", "dying"} /\ server[p] = "gone" /\ Shows(p, "none", <<"delete">>)
      \/ cache[p] = "none" /\ server[p] = "gone" /\ Shows(p, "none", <<>>)
  BY DEF Watch, Relist
<1> QED BY <1>5, <1>6, <1>7, <1>8, <1>9

\* The expectations are lowered, if they are set.
LEMMA Lowered ==
  ASSUME RSTypeOK, NEW a \in Int, NEW d \in Int, LowerExpectations(a, d)
  PROVE  /\ exp' \in [set : BOOLEAN, add : Int, del : Int, expired : BOOLEAN]
         /\ exp'.set = exp.set
         /\ exp'.add = IF exp.set THEN exp.add - a ELSE exp.add
         /\ exp'.del = IF exp.set THEN exp.del - d ELSE exp.del
<1> DEFINE E == [set : BOOLEAN, add : Int, del : Int, expired : BOOLEAN]
<1>1. exp \in E /\ exp.add \in Int /\ exp.del \in Int
  BY DEF RSTypeOK
<1>2. CASE exp.set
  <2>1. exp' = [exp EXCEPT !.add = exp.add - a, !.del = exp.del - d]
    BY <1>2 DEF LowerExpectations
  <2>2. PICK x, y \in Int : x = exp.add - a /\ y = exp.del - d
    BY <1>1
  <2>3. exp' = [exp EXCEPT !.add = x, !.del = y]
    BY <2>1, <2>2
  <2>4. exp' \in E /\ exp'.add = x /\ exp'.del = y /\ exp'.set = exp.set
    BY <1>1, <2>2, <2>3
  <2> QED BY <1>2, <2>2, <2>4
<1>3. CASE ~exp.set
  BY <1>1, <1>3 DEF LowerExpectations
<1> QED BY <1>2, <1>3

LEMMA DeletionCounted ==
  ASSUME RSTypeOK, NEW p \in Pod, DeletionObserved(p)
  PROVE  /\ exp' \in [set : BOOLEAN, add : Int, del : Int, expired : BOOLEAN]
         /\ exp'.set = exp.set /\ exp'.add = exp.add
         /\ uids' = uids \ {p}
         /\ exp'.del = IF exp.set /\ p \in uids THEN exp.del - 1 ELSE exp.del
<1>1. exp \in [set : BOOLEAN, add : Int, del : Int, expired : BOOLEAN]
  BY DEF RSTypeOK
<1>2. CASE p \in uids
  <2>1. LowerExpectations(0, 1) /\ uids' = uids \ {p}
    BY <1>2 DEF DeletionObserved
  <2> QED BY <1>1, <1>2, <2>1, Lowered
<1>3. CASE p \notin uids
  <2>1. exp' = exp /\ uids' = uids
    BY <1>3 DEF DeletionObserved, expVars
  <2> QED BY <1>1, <1>3, <2>1
<1> QED BY <1>2, <1>3

\* addPod, updatePod or deletePod.
LEMMA PodHandled ==
  ASSUME BaseInv, NEW p \in Pod, HandlePod(p)
  PROVE  /\ RSTypeOK'
         /\ \A q \in Pod : PodInv(q)'
         /\ exp'.set = exp.set
         /\ uids' \in {uids, uids \ {p}}
         /\ IF phase # "absent" /\ AddIn(notes[p])
            THEN /\ exp'.add = IF exp.set THEN exp.add - 1 ELSE exp.add
                 /\ exp'.del = exp.del /\ uids' = uids
            ELSE exp'.add = exp.add
         /\ IF phase # "absent" /\ ~AddIn(notes[p])
            THEN /\ exp'.del = IF exp.set /\ p \in uids THEN exp.del - 1 ELSE exp.del
                 /\ uids' = uids \ {p} /\ cache[p] # "live"
            ELSE exp'.del = exp.del /\ uids' = uids
         /\ startup' = startup \ {p}
         /\ p \in startup => AddIn(notes[p])
         /\ carried' = IF p \in startup /\ phase # "absent" /\ exp.add > 0
                       THEN carried + 1 ELSE carried
<1>0. RSTypeOK /\ PodInv(p) /\ notes \in [Pod -> Seq(Note)] /\ notes[p] \in Seq(Note)
  BY DEF BaseInv, RSTypeOK
<1>1. PICK n \in Seq(Note) : n = notes[p]
  BY <1>0
<1>2. /\ n # <<>> /\ AddFirst(n) /\ notes' = [notes EXCEPT ![p] = Tail(n)]
      /\ UNCHANGED <<server, cache, external, listed, toDelete, replicas, want, left, batch, todo>>
  BY <1>0, <1>1 DEF HandlePod, PodInv, Shape, serverVars, rsVars, syncVars, callVars
<1>3. /\ Tail(n) \in Seq(Note) /\ Head(n) \in Note
      /\ AddFirst(Tail(n))
      /\ AddIn(n) <=> Head(n) = "add"
      /\ OtherIn(Tail(n)) => OtherIn(n)
      /\ Head(n) # "add" => OtherIn(n)
  BY <1>2, NoteHandled
<1>4. cache[p] = "live" => ~OtherIn(n)
  BY <1>0, <1>1 DEF PodInv, Shape
<1>5. /\ exp' \in [set : BOOLEAN, add : Int, del : Int, expired : BOOLEAN]
      /\ exp'.set = exp.set /\ uids' \in {uids, uids \ {p}}
      /\ IF phase # "absent" /\ AddIn(n)
         THEN /\ exp'.add = IF exp.set THEN exp.add - 1 ELSE exp.add
              /\ exp'.del = exp.del /\ uids' = uids
         ELSE exp'.add = exp.add
      /\ IF phase # "absent" /\ ~AddIn(n)
         THEN /\ exp'.del = IF exp.set /\ p \in uids THEN exp.del - 1 ELSE exp.del
              /\ uids' = uids \ {p} /\ cache[p] # "live"
         ELSE exp'.del = exp.del /\ uids' = uids
  <2>1. CASE phase = "absent"
    <3>1. exp' = exp /\ uids' = uids
      BY <2>1 DEF HandlePod, expVars
    <3> QED BY <1>0, <2>1, <3>1 DEF RSTypeOK
  <2>2. CASE phase # "absent" /\ AddIn(n)
    <3>1. LowerExpectations(1, 0) /\ uids' = uids
      BY <1>1, <1>3, <2>2 DEF HandlePod, CreationObserved
    <3>2. exp.del \in Int
      BY <1>0 DEF RSTypeOK
    <3> QED BY <1>0, <2>2, <3>1, <3>2, Lowered
  <2>3. CASE phase # "absent" /\ ~AddIn(n)
    <3>1. DeletionObserved(p)
      BY <1>1, <1>3, <2>3 DEF HandlePod
    <3>2. cache[p] # "live"
      BY <1>3, <1>4, <2>3
    <3> QED BY <1>0, <2>3, <3>1, <3>2, DeletionCounted
  <2> QED BY <2>1, <2>2, <2>3
<1>6. /\ notes' \in [Pod -> Seq(Note)] /\ notes'[p] = Tail(n)
      /\ \A q \in Pod \ {p} : notes'[q] = notes[q]
  BY <1>0, <1>2, <1>3
<1>13. /\ startup' = startup \ {p} /\ (p \in startup => AddIn(n))
       /\ carried' = IF p \in startup /\ phase # "absent" /\ exp.add > 0
                     THEN carried + 1 ELSE carried
  <2>1. p \in startup => Head(n) = "add"
    BY <1>0, <1>1, <1>3 DEF PodInv
  <2>2. carried \in Nat
    BY <1>0 DEF RSTypeOK
  <2>3. CASE p \in startup
    <3>1. /\ startup' = startup \ {p}
          /\ carried' = carried + IF phase # "absent" /\ exp.add > 0 THEN 1 ELSE 0
      BY <1>1, <2>1, <2>3 DEF HandlePod
    <3> QED BY <1>3, <2>1, <2>2, <2>3, <3>1
  <2>4. CASE p \notin startup
    BY <1>1, <2>4 DEF HandlePod, startVars
  <2> QED BY <2>3, <2>4
<1>14. startup' \subseteq Pod /\ carried' \in Nat /\ p \notin startup'
  BY <1>0, <1>13 DEF RSTypeOK
<1>7. uids' \subseteq uids
  BY <1>5
<1>8. Held' \subseteq Held
  BY <1>2, <1>7 DEF Held
<1>9. RSTypeOK'
  BY <1>0, <1>2, <1>5, <1>6, <1>7, <1>14 DEF RSTypeOK
<1>10. Others(p)
  BY <1>2, <1>6, <1>8, <1>13 DEF Others
<1>11. PodInv(p)'
  <2>1. Shape(server[p], cache[p], Tail(n))
    BY <1>0, <1>1, <1>2, <1>3 DEF PodInv, Shape
  <2> QED BY <1>0, <1>2, <1>6, <1>8, <1>14, <2>1 DEF PodInv
<1>12. \A q \in Pod : PodInv(q)'
  BY <1>10, <1>11, OnlyPod DEF BaseInv
<1> QED BY <1>1, <1>5, <1>9, <1>12, <1>13

\* A pod is created.
LEMMA PodCreated ==
  ASSUME BaseInv, Created, toDelete = {},
         UNCHANGED <<cache, notes, startup, listed, toDelete, uids>>
  PROVE  \E p \in Pod :
           /\ server[p] = "none" /\ cache[p] = "none" /\ notes[p] = <<>>
           /\ server' = [server EXCEPT ![p] = "live"]
           /\ external' = external \ {p} /\ p \notin uids /\ p \notin startup
           /\ server' \in [Pod -> {"none", "live", "dying", "gone"}]
           /\ external' \subseteq Pod
           /\ \A q \in Pod : PodInv(q)'
<1>1. PICK p \in Fresh : /\ server' = [server EXCEPT ![p] = "live"]
                         /\ external' = external \ {p}
  BY DEF Created
<1>2. /\ p \in Pod /\ server[p] = "none" /\ notes[p] = <<>> /\ p \notin Held
      /\ PodInv(p) /\ external \subseteq Pod
      /\ server \in [Pod -> {"none", "live", "dying", "gone"}]
  BY DEF Fresh, BaseInv, RSTypeOK, Held
<1>3. cache[p] = "none"
  BY <1>2 DEF PodInv, Shape
<1>4. /\ server' \in [Pod -> {"none", "live", "dying", "gone"}] /\ server'[p] = "live"
      /\ \A q \in Pod \ {p} : server'[q] = server[q]
  BY <1>1, <1>2
<1>5. Held' = Held
  BY DEF Held
<1>6. Others(p)
  BY <1>1, <1>4, <1>5 DEF Others
<1>7. PodInv(p)'
  BY <1>2, <1>3, <1>4, <1>5, NoNotes DEF PodInv, Shape
<1>8. \A q \in Pod : PodInv(q)'
  BY <1>2, <1>6, <1>7, OnlyPod DEF BaseInv
<1>9. p \notin uids /\ p \notin startup
  BY <1>2, NoNotes DEF Held, PodInv
<1> QED BY <1>1, <1>2, <1>3, <1>4, <1>8, <1>9

-----------------------------------------------------------------------------
(* BaseInv is inductive. *)

LEMMA Limits ==
  ASSUME NEW n \in Int, NEW m \in Nat \ {0}
  PROVE  /\ AtMost(n, m) \in Int /\ AtMost(n, m) <= n /\ AtMost(n, m) <= m
         /\ n >= 0 => AtMost(n, m) \in Nat
         /\ n > 0 => AtMost(n, m) >= 1
BY DEF AtMost

LEMMA PodsFinite ==
  ASSUME NEW S \in SUBSET Pod
  PROVE  IsFiniteSet(S) /\ Cardinality(S) \in Nat
BY RSAssumption, FS_Subset, FS_CardinalityType

LEMMA OneNote ==
  /\ AddIn(<<"add">>) /\ ~OtherIn(<<"add">>) /\ AddFirst(<<"add">>)
  /\ ~AddIn(<<"update">>) /\ AddFirst(<<"update">>)
  /\ <<"add">> \in Seq(Note) /\ <<"update">> \in Seq(Note) /\ <<>> \in Seq(Note)
BY DEF AddIn, OtherIn, AddFirst, Note

\* The notifications that are pending at the start.
LEMMA FirstNotes ==
  ASSUME RSInit, NEW p \in Pod
  PROVE  /\ cache[p] = "none" => notes[p] = <<>>
         /\ cache[p] = "live" => notes[p] = <<"add">>
         /\ cache[p] = "dying" => notes[p] = <<"update">>
         /\ cache[p] \in {"none", "live", "dying"}
         /\ notes[p] \in Seq(Note)
<1>1. /\ cache[p] \in {"none", "live", "dying"}
      /\ notes[p] = CASE cache[p] = "none" -> <<>>
                     [] cache[p] = "live" -> <<"add">>
                     [] cache[p] = "dying" -> <<"update">>
  BY DEF RSInit
<1>2. /\ cache[p] = "none" => notes[p] = <<>>
      /\ cache[p] = "live" => notes[p] = <<"add">>
      /\ cache[p] = "dying" => notes[p] = <<"update">>
  BY <1>1
<1> QED BY <1>1, <1>2, OneNote

LEMMA BaseInit == RSInit => BaseInv
<1> SUFFICES ASSUME RSInit PROVE BaseInv
  OBVIOUS
<1>1. RSTypeOK
  <2>1. notes \in [Pod -> Seq(Note)]
    <3>1. notes = [p \in Pod |-> notes[p]]
      BY DEF RSInit
    <3> QED BY <3>1, FirstNotes
  <2>2. carried \in Nat
    <3>1. Untold \ startup \in SUBSET Pod
      BY DEF Untold
    <3> QED BY <3>1, PodsFinite DEF RSInit
  <2> QED BY <2>1, <2>2, RSAssumption DEF RSInit, RSTypeOK, NoExp
<1>2. ASSUME NEW p \in Pod PROVE PodInv(p)
  <2>1. /\ cache[p] = "none" => notes[p] = <<>>
        /\ cache[p] = "live" => notes[p] = <<"add">>
        /\ cache[p] = "dying" => notes[p] = <<"update">>
        /\ cache[p] \in {"none", "live", "dying"}
    BY FirstNotes
  <2>2. /\ cache[p] \in Shown(server[p]) /\ p \notin Held
        /\ p \in startup => cache[p] = "live"
        /\ p \in external <=> server[p] \in {"dying", "gone"}
    BY DEF RSInit, Held
  <2>3. /\ cache[p] # "none" => server[p] # "none"
        /\ cache[p] = "dying" => server[p] \in {"dying", "gone"}
    BY <2>2 DEF Shown
  <2> QED BY <2>1, <2>2, <2>3, NoNotes, OneNote DEF PodInv, Shape
<1>3. CallInv
  BY DEF RSInit, CallInv, NoExp
<1> QED BY <1>1, <1>2, <1>3 DEF BaseInv

\* The steps of others do not touch the calls.
LEMMA CallsStay ==
  ASSUME CallInv, UNCHANGED <<toDelete, listed, todo, left, pc, manage>>,
         exp'.set = exp.set, ~exp.set => exp'.add = exp.add /\ exp'.del = exp.del,
         \A p \in toDelete : cache'[p] = "live" => cache[p] = "live" /\ (p \in uids => p \in uids')
  PROVE  CallInv'
BY DEF CallInv

LEMMA OthersBase ==
  ASSUME BaseInv,
         Expire \/ UpdateRS \/ DeleteRS
           \/ \E p \in Pod : DeletedByOthers(p) \/ Removed(p) \/ Watch(p) \/ Relist(p)
                             \/ HandlePod(p)
  PROVE  BaseInv'
<1>0. RSTypeOK /\ CallInv /\ (\A q \in Pod : PodInv(q)) /\ toDelete \subseteq Pod
  BY DEF BaseInv, RSTypeOK
<1> USE DEF serverVars, startVars, rsVars, expVars, callVars, syncVars
<1>1. CASE Expire
  <2>1. /\ exp' = [exp EXCEPT !.expired = TRUE] /\ exp.set
        /\ UNCHANGED <<server, cache, notes, external, startup, carried, replicas, uids, want, listed, toDelete,
                       left, batch, todo, pc, manage>>
    BY <1>1 DEF Expire
  <2>2. exp' \in [set : BOOLEAN, add : Int, del : Int, expired : BOOLEAN] /\ exp'.set = exp.set
    BY <1>0, <2>1 DEF RSTypeOK
  <2>3. RSTypeOK'
    BY <1>0, <2>1, <2>2 DEF RSTypeOK
  <2>4. \A q \in Pod : PodInv(q)'
    BY <1>0, <2>1, PodsStay DEF Held
  <2>5. CallInv'
    BY <1>0, <2>1, <2>2, CallsStay
  <2> QED BY <2>3, <2>4, <2>5 DEF BaseInv
<1>2. CASE UpdateRS \/ DeleteRS
  <2>1. /\ UNCHANGED <<server, cache, notes, external, startup, carried, exp, uids, want, listed, toDelete,
                       left, batch, todo, pc, manage>>
        /\ replicas' \in Replicas
    BY <1>0, <1>2 DEF UpdateRS, DeleteRS, RSTypeOK
  <2>2. RSTypeOK'
    BY <1>0, <2>1 DEF RSTypeOK
  <2>3. \A q \in Pod : PodInv(q)'
    BY <1>0, <2>1, PodsStay DEF Held
  <2>4. CallInv'
    BY <1>0, <2>1, CallsStay
  <2> QED BY <2>2, <2>3, <2>4 DEF BaseInv
<1>3. ASSUME NEW p \in Pod, DeletedByOthers(p) \/ Removed(p) PROVE BaseInv'
  <2>1. PICK s \in {"dying", "gone"} : server' = [server EXCEPT ![p] = s]
    BY <1>3 DEF DeletedByOthers, Removed
  <2>2. /\ server[p] \in {"live", "dying"}
        /\ external' \in {external, external \cup {p}}
        /\ server[p] = "live" => p \in external'
        /\ UNCHANGED <<cache, notes, startup, carried, replicas, exp, uids, want, listed, toDelete,
                       left, batch, todo, pc, manage>>
    BY <1>3 DEF DeletedByOthers, Removed
  <2>3. cache[p] = "none" => p \in external'
    BY <1>0, <2>2 DEF PodInv
  <2>4. Held' = Held
    BY <2>2 DEF Held
  <2>5. /\ server' \in [Pod -> {"none", "live", "dying", "gone"}]
        /\ \A q \in Pod : PodInv(q)'
    BY <2>1, <2>2, <2>3, <2>4, PodDies
  <2>6. RSTypeOK'
    BY <1>0, <2>2, <2>5 DEF RSTypeOK
  <2>7. CallInv'
    BY <1>0, <2>2, CallsStay
  <2> QED BY <2>5, <2>6, <2>7 DEF BaseInv
<1>4. ASSUME NEW p \in Pod, Watch(p) \/ Relist(p) PROVE BaseInv'
  <2>1. UNCHANGED <<exp, uids, listed, toDelete, left, todo, pc, manage>>
    BY <1>4 DEF Watch, Relist, Shows
  <2>2. /\ RSTypeOK'
        /\ \A q \in Pod : PodInv(q)'
        /\ cache'[p] = "live" /\ cache[p] # "live" => cache[p] = "none" /\ server[p] # "none"
        /\ \A q \in Pod \ {p} : cache'[q] = cache[q]
    BY <1>4, PodShown
  <2>3. \A q \in toDelete : cache'[q] = "live" => cache[q] = "live"
    BY <1>0, <2>2 DEF PodInv, Held
  <2>4. CallInv'
    BY <1>0, <2>1, <2>3, CallsStay
  <2> QED BY <2>2, <2>4 DEF BaseInv
<1>5. ASSUME NEW p \in Pod, HandlePod(p) PROVE BaseInv'
  <2>1. /\ RSTypeOK' /\ \A q \in Pod : PodInv(q)'
        /\ exp'.set = exp.set
        /\ ~exp.set => exp'.add = exp.add /\ exp'.del = exp.del
        /\ uids' = uids \/ (uids' = uids \ {p} /\ cache[p] # "live")
    BY <1>5, PodHandled
  <2>2. UNCHANGED <<cache, listed, toDelete, left, todo, pc, manage>>
    BY <1>5 DEF HandlePod
  <2>3. CallInv'
    BY <1>0, <2>1, <2>2, CallsStay
  <2> QED BY <2>1, <2>3 DEF BaseInv
<1> QED BY <1>1, <1>2, <1>3, <1>4, <1>5

LEMMA SyncBase == ASSUME BaseInv, Sync PROVE BaseInv'
<1>0. RSTypeOK /\ CallInv /\ (\A q \in Pod : PodInv(q)) /\ toDelete \subseteq Pod
  BY DEF BaseInv, RSTypeOK
<1> USE DEF serverVars, startVars, rsVars, expVars, callVars, syncVars
<1>1. CASE SyncBegins
  <2>1. /\ UNCHANGED <<server, cache, notes, external, startup, carried, replicas, listed, toDelete, left, batch, todo>>
        /\ pc = "idle"
        /\ \/ exp' = NoExp /\ uids' = {} /\ UNCHANGED <<pc, manage, want>>
           \/ pc' = "list" /\ want' = replicas /\ UNCHANGED <<exp, uids>>
    BY <1>1 DEF SyncBegins
  <2>2. replicas \in Nat
    BY <1>0, RSAssumption DEF RSTypeOK
  <2>3. RSTypeOK'
    <3>1. NoExp \in [set : BOOLEAN, add : Int, del : Int, expired : BOOLEAN]
      BY DEF NoExp
    <3>2. /\ exp' \in [set : BOOLEAN, add : Int, del : Int, expired : BOOLEAN]
          /\ uids' \subseteq Pod /\ want' \in Nat
      BY <1>0, <2>1, <2>2, <3>1 DEF RSTypeOK
    <3> QED BY <1>0, <2>1, <3>2 DEF RSTypeOK
  <2>4. Held' \subseteq Held
    BY <2>1 DEF Held
  <2>5. \A q \in Pod : PodInv(q)'
    BY <1>0, <2>1, <2>4, PodsStay
  <2>6. CallInv'
    BY <1>0, <2>1 DEF CallInv, NoExp
  <2> QED BY <2>3, <2>5, <2>6 DEF BaseInv
<1>2. CASE ListPods
  <2>1. /\ UNCHANGED <<server, cache, notes, external, startup, replicas, exp, uids, manage, want, toDelete,
                       left, batch, todo>>
        /\ pc = "list" /\ listed' = Live(cache) /\ pc' \in {"expect", "status"}
        /\ pc' = "expect" => manage
        /\ carried' = IF Untold \subseteq startup THEN 0 ELSE carried
    BY <1>2 DEF ListPods
  <2>2. RSTypeOK'
    BY <1>0, <2>1 DEF RSTypeOK, Live
  <2>3. Held' \subseteq Held \cup Live(cache)
    BY <2>1 DEF Held
  <2>4. \A q \in Pod : PodInv(q)'
    BY <1>0, <2>1, <2>3, PodsStay
  <2>5. CallInv'
    BY <1>0, <2>1 DEF CallInv
  <2> QED BY <2>2, <2>4, <2>5 DEF BaseInv
<1>3. CASE ExpectCreations
  <2> DEFINE diff == AtMost(want - Cardinality(listed), Burst)
  <2>1. /\ UNCHANGED <<server, cache, notes, external, startup, carried, replicas, uids, want, listed, toDelete>>
        /\ pc = "expect" /\ pc' = "create" /\ Cardinality(listed) < want
        /\ exp' = [set |-> TRUE, add |-> diff, del |-> 0, expired |-> FALSE]
        /\ left' = diff /\ batch' = 1 /\ todo' = 1
    BY <1>3 DEF ExpectCreations, SetExpectations
  <2>2. diff \in Nat /\ diff >= 1
    <3>1. want \in Nat /\ Cardinality(listed) \in Nat
      BY <1>0, PodsFinite DEF RSTypeOK
    <3>2. want - Cardinality(listed) \in Int /\ want - Cardinality(listed) > 0
      BY <2>1, <3>1
    <3>3. Burst \in Nat \ {0}
      BY RSAssumption
    <3>4. PICK x \in Int : x = want - Cardinality(listed) /\ x > 0
      BY <3>2
    <3>5. AtMost(x, Burst) \in Nat /\ AtMost(x, Burst) >= 1
      BY <3>3, <3>4, Limits
    <3> QED BY <3>4, <3>5
  <2> HIDE DEF diff
  <2>3. RSTypeOK'
    BY <1>0, <2>1, <2>2 DEF RSTypeOK
  <2>4. Held' = Held
    BY <2>1 DEF Held
  <2>5. \A q \in Pod : PodInv(q)'
    BY <1>0, <2>1, <2>4, PodsStay
  <2>6. CallInv'
    BY <1>0, <2>1, <2>2 DEF CallInv
  <2> QED BY <2>3, <2>5, <2>6 DEF BaseInv
<1>4. CASE ExpectDeletions
  <2> DEFINE diff == AtMost(Cardinality(listed) - want, Burst)
  <2>1. PICK S \in SUBSET listed : toDelete' = S /\ listed' = listed \ S /\ uids' = S
    BY <1>4 DEF ExpectDeletions, kSubset
  <2>2. /\ UNCHANGED <<server, cache, notes, external, startup, carried, replicas, want, left, batch, todo>>
        /\ pc = "expect" /\ pc' = "delete"
        /\ exp' = [set |-> TRUE, add |-> 0, del |-> diff, expired |-> FALSE]
    BY <1>4 DEF ExpectDeletions, SetExpectations
  <2>3. diff \in Int
    <3>1. want \in Nat /\ Cardinality(listed) \in Nat
      BY <1>0, PodsFinite DEF RSTypeOK
    <3> QED BY <3>1, Limits, RSAssumption
  <2> HIDE DEF diff
  <2>4. RSTypeOK'
    BY <1>0, <2>1, <2>2, <2>3 DEF RSTypeOK
  <2>5. Held' \subseteq Held
    BY <2>1 DEF Held
  <2>6. \A q \in Pod : PodInv(q)'
    BY <1>0, <2>2, <2>5, PodsStay
  <2>7. CallInv'
    BY <1>0, <2>1, <2>2 DEF CallInv
  <2> QED BY <2>4, <2>6, <2>7 DEF BaseInv
<1>5. CASE CreatePod
  <2>1. /\ UNCHANGED <<cache, notes, startup, carried, replicas, exp, uids, manage, want, listed, toDelete, batch, pc>>
        /\ pc = "create" /\ todo > 0 /\ todo' = todo - 1
        /\ left' \in {left, left - 1}
        /\ Created \/ UNCHANGED <<server, external>>
    BY <1>5 DEF CreatePod
  <2>2. toDelete = {}
    BY <1>0, <2>1 DEF CallInv
  <2>3. todo' \in Nat /\ left' \in Nat /\ todo' <= left'
    BY <1>0, <2>1 DEF RSTypeOK, CallInv
  <2>4. CASE Created
    <3>1. PICK p \in Pod : /\ server' \in [Pod -> {"none", "live", "dying", "gone"}]
                           /\ external' \subseteq Pod
                           /\ \A q \in Pod : PodInv(q)'
      BY <2>1, <2>2, <2>4, PodCreated
    <3>2. RSTypeOK'
      BY <1>0, <2>1, <2>3, <3>1 DEF RSTypeOK
    <3>3. CallInv'
      BY <1>0, <2>1, <2>3 DEF CallInv
    <3> QED BY <3>1, <3>2, <3>3 DEF BaseInv
  <2>5. CASE UNCHANGED <<server, external>>
    <3>1. RSTypeOK'
      BY <1>0, <2>1, <2>3, <2>5 DEF RSTypeOK
    <3>2. Held' = Held
      BY <2>1 DEF Held
    <3>3. \A q \in Pod : PodInv(q)'
      BY <1>0, <2>1, <2>5, <3>2, PodsStay
    <3>4. CallInv'
      BY <1>0, <2>1, <2>3 DEF CallInv
    <3> QED BY <3>1, <3>3, <3>4 DEF BaseInv
  <2> QED BY <2>1, <2>4, <2>5
<1>6. CASE BatchEnds
  <2>1. /\ UNCHANGED <<server, cache, notes, external, startup, carried, replicas, uids, manage, want, listed, toDelete>>
        /\ pc = "create" /\ todo = 0
        /\ \/ LowerExpectations(left, 0) /\ pc' = "status" /\ left' = 0 /\ batch' = 0 /\ todo' = 0
           \/ batch' = AtMost(2 * batch, left) /\ todo' = batch' /\ UNCHANGED <<exp, pc, left>>
    BY <1>6 DEF BatchEnds
  <2>2. left \in Nat /\ batch \in Nat /\ toDelete = {}
    BY <1>0, <2>1 DEF RSTypeOK, CallInv
  <2>3. Held' = Held
    BY <2>1 DEF Held
  <2>4. \A q \in Pod : PodInv(q)'
    BY <1>0, <2>1, <2>3, PodsStay
  <2>5. CASE LowerExpectations(left, 0) /\ pc' = "status" /\ left' = 0 /\ batch' = 0 /\ todo' = 0
    <3>1. /\ exp' \in [set : BOOLEAN, add : Int, del : Int, expired : BOOLEAN]
          /\ exp'.set = exp.set /\ exp.set
      BY <1>0, <2>1, <2>2, <2>5, Lowered DEF CallInv
    <3>2. RSTypeOK'
      BY <1>0, <2>1, <2>5, <3>1 DEF RSTypeOK
    <3>3. CallInv'
      BY <1>0, <2>1, <2>2, <2>5, <3>1 DEF CallInv
    <3> QED BY <2>4, <3>2, <3>3 DEF BaseInv
  <2>6. CASE batch' = AtMost(2 * batch, left) /\ todo' = batch' /\ UNCHANGED <<exp, pc, left>>
    <3>1. batch' \in Nat /\ batch' <= left
      BY <2>2, <2>6 DEF AtMost
    <3>2. RSTypeOK'
      BY <1>0, <2>1, <2>6, <3>1 DEF RSTypeOK
    <3>3. CallInv'
      BY <1>0, <2>1, <2>2, <2>6, <3>1 DEF CallInv
    <3> QED BY <2>4, <3>2, <3>3 DEF BaseInv
  <2> QED BY <2>1, <2>5, <2>6
<1>7. ASSUME NEW p \in Pod, DeletePod(p) PROVE BaseInv'
  <2>1. /\ UNCHANGED <<external, cache, notes, startup, carried, replicas, manage, want, listed, left, batch, todo, pc>>
        /\ pc = "delete" /\ p \in toDelete /\ toDelete' = toDelete \ {p}
        /\ DeletionObserved(p) \/ UNCHANGED <<exp, uids>>
        /\ \/ server' = server
           \/ server[p] = "live" /\ \E s \in {"dying", "gone"} : server' = [server EXCEPT ![p] = s]
    BY <1>7 DEF DeletePod
  <2>2. /\ exp' \in [set : BOOLEAN, add : Int, del : Int, expired : BOOLEAN]
        /\ exp'.set = exp.set /\ uids' \in {uids, uids \ {p}} /\ exp.set
    BY <1>0, <2>1, DeletionCounted DEF RSTypeOK, CallInv
  <2>3. Held' \subseteq Held
    BY <2>1, <2>2 DEF Held
  <2>4. /\ server' \in [Pod -> {"none", "live", "dying", "gone"}]
        /\ \A q \in Pod : PodInv(q)'
    <3>1. CASE server' = server
      BY <1>0, <2>1, <2>3, <3>1, PodsStay DEF RSTypeOK
    <3>2. CASE server[p] = "live" /\ \E s \in {"dying", "gone"} : server' = [server EXCEPT ![p] = s]
      <4>1. PICK s \in {"dying", "gone"} : server' = [server EXCEPT ![p] = s]
        BY <3>2
      <4>2. cache[p] # "none"
        BY <1>0, <2>1, <3>2 DEF PodInv, Held
      <4> QED BY <2>1, <2>3, <3>2, <4>1, <4>2, PodDies
    <3> QED BY <2>1, <3>1, <3>2
  <2>5. RSTypeOK'
    BY <1>0, <2>1, <2>2, <2>4 DEF RSTypeOK
  <2>6. CallInv'
    BY <1>0, <2>1, <2>2 DEF CallInv
  <2> QED BY <2>4, <2>5, <2>6 DEF BaseInv
<1>8. CASE DeletionsEnd \/ SyncEnds
  <2>1. /\ UNCHANGED <<server, cache, notes, external, startup, carried, replicas, exp, uids, toDelete, left, batch, todo>>
        /\ \/ /\ pc = "delete" /\ toDelete = {} /\ pc' = "status"
              /\ UNCHANGED <<manage, want, listed>>
           \/ pc = "status" /\ pc' = "idle" /\ want' = 0 /\ listed' = {}
    BY <1>8 DEF DeletionsEnd, SyncEnds
  <2>2. RSTypeOK'
    BY <1>0, <2>1 DEF RSTypeOK
  <2>3. Held' \subseteq Held
    BY <2>1 DEF Held
  <2>4. \A q \in Pod : PodInv(q)'
    BY <1>0, <2>1, <2>3, PodsStay
  <2>5. CallInv'
    BY <1>0, <2>1 DEF CallInv
  <2> QED BY <2>2, <2>4, <2>5 DEF BaseInv
<1> QED BY <1>1, <1>2, <1>3, <1>4, <1>5, <1>6, <1>7, <1>8 DEF Sync

LEMMA BaseStep == ASSUME BaseInv, [RSNext]_rscVars PROVE BaseInv'
<1>1. CASE UNCHANGED rscVars
  <2>1. RSTypeOK' /\ CallInv'
    BY <1>1 DEF BaseInv, RSTypeOK, CallInv, rscVars
  <2>2. \A q \in Pod : PodInv(q)'
    BY <1>1, PodsStay DEF BaseInv, rscVars, Held
  <2> QED BY <2>1, <2>2 DEF BaseInv
<1> QED BY <1>1, OthersBase, SyncBase DEF RSNext

-----------------------------------------------------------------------------
(***************************************************************************)
(* The expectations.                                                       *)
(***************************************************************************)

\* A pod that is shown as live, and that the controller has deleted itself.
Doomed == {p \in Pod : /\ cache[p] = "live" /\ server[p] \in {"dying", "gone"}
                       /\ p \notin external}

\* Creations the controller may take to be told: its own, and those before the
\* start that the first list did not show.
Unseen == Untold \ startup

Expected == IF exp.add > 0 THEN exp.add ELSE 0

\* The expectations are not too low, but for what was carried over ...
SeesInv ==
  ~blind /\ phase # "absent" =>
    /\ left + Cardinality(Unseen) <= Expected + carried
    /\ Cardinality(uids) <= exp.del
    /\ Doomed \subseteq uids

\* ... so that a sync that may act knows all that the controller has done ...
KnowsInv ==
  ~blind =>
    /\ pc \in {"list", "expect"} /\ manage => Cardinality(Unseen) <= carried /\ uids = {}
    /\ pc = "list" /\ manage => Doomed = {}
    /\ pc = "expect" => Cardinality(Live(server) \ listed) <= carried
    /\ pc \in {"expect", "delete"} =>
         \A p \in listed \cup toDelete : server[p] = "live" \/ p \in external
    /\ pc = "create" => Cardinality(Live(server)) + left <= want + carried

\* ... and not too high (NoVainWait).
Comes(p) == p \in toDelete \/ server[p] \in {"dying", "gone"} \/ OtherIn(notes[p])

WaitInv ==
  phase # "absent" =>
    /\ ~missed => exp.add <= left + Cardinality(Untold)
    /\ exp.del <= Cardinality(uids)
    /\ \A p \in uids : Comes(p)

TrustInv == SeesInv /\ KnowsInv /\ WaitInv

\* Primed, too, since it is used of the state after a step.
LEMMA UntoldIs ==
  /\ \A p \in Pod : p \in Untold <=> (server[p] # "none" /\ cache[p] = "none") \/ AddIn(notes[p])
  /\ \A p \in Pod : p \in Untold'
                      <=> (server'[p] # "none" /\ cache'[p] = "none") \/ AddIn(notes'[p])
  /\ Untold \in SUBSET Pod /\ IsFiniteSet(Untold) /\ Cardinality(Untold) \in Nat
  /\ Untold' \in SUBSET Pod /\ IsFiniteSet(Untold') /\ Cardinality(Untold') \in Nat
<1>1. Untold \in SUBSET Pod /\ Untold' \in SUBSET Pod
  BY DEF Untold
<1>2. \A p \in Pod : p \in Untold <=> (server[p] # "none" /\ cache[p] = "none") \/ AddIn(notes[p])
  BY DEF Untold, AddIn
<1>3. \A p \in Pod : p \in Untold'
                      <=> (server'[p] # "none" /\ cache'[p] = "none") \/ AddIn(notes'[p])
  BY DEF Untold, AddIn
<1>4. /\ IsFiniteSet(Untold) /\ Cardinality(Untold) \in Nat
      /\ IsFiniteSet(Untold') /\ Cardinality(Untold') \in Nat
  BY <1>1, PodsFinite
<1> QED BY <1>1, <1>2, <1>3, <1>4

LEMMA UnseenIs ==
  /\ Unseen \in SUBSET Pod /\ IsFiniteSet(Unseen) /\ Cardinality(Unseen) \in Nat
  /\ Unseen' \in SUBSET Pod /\ IsFiniteSet(Unseen') /\ Cardinality(Unseen') \in Nat
<1>1. Unseen \in SUBSET Pod /\ Unseen' \in SUBSET Pod
  BY UntoldIs DEF Unseen
<1> QED BY <1>1, PodsFinite

LEMMA UntoldSame ==
  ASSUME UNCHANGED <<server, cache, notes>>
  PROVE  Untold' = Untold
BY DEF Untold

\* What is untold stays so when a deletion begins or ends ...
LEMMA UntoldDies ==
  ASSUME RSTypeOK, NEW p \in Pod, NEW s \in {"dying", "gone"}, server[p] # "none",
         server' = [server EXCEPT ![p] = s], UNCHANGED <<cache, notes>>
  PROVE  Untold' = Untold
<1>1. \A q \in Pod : server'[q] # "none" <=> server[q] # "none"
  BY DEF RSTypeOK
<1>2. \A q \in Pod : q \in Untold' <=> q \in Untold
  BY <1>1, UntoldIs
<1> QED BY <1>2, UntoldIs

\* ... and when the cache shows a pod, unless a list has skipped its creation.
LEMMA UntoldShown ==
  ASSUME BaseInv, NEW p \in Pod, Watch(p) \/ Relist(p)
  PROVE  Untold' \subseteq Untold /\ (Watch(p) => Untold' = Untold)
<1>0. /\ server \in [Pod -> {"none", "live", "dying", "gone"}]
      /\ cache \in [Pod -> {"none", "live", "dying"}]
      /\ notes \in [Pod -> Seq(Note)] /\ notes[p] \in Seq(Note)
  BY DEF BaseInv, RSTypeOK
<1>1. PICK c \in {"none", "live", "dying"}, x \in {<<>>, <<"add">>, <<"update">>, <<"delete">>} :
        /\ Shows(p, c, x)
        /\ \/ cache[p] = "none" /\ server[p] # "none" /\ c = "live" /\ x = <<"add">>
           \/ cache[p] = "live" /\ server[p] # "none" /\ c = "dying" /\ x = <<"update">>
           \/ cache[p] # "none" /\ c = "none" /\ x = <<"delete">>
           \/ Relist(p) /\ ~Watch(p) /\ c = "dying" /\ x = <<"update">>
           \/ Relist(p) /\ ~Watch(p) /\ c = "none" /\ x = <<>>
  <2>1. CASE Watch(p)
    BY <2>1 DEF Watch
  <2>2. CASE Relist(p) /\ ~Watch(p)
    BY <2>2 DEF Relist
  <2> QED BY <2>1, <2>2
<1>2. /\ cache' = [cache EXCEPT ![p] = c] /\ notes' = [notes EXCEPT ![p] = notes[p] \o x]
      /\ server' = IF c = "none" THEN [server EXCEPT ![p] = "none"] ELSE server
  BY <1>1 DEF Shows
<1>3. /\ cache'[p] = c /\ notes'[p] = notes[p] \o x
      /\ server'[p] = IF c = "none" THEN "none" ELSE server[p]
      /\ \A q \in Pod \ {p} : /\ cache'[q] = cache[q] /\ notes'[q] = notes[q]
                              /\ server'[q] = server[q]
  BY <1>0, <1>2
<1>4. \A q \in Pod \ {p} : q \in Untold' <=> q \in Untold
  BY <1>3, UntoldIs
<1>5. AddIn(notes'[p]) <=> AddIn(notes[p]) \/ x = <<"add">>
  <2>1. CASE x = <<>>
    <3>1. notes[p] \o x = notes[p]
      BY <1>0, <2>1
    <3> QED BY <1>3, <2>1, <3>1
  <2>2. ASSUME NEW y \in Note, x = <<y>> PROVE AddIn(notes'[p]) <=> AddIn(notes[p]) \/ x = <<"add">>
    <3>1. x = <<"add">> <=> y = "add"
      BY <2>2
    <3> QED BY <1>0, <1>3, <2>2, <3>1, NoteAppended
  <2> QED BY <1>1, <2>1, <2>2 DEF Note
<1>6. ASSUME p \in Untold' PROVE p \in Untold
  <2>1. (server'[p] # "none" /\ cache'[p] = "none") \/ AddIn(notes'[p])
    BY <1>6, UntoldIs
  <2>2. ~(server'[p] # "none" /\ cache'[p] = "none")
    BY <1>3
  <2>3. (server[p] # "none" /\ cache[p] = "none") \/ AddIn(notes[p])
    BY <1>1, <1>5, <2>1, <2>2
  <2> QED BY <2>3, UntoldIs
<1>7. ASSUME Watch(p), p \in Untold PROVE p \in Untold'
  <2>1. (server[p] # "none" /\ cache[p] = "none") \/ AddIn(notes[p])
    BY <1>7, UntoldIs
  <2>2. AddIn(notes'[p])
    BY <1>1, <1>5, <1>7, <2>1
  <2> QED BY <2>2, UntoldIs
<1> QED BY <1>4, <1>6, <1>7, UntoldIs

\* A handler is told of a creation.
LEMMA UntoldHandled ==
  ASSUME BaseInv, NEW p \in Pod, HandlePod(p)
  PROVE  Untold' = Untold \ {p} /\ (p \in Untold <=> AddIn(notes[p]))
<1>1. /\ notes \in [Pod -> Seq(Note)] /\ PodInv(p)
      /\ notes[p] # <<>> /\ notes' = [notes EXCEPT ![p] = Tail(notes[p])]
      /\ UNCHANGED <<server, cache>>
  BY DEF BaseInv, RSTypeOK, HandlePod, serverVars
<1>2. notes'[p] = Tail(notes[p]) /\ \A q \in Pod \ {p} : notes'[q] = notes[q]
  BY <1>1
<1>3. ~(server[p] # "none" /\ cache[p] = "none") /\ AddFirst(notes[p])
  BY <1>1 DEF PodInv, Shape
<1>4. ~AddIn(notes'[p])
  BY <1>1, <1>2, <1>3, NoteHandled
<1> QED BY <1>1, <1>2, <1>3, <1>4, UntoldIs

\* Cardinalities of sets of pods.
LEMMA Counting ==
  ASSUME NEW S \in SUBSET Pod, NEW T \in SUBSET Pod, NEW p \in Pod
  PROVE  /\ Cardinality(S) \in Nat /\ Cardinality(T) \in Nat
         /\ Cardinality(S) = 0 <=> S = {}
         /\ S \subseteq T => Cardinality(S) <= Cardinality(T)
         /\ T = S \cup {p} /\ p \notin S => Cardinality(T) = Cardinality(S) + 1
         /\ T = S \ {p} /\ p \in S => Cardinality(T) = Cardinality(S) - 1
<1>1. /\ IsFiniteSet(S) /\ IsFiniteSet(T)
      /\ Cardinality(S) \in Nat /\ Cardinality(T) \in Nat
  BY PodsFinite
<1>2. Cardinality(S) = 0 <=> S = {}
  BY <1>1, FS_EmptySet
<1>3. S \subseteq T => Cardinality(S) <= Cardinality(T)
  BY <1>1, FS_Subset
<1>4. T = S \cup {p} /\ p \notin S => Cardinality(T) = Cardinality(S) + 1
  BY <1>1, FS_AddElement
<1>5. T = S \ {p} /\ p \in S => Cardinality(T) = Cardinality(S) - 1
  BY <1>1, FS_RemoveElement
<1> QED BY <1>1, <1>2, <1>3, <1>4, <1>5

LEMMA PodsBeyond ==
  ASSUME NEW S \in SUBSET Pod, NEW T \in SUBSET Pod
  PROVE  /\ Cardinality(S) \in Nat
         /\ Cardinality(S) <= Cardinality(T) + Cardinality(S \ T)
<1> DEFINE D == S \ T
<1>1. /\ IsFiniteSet(S) /\ IsFiniteSet(T) /\ IsFiniteSet(D) /\ IsFiniteSet(T \cup D)
      /\ IsFiniteSet(T \cap D)
  <2>1. D \in SUBSET Pod /\ T \cup D \in SUBSET Pod /\ T \cap D \in SUBSET Pod
    OBVIOUS
  <2> QED BY <2>1, PodsFinite
<1>2. S \subseteq T \cup D
  OBVIOUS
<1>3. PICK s, t, e, b, i \in Nat : /\ s = Cardinality(S) /\ t = Cardinality(T)
                                 /\ e = Cardinality(D) /\ b = Cardinality(T \cup D)
                                 /\ i = Cardinality(T \cap D)
  BY <1>1, FS_CardinalityType
<1>4. b = t + e - i
  BY <1>1, <1>3, FS_Union
<1>5. s <= b
  BY <1>1, <1>2, <1>3, FS_Subset
<1>6. s <= t + e
  BY <1>3, <1>4, <1>5
<1> QED BY <1>3, <1>6

LEMMA TrustInit == RSInit => TrustInv
<1> SUFFICES ASSUME RSInit PROVE TrustInv
  OBVIOUS
<1>1. /\ carried = Cardinality(Unseen) /\ carried \in Nat
      /\ Cardinality(Untold) \in Nat
  BY UnseenIs, UntoldIs DEF RSInit, Unseen
<1>2. Cardinality({}) = 0
  BY FS_EmptySet
<1>3. /\ uids = {} /\ left = 0 /\ exp.add = 0 /\ exp.del = 0 /\ pc = "idle"
      /\ Doomed = {}
  BY DEF RSInit, NoExp, Doomed
<1>4. SeesInv
  BY <1>1, <1>2, <1>3 DEF SeesInv, Expected
<1>5. KnowsInv /\ WaitInv
  BY <1>1, <1>2, <1>3 DEF KnowsInv, WaitInv
<1> QED BY <1>4, <1>5 DEF TrustInv

\* The steps of others: deletions are theirs, and come; nothing is created.
LEMMA TrustStays ==
  ASSUME BaseInv, TrustInv,
         exp'.add = exp.add, exp'.del = exp.del,
         UNCHANGED <<startup, carried, uids, left, want, listed, toDelete, pc, manage, blind>>,
         phase' # "absent" => phase # "absent",
         Untold' \subseteq Untold, ~missed' => ~missed /\ Untold' = Untold,
         Doomed' \subseteq Doomed,
         Live(server)' \subseteq Live(server),
         \A p \in Pod : server[p] = "live" => server'[p] = "live" \/ p \in external',
         external \subseteq external',
         \A p \in uids : Comes(p) => Comes(p)'
  PROVE  TrustInv'
<1>1. /\ left \in Nat /\ want \in Nat /\ exp.add \in Int /\ exp.del \in Int
      /\ uids \subseteq Pod /\ listed \cup toDelete \subseteq Pod
  BY DEF BaseInv, RSTypeOK
<1>2. Cardinality(Untold') <= Cardinality(Untold)
      /\ Cardinality(Untold) \in Nat /\ Cardinality(Untold') \in Nat
  BY UntoldIs, FS_Subset
<1>7. PICK u, v, k \in Nat : /\ u = Cardinality(Unseen) /\ v = Cardinality(Unseen') /\ v <= u
                           /\ k = carried
  <2>1. Unseen' \subseteq Unseen
    BY DEF Unseen
  <2>2. carried \in Nat
    BY DEF BaseInv, RSTypeOK
  <2> QED BY <2>1, <2>2, UnseenIs, FS_Subset
<1>3. SeesInv'
  <2> SUFFICES ASSUME ~blind, phase # "absent"
               PROVE  left + v <= Expected + k /\ Cardinality(uids) <= exp.del /\ Doomed' \subseteq uids
    BY <1>7 DEF SeesInv, Expected
  <2>1. left + u <= Expected + k /\ Cardinality(uids) <= exp.del /\ Doomed \subseteq uids
    BY <1>7 DEF TrustInv, SeesInv
  <2>2. PICK e \in Int : e = Expected
    BY <1>1 DEF Expected
  <2> QED BY <1>1, <1>7, <2>1, <2>2
<1>4. WaitInv'
  BY <1>1, <1>2 DEF TrustInv, WaitInv
<1>5. PICK l, m \in Nat : l = Cardinality(Live(server)) /\ m = Cardinality(Live(server)') /\ m <= l
  <2>1. Live(server) \in SUBSET Pod /\ Live(server)' \in SUBSET Pod
    BY DEF Live
  <2> QED BY <2>1, PodsFinite, FS_Subset
<1>8. PICK x, y \in Nat : /\ x = Cardinality(Live(server) \ listed)
                        /\ y = Cardinality(Live(server)' \ listed) /\ y <= x
  <2>1. /\ Live(server) \ listed \in SUBSET Pod /\ Live(server)' \ listed \in SUBSET Pod
        /\ Live(server)' \ listed \subseteq Live(server) \ listed
    BY DEF Live
  <2> QED BY <2>1, PodsFinite, FS_Subset
<1>6. KnowsInv'
  <2> SUFFICES ASSUME ~blind
               PROVE  /\ pc \in {"list", "expect"} /\ manage => v <= k /\ uids = {}
                      /\ pc = "list" /\ manage => Doomed' = {}
                      /\ pc = "expect" => y <= k
                      /\ pc \in {"expect", "delete"} =>
                           \A p \in listed \cup toDelete : server'[p] = "live" \/ p \in external'
                      /\ pc = "create" => m + left <= want + k
    BY <1>5, <1>7, <1>8 DEF KnowsInv
  <2>1. pc \in {"list", "expect"} /\ manage => u <= k /\ uids = {}
    BY <1>7 DEF TrustInv, KnowsInv
  <2>2. pc = "list" /\ manage => Doomed' = {}
    BY DEF TrustInv, KnowsInv
  <2>3. pc = "expect" => x <= k
    BY <1>7, <1>8 DEF TrustInv, KnowsInv
  <2>4. pc \in {"expect", "delete"} =>
          \A p \in listed \cup toDelete : server'[p] = "live" \/ p \in external'
    BY <1>1 DEF TrustInv, KnowsInv
  <2>5. pc = "create" => l + left <= want + k
    BY <1>5, <1>7 DEF TrustInv, KnowsInv
  <2> QED BY <1>1, <1>5, <1>7, <1>8, <2>1, <2>2, <2>3, <2>4, <2>5
<1> QED BY <1>3, <1>4, <1>6 DEF TrustInv

LEMMA OthersTrust ==
  ASSUME BaseInv, TrustInv,
         \/ Expire \/ UpdateRS \/ DeleteRS \/ UNCHANGED rscVars
         \/ \E p \in Pod : DeletedByOthers(p) \/ Removed(p) \/ Watch(p) \/ Relist(p)
  PROVE  TrustInv'
<1> USE DEF serverVars, startVars, rsVars, expVars, callVars, syncVars
<1>0. /\ RSTypeOK /\ \A q \in Pod : PodInv(q)
      /\ server \in [Pod -> {"none", "live", "dying", "gone"}]
      /\ cache \in [Pod -> {"none", "live", "dying"}]
      /\ notes \in [Pod -> Seq(Note)] /\ uids \subseteq Pod
  BY DEF BaseInv, RSTypeOK
<1>1. CASE Expire \/ UpdateRS \/ DeleteRS \/ UNCHANGED rscVars
  <2>1. /\ UNCHANGED <<server, cache, notes, external, startup, carried, uids, left, want,
                       listed, toDelete, pc, manage, blind, missed>>
        /\ phase' # "absent" => phase # "absent"
        /\ exp' = exp \/ exp' = [exp EXCEPT !.expired = TRUE]
    BY <1>1 DEF Expire, UpdateRS, DeleteRS, rscVars
  <2>2. exp'.add = exp.add /\ exp'.del = exp.del
    BY <1>0, <2>1 DEF RSTypeOK
  <2>3. Untold' = Untold
    BY <2>1, UntoldSame
  <2>4. Doomed' = Doomed /\ Live(server)' = Live(server)
    BY <2>1 DEF Doomed, Live
  <2>5. \A p \in uids : Comes(p) => Comes(p)'
    BY <2>1 DEF Comes
  <2> QED BY <2>1, <2>2, <2>3, <2>4, <2>5, TrustStays
<1>2. ASSUME NEW p \in Pod, DeletedByOthers(p) \/ Removed(p) PROVE TrustInv'
  <2>1. PICK s \in {"dying", "gone"} : server' = [server EXCEPT ![p] = s]
    BY <1>2 DEF DeletedByOthers, Removed
  <2>2. /\ server[p] \in {"live", "dying"} /\ external \subseteq external'
        /\ server[p] = "live" => p \in external'
        /\ UNCHANGED <<cache, notes, startup, carried, exp, uids, left, want, listed, toDelete,
                       pc, manage, blind, missed, phase>>
    BY <1>2 DEF DeletedByOthers, Removed
  <2>3. server'[p] = s /\ \A q \in Pod \ {p} : server'[q] = server[q]
    BY <1>0, <2>1
  <2>4. Untold' = Untold
    BY <1>0, <2>1, <2>2, UntoldDies
  <2>5. Doomed' \subseteq Doomed /\ Live(server)' \subseteq Live(server)
    BY <2>2, <2>3 DEF Doomed, Live
  <2>6. \A q \in Pod : server[q] = "live" => server'[q] = "live" \/ q \in external'
    BY <2>2, <2>3
  <2>7. \A q \in uids : Comes(q) => Comes(q)'
    BY <1>0, <2>2, <2>3 DEF Comes
  <2> QED BY <2>2, <2>4, <2>5, <2>6, <2>7, TrustStays
<1>3. ASSUME NEW p \in Pod, Watch(p) \/ Relist(p) PROVE TrustInv'
  <2>1. /\ UNCHANGED <<external, startup, carried, exp, uids, left, want, listed, toDelete, pc,
                       manage, blind, phase>>
        /\ (Watch(p) /\ missed' = missed) \/ missed' = TRUE
    BY <1>3 DEF Watch, Relist, Shows
  <2>2. Untold' \subseteq Untold /\ (Watch(p) => Untold' = Untold)
    BY <1>3, UntoldShown
  <2>3. PICK c \in {"none", "live", "dying"}, x \in {<<>>, <<"add">>, <<"update">>, <<"delete">>} :
          /\ Shows(p, c, x)
          /\ \/ c = "none" /\ server[p] = "gone"
             \/ c = "dying"
             \/ c = "live" /\ cache[p] = "none"
          /\ c = "none" /\ x # <<"delete">> => cache[p] = "none"
    BY <1>3 DEF Watch, Relist
  <2>4. /\ cache' = [cache EXCEPT ![p] = c] /\ notes' = [notes EXCEPT ![p] = notes[p] \o x]
        /\ server' = IF c = "none" THEN [server EXCEPT ![p] = "none"] ELSE server
    BY <2>3 DEF Shows
  <2>5. /\ cache'[p] = c /\ notes'[p] = notes[p] \o x
        /\ server'[p] = IF c = "none" THEN "none" ELSE server[p]
        /\ \A q \in Pod \ {p} : /\ cache'[q] = cache[q] /\ notes'[q] = notes[q]
                                /\ server'[q] = server[q]
    BY <1>0, <2>4
  <2>6. Doomed' \subseteq Doomed
    BY <1>0, <2>1, <2>3, <2>5 DEF Doomed, PodInv
  <2>7. Live(server)' \subseteq Live(server)
    BY <2>5 DEF Live
  <2>8. \A q \in Pod : server[q] = "live" => server'[q] = "live" \/ q \in external'
    BY <2>3, <2>5
  <2>9. ASSUME NEW q \in uids, Comes(q) PROVE Comes(q)'
    <3>1. CASE q # p
      BY <1>0, <2>1, <2>5, <2>9, <3>1 DEF Comes
    <3>2. CASE q = p
      <4>1. OtherIn(notes[p]) => OtherIn(notes'[p])
        <5>1. CASE x = <<>>
          <6>1. notes[p] \o x = notes[p]
            BY <1>0, <5>1
          <6> QED BY <2>5, <6>1
        <5>2. ASSUME NEW y \in Note, x = <<y>> PROVE OtherIn(notes[p]) => OtherIn(notes'[p])
          BY <1>0, <2>5, <5>2, NoteAppended
        <5> QED BY <5>1, <5>2 DEF Note
      <4>2. CASE c # "none"
        BY <2>1, <2>5, <2>9, <3>2, <4>1, <4>2 DEF Comes
      <4>3. CASE c = "none"
        <5>1. cache[p] # "none"
          <6>1. p \in Held /\ server[p] # "none" /\ PodInv(p)
            BY <1>0, <2>3, <2>9, <3>2, <4>3 DEF Held
          <6> QED BY <6>1 DEF PodInv
        <5>2. x = <<"delete">>
          BY <2>3, <4>3, <5>1
        <5>3. OtherIn(notes'[p])
          BY <1>0, <2>5, <5>2, NoteAppended DEF Note
        <5> QED BY <3>2, <5>3 DEF Comes
      <4> QED BY <4>2, <4>3
    <3> QED BY <3>1, <3>2
  <2>10. ~missed' => ~missed /\ Untold' = Untold
    BY <2>1, <2>2
  <2> QED BY <2>1, <2>2, <2>6, <2>7, <2>8, <2>9, <2>10, TrustStays
<1> QED BY <1>1, <1>2, <1>3

\* A handler is told: what is expected and what is to come fall together.
LEMMA HandleTrust ==
  ASSUME BaseInv, TrustInv, NEW p \in Pod, HandlePod(p)
  PROVE  TrustInv'
<1>0. /\ left \in Nat /\ want \in Nat /\ exp.add \in Int /\ exp.del \in Int
      /\ uids \in SUBSET Pod /\ listed \cup toDelete \subseteq Pod /\ CallInv /\ PodInv(p)
      /\ carried \in Nat
      /\ notes \in [Pod -> Seq(Note)] /\ notes[p] \in Seq(Note)
  BY DEF BaseInv, RSTypeOK
<1>1. /\ UNCHANGED <<server, cache, external, left, want, listed, toDelete, pc, manage, blind,
                     missed, phase>>
      /\ notes[p] # <<>> /\ notes' = [notes EXCEPT ![p] = Tail(notes[p])]
  BY DEF HandlePod, serverVars, rsVars, syncVars, callVars
<1>12. /\ startup' = startup \ {p}
       /\ p \in startup => AddIn(notes[p])
       /\ carried' = IF p \in startup /\ phase # "absent" /\ exp.add > 0
                     THEN carried + 1 ELSE carried
  BY PodHandled
<1>2. /\ exp'.set = exp.set
      /\ uids' \in {uids, uids \ {p}}
      /\ IF phase # "absent" /\ AddIn(notes[p])
         THEN /\ exp'.add = IF exp.set THEN exp.add - 1 ELSE exp.add
              /\ exp'.del = exp.del /\ uids' = uids
         ELSE exp'.add = exp.add
      /\ IF phase # "absent" /\ ~AddIn(notes[p])
         THEN /\ exp'.del = IF exp.set /\ p \in uids THEN exp.del - 1 ELSE exp.del
              /\ uids' = uids \ {p} /\ cache[p] # "live"
         ELSE exp'.del = exp.del /\ uids' = uids
  BY PodHandled
<1>3. Untold' = Untold \ {p} /\ (p \in Untold <=> AddIn(notes[p]))
  BY UntoldHandled
<1>4. Doomed' = Doomed /\ Live(server)' = Live(server)
  BY <1>1 DEF Doomed, Live
<1>5. PICK u, v \in Nat : u = Cardinality(Untold) /\ v = Cardinality(Untold')
  BY UntoldIs
<1>6. /\ p \in Untold => v = u - 1 /\ u >= 1
      /\ p \notin Untold => v = u
  <2>1. p \in Untold => v = u - 1
    BY <1>3, <1>5, UntoldIs, Counting
  <2>2. p \notin Untold => Untold' = Untold
    BY <1>3
  <2> QED BY <1>5, <2>1, <2>2
<1>7. PICK x, y \in Nat : x = Cardinality(uids) /\ y = Cardinality(uids')
  <2>1. uids' \in SUBSET Pod
    BY <1>0, <1>2
  <2> QED BY <1>0, <2>1, PodsFinite
<1>8. /\ uids' = uids => y = x
      /\ uids' = uids \ {p} => IF p \in uids THEN y = x - 1 ELSE y = x
  <2>1. uids' \in SUBSET Pod
    BY <1>0, <1>2
  <2>2. uids' = uids \ {p} /\ p \in uids => y = x - 1
    BY <1>0, <1>7, <2>1, Counting
  <2>3. p \notin uids => uids \ {p} = uids
    OBVIOUS
  <2> QED BY <1>7, <2>2, <2>3
<1>13. PICK c, d \in Nat : /\ c = Cardinality(Unseen) /\ d = Cardinality(Unseen')
                         /\ IF p \in Untold /\ p \notin startup THEN d = c - 1 ELSE d = c
  <2>1. CASE p \in Untold /\ p \notin startup
    <3>1. Unseen' = Unseen \ {p} /\ p \in Unseen
      BY <1>3, <1>12, <2>1 DEF Unseen
    <3>2. Cardinality(Unseen') = Cardinality(Unseen) - 1
      BY <3>1, UnseenIs, Counting
    <3> QED BY <2>1, <3>2, UnseenIs
  <2>2. CASE ~(p \in Untold /\ p \notin startup)
    <3>1. Unseen' = Unseen
      BY <1>3, <1>12, <2>2 DEF Unseen
    <3> QED BY <2>2, <3>1, UnseenIs
  <2> QED BY <2>1, <2>2
<1>9. SeesInv'
  <2> SUFFICES ASSUME ~blind, phase # "absent"
               PROVE  left + d <= Expected' + carried' /\ y <= exp'.del /\ Doomed \subseteq uids'
    BY <1>1, <1>4, <1>7, <1>13 DEF SeesInv
  <2>1. left + c <= Expected + carried /\ x <= exp.del /\ Doomed \subseteq uids
    BY <1>7, <1>13 DEF TrustInv, SeesInv
  <2>2. left + d <= Expected' + carried'
    <3>1. exp.add > 0 => exp.set
      BY <1>0 DEF CallInv
    <3>2. CASE p \in startup
      <4>1. AddIn(notes[p]) /\ d = c
        BY <1>12, <1>13, <3>2
      <4>2. CASE exp.add > 0
        <5>1. exp'.add = exp.add - 1 /\ carried' = carried + 1
          BY <1>2, <1>12, <3>1, <3>2, <4>1, <4>2
        <5>2. Expected = exp.add /\ Expected' = exp.add - 1
          BY <1>0, <4>2, <5>1 DEF Expected
        <5> QED BY <1>0, <2>1, <4>1, <5>1, <5>2
      <4>3. CASE ~(exp.add > 0)
        <5>1. exp'.add \in Int /\ exp'.add <= exp.add /\ carried' = carried
          BY <1>0, <1>2, <1>12, <4>1, <4>3
        <5>2. Expected = 0 /\ Expected' = 0
          BY <1>0, <4>3, <5>1 DEF Expected
        <5> QED BY <2>1, <4>1, <5>1, <5>2
      <4> QED BY <4>2, <4>3
    <3>3. CASE p \notin startup /\ p \in Untold
      <4>1. AddIn(notes[p]) /\ d = c - 1 /\ carried' = carried
        BY <1>3, <1>12, <1>13, <3>3
      <4>2. exp'.add = IF exp.set THEN exp.add - 1 ELSE exp.add
        BY <1>2, <4>1
      <4>3. Expected \in Int /\ Expected' \in Int /\ Expected' >= Expected - 1
        BY <1>0, <4>2 DEF Expected
      <4>4. PICK a, k \in Nat, e, f \in Int : /\ a = left /\ k = carried
                                             /\ e = Expected /\ f = Expected' /\ f >= e - 1
        BY <1>0, <4>3
      <4>5. a + c <= e + k
        BY <2>1, <4>4
      <4>6. a + (c - 1) <= f + k
        BY <1>13, <4>4, <4>5
      <4> QED BY <4>1, <4>4, <4>6
    <3>4. CASE p \notin Untold
      <4>1. d = c /\ exp'.add = exp.add /\ carried' = carried
        BY <1>2, <1>3, <1>12, <1>13, <3>4
      <4> QED BY <2>1, <4>1 DEF Expected
    <3> QED BY <3>2, <3>3, <3>4
  <2>3. y <= exp'.del
    <3>1. CASE uids' = uids \ {p} /\ p \in uids /\ ~AddIn(notes[p])
      <4>1. exp.set
        BY <1>0, <1>8, <2>1, <3>1 DEF CallInv
      <4> QED BY <1>0, <1>2, <1>8, <2>1, <3>1, <4>1
    <3>2. CASE ~(uids' = uids \ {p} /\ p \in uids /\ ~AddIn(notes[p]))
      <4>1. y = x /\ exp'.del = exp.del
        BY <1>2, <1>8, <3>2
      <4> QED BY <2>1, <4>1
    <3> QED BY <3>1, <3>2
  <2>4. Doomed \subseteq uids'
    BY <1>2, <2>1 DEF Doomed
  <2> QED BY <2>2, <2>3, <2>4
<1>10. KnowsInv'
  <2>1. uids = {} => uids' = {}
    BY <1>2
  <2>2. carried' \in Nat /\ carried <= carried' /\ d <= c
    BY <1>0, <1>12, <1>13
  <2>3. ASSUME ~blind, pc \in {"list", "expect"}, manage PROVE d <= carried' /\ uids' = {}
    <3>1. c <= carried /\ uids = {}
      BY <1>13, <2>3 DEF TrustInv, KnowsInv
    <3> QED BY <1>0, <1>13, <2>1, <2>2, <3>1
  <2>4. ASSUME ~blind, pc = "expect" PROVE Cardinality(Live(server) \ listed) <= carried'
    <3>1. Cardinality(Live(server) \ listed) <= carried
      BY <2>4 DEF TrustInv, KnowsInv
    <3>2. Live(server) \ listed \in SUBSET Pod
      BY DEF Live
    <3>3. PICK l \in Nat : l = Cardinality(Live(server) \ listed)
      BY <3>2, PodsFinite
    <3> QED BY <1>0, <2>2, <3>1, <3>3
  <2>5. ASSUME ~blind, pc = "create" PROVE Cardinality(Live(server)) + left <= want + carried'
    <3>1. Cardinality(Live(server)) + left <= want + carried
      BY <2>5 DEF TrustInv, KnowsInv
    <3>2. Live(server) \in SUBSET Pod
      BY DEF Live
    <3>3. PICK l, a, w, k, m \in Nat : /\ l = Cardinality(Live(server)) /\ a = left /\ w = want
                                      /\ k = carried /\ m = carried' /\ k <= m
      BY <1>0, <2>2, <3>2, PodsFinite
    <3>4. l + a <= w + k
      BY <3>1, <3>3
    <3>5. l + a <= w + m
      BY <3>3, <3>4
    <3> QED BY <3>3, <3>5
  <2>6. ~blind => /\ pc = "list" /\ manage => Doomed = {}
                  /\ pc \in {"expect", "delete"} =>
                       \A q \in listed \cup toDelete : server[q] = "live" \/ q \in external
    BY DEF TrustInv, KnowsInv
  <2> QED BY <1>1, <1>4, <1>13, <2>3, <2>4, <2>5, <2>6 DEF KnowsInv
<1>11. WaitInv'
  <2> SUFFICES ASSUME phase # "absent"
               PROVE  /\ ~missed => exp'.add <= left + v
                      /\ exp'.del <= y
                      /\ \A q \in uids' : Comes(q)'
    BY <1>1, <1>5, <1>7 DEF WaitInv
  <2>1. /\ ~missed => exp.add <= left + u
        /\ exp.del <= x
        /\ \A q \in uids : Comes(q)
    BY <1>5, <1>7 DEF TrustInv, WaitInv
  <2>2. ASSUME ~missed PROVE exp'.add <= left + v
    <3>1. CASE p \in Untold /\ exp.set
      BY <1>0, <1>2, <1>3, <1>6, <2>1, <2>2, <3>1
    <3>2. CASE p \in Untold /\ ~exp.set
      <4>1. exp'.add = 0
        BY <1>0, <1>2, <1>3, <3>2 DEF CallInv
      <4> QED BY <1>0, <4>1
    <3>3. CASE p \notin Untold
      BY <1>2, <1>3, <1>6, <2>1, <2>2, <3>3
    <3> QED BY <3>1, <3>2, <3>3
  <2>3. exp'.del <= y
    <3>1. CASE uids' = uids \ {p} /\ p \in uids /\ ~AddIn(notes[p])
      <4>1. CASE exp.set
        BY <1>0, <1>2, <1>8, <2>1, <3>1, <4>1
      <4>2. CASE ~exp.set
        <5>1. exp'.del = 0
          BY <1>0, <1>2, <3>1, <4>2 DEF CallInv
        <5> QED BY <5>1
      <4> QED BY <4>1, <4>2
    <3>2. CASE ~(uids' = uids \ {p} /\ p \in uids /\ ~AddIn(notes[p]))
      <4>1. y = x /\ exp'.del = exp.del
        BY <1>2, <1>8, <3>2
      <4> QED BY <2>1, <4>1
    <3> QED BY <3>1, <3>2
  <2>4. ASSUME NEW q \in uids' PROVE Comes(q)'
    <3>1. q \in uids /\ q \in Pod /\ Comes(q)
      BY <1>0, <1>2, <2>1, <2>4
    <3>2. CASE q # p
      <4>1. notes'[q] = notes[q]
        BY <1>0, <1>1, <3>1, <3>2
      <4> QED BY <1>1, <3>1, <4>1 DEF Comes
    <3>3. CASE q = p
      <4>1. AddIn(notes[p])
        BY <1>2, <2>4, <3>3
      <4>2. notes'[p] = Tail(notes[p])
        BY <1>0, <1>1
      <4>3. AddFirst(notes[p])
        BY <1>0 DEF PodInv, Shape
      <4>4. OtherIn(notes[p]) => OtherIn(notes'[p])
        BY <1>0, <1>1, <4>1, <4>2, <4>3, NoteHandled
      <4> QED BY <1>1, <3>1, <3>3, <4>4 DEF Comes
    <3> QED BY <3>2, <3>3
  <2> QED BY <2>2, <2>3, <2>4
<1> QED BY <1>9, <1>10, <1>11 DEF TrustInv

\* A sync begins, goes on or ends.  One that may act finds the expectations
\* fulfilled, and all that was done is in the cache.
LEMMA SyncTrust ==
  ASSUME BaseInv, TrustInv, SyncBegins \/ ListPods \/ DeletionsEnd \/ SyncEnds
  PROVE  TrustInv'
<1> USE DEF serverVars, startVars, rsVars, expVars, callVars, syncVars
<1>0. /\ left \in Nat /\ want \in Nat /\ exp.add \in Int /\ exp.del \in Int
      /\ uids \in SUBSET Pod /\ listed \cup toDelete \subseteq Pod /\ CallInv
      /\ carried \in Nat
      /\ cache \in [Pod -> {"none", "live", "dying"}]
      /\ \A q \in Pod : PodInv(q)
  BY DEF BaseInv, RSTypeOK
<1>1. UNCHANGED <<server, cache, notes, external, startup, phase, toDelete, left, missed>>
  BY DEF SyncBegins, ListPods, DeletionsEnd, SyncEnds
<1>2. Untold' = Untold /\ Unseen' = Unseen
  BY <1>1, UntoldSame DEF Unseen
<1>3. Doomed' = Doomed /\ Live(server)' = Live(server)
  BY <1>1 DEF Doomed, Live
<1>4. \A q \in Pod : Comes(q)' <=> Comes(q)
  BY <1>1 DEF Comes
<1>5. ASSUME UNCHANGED <<exp, uids>>, ~blind' => ~blind,
             carried' = carried \/ (carried' = 0 /\ left = 0 /\ Unseen = {})
      PROVE  SeesInv' /\ WaitInv'
  <2>1. SeesInv'
    <3>1. CASE carried' = carried
      BY <1>1, <1>2, <1>3, <1>5, <3>1 DEF TrustInv, SeesInv, Expected
    <3>2. CASE carried' = 0 /\ left = 0 /\ Unseen = {}
      <4>1. left + Cardinality(Unseen) <= Expected + 0
        <5>1. Cardinality(Unseen) = 0
          BY <3>2, FS_EmptySet
        <5>2. Expected \in Nat
          BY <1>0 DEF Expected
        <5> QED BY <3>2, <5>1, <5>2
      <4>2. Expected' = Expected
        BY <1>5 DEF Expected
      <4> QED BY <1>1, <1>2, <1>3, <1>5, <3>2, <4>1, <4>2 DEF TrustInv, SeesInv
    <3> QED BY <1>5, <3>1, <3>2
  <2>2. WaitInv'
    BY <1>0, <1>1, <1>2, <1>4, <1>5 DEF TrustInv, WaitInv
  <2> QED BY <2>1, <2>2
<1>6. CASE SyncBegins /\ phase = "absent"
  <2>1. pc' = "idle" /\ phase' = "absent"
    BY <1>1, <1>6 DEF SyncBegins
  <2> QED BY <2>1 DEF TrustInv, SeesInv, KnowsInv, WaitInv
<1>7. CASE SyncBegins /\ phase # "absent"
  <2>1. /\ UNCHANGED <<exp, uids, carried>> /\ pc = "idle" /\ pc' = "list"
        /\ manage' = (SatisfiedExpectations /\ phase = "present")
        /\ blind' = (blind \/ (exp.set /\ exp.expired /\ ~Fulfilled))
    BY <1>7 DEF SyncBegins
  <2>2. ~blind' => ~blind
    BY <2>1
  <2>3. ASSUME ~blind', manage'
        PROVE  Cardinality(Unseen) <= carried /\ uids = {} /\ Doomed = {}
    <3>1. exp.add <= 0 /\ exp.del <= 0
      <4>1. (~exp.set \/ Fulfilled \/ exp.expired) /\ ~(exp.set /\ exp.expired /\ ~Fulfilled)
        BY <2>1, <2>3 DEF SatisfiedExpectations
      <4>2. ~exp.set => exp.add = 0 /\ exp.del = 0
        BY <1>0 DEF CallInv
      <4>3. CASE ~exp.set
        BY <4>2, <4>3
      <4>4. CASE exp.set
        BY <4>1, <4>4 DEF Fulfilled
      <4> QED BY <4>3, <4>4
    <3>2. /\ left + Cardinality(Unseen) <= Expected + carried /\ Cardinality(uids) <= exp.del
          /\ Doomed \subseteq uids
      BY <1>7, <2>2, <2>3 DEF TrustInv, SeesInv
    <3>3. Cardinality(Unseen) \in Nat /\ Cardinality(uids) \in Nat /\ Expected = 0
      BY <1>0, <3>1, UnseenIs, PodsFinite DEF Expected
    <3>4. Cardinality(Unseen) <= carried /\ Cardinality(uids) = 0
      BY <1>0, <3>1, <3>2, <3>3
    <3>5. uids = {}
      BY <1>0, <3>4, PodsFinite, FS_EmptySet
    <3> QED BY <3>2, <3>4, <3>5
  <2>4. KnowsInv'
    BY <1>2, <1>3, <2>1, <2>3 DEF KnowsInv
  <2> QED BY <1>5, <2>1, <2>2, <2>4 DEF TrustInv
<1>8. CASE ListPods
  <2>1. /\ UNCHANGED <<exp, uids, manage, want, blind>>
        /\ pc = "list" /\ listed' = Live(cache)
        /\ pc' \in {"expect", "status"} /\ (pc' = "expect" => manage)
        /\ carried' = IF Untold \subseteq startup THEN 0 ELSE carried
    BY <1>8 DEF ListPods
  <2>2. toDelete = {} /\ left = 0
    BY <1>0, <2>1 DEF CallInv
  <2>5. /\ carried' \in Nat
        /\ carried' = carried \/ (carried' = 0 /\ Unseen = {})
    BY <1>0, <2>1 DEF Unseen
  <2>3. ASSUME ~blind, manage
        PROVE  /\ Cardinality(Unseen) <= carried' /\ uids = {}
               /\ Cardinality(Live(server) \ Live(cache)) <= carried'
               /\ \A p \in Live(cache) : server[p] = "live" \/ p \in external
    <3>1. Cardinality(Unseen) <= carried /\ uids = {} /\ Doomed = {}
      BY <2>1, <2>3 DEF TrustInv, KnowsInv
    <3>4. Cardinality(Unseen) <= carried'
      BY <2>5, <3>1, FS_EmptySet
    <3>2. Live(server) \ Live(cache) \subseteq Unseen
      <4> SUFFICES ASSUME NEW p \in Pod, server[p] = "live", cache[p] # "live" PROVE p \in Unseen
        BY DEF Live
      <4>1. cache[p] # "dying"
        BY <1>0 DEF PodInv, Shape
      <4>2. cache[p] = "none"
        BY <1>0, <4>1
      <4>3. notes[p] = <<>>
        BY <1>0, <4>2 DEF PodInv, Shape
      <4>4. p \notin startup
        BY <1>0, <4>3, NoNotes DEF PodInv
      <4> QED BY <4>2, <4>4, UntoldIs DEF Unseen
    <3>5. Cardinality(Live(server) \ Live(cache)) <= carried'
      <4>1. PICK u, v \in Nat : /\ u = Cardinality(Unseen) /\ v = Cardinality(Live(server) \ Live(cache))
                               /\ v <= u
        BY <3>2, UnseenIs, FS_Subset, FS_CardinalityType
      <4> QED BY <2>5, <3>4, <4>1
    <3>3. ASSUME NEW p \in Pod, cache[p] = "live" PROVE server[p] = "live" \/ p \in external
      <4>1. server[p] \in {"live", "dying", "gone"}
        BY <1>0, <3>3 DEF PodInv, Shape, BaseInv, RSTypeOK
      <4> QED BY <3>1, <3>3, <4>1 DEF Doomed
    <3> QED BY <3>1, <3>3, <3>4, <3>5 DEF Live
  <2>4. KnowsInv'
    BY <1>1, <1>2, <1>3, <2>1, <2>2, <2>3 DEF KnowsInv
  <2> QED BY <1>5, <2>1, <2>2, <2>4, <2>5 DEF TrustInv
<1>9. CASE DeletionsEnd \/ SyncEnds
  <2>1. UNCHANGED <<exp, uids, carried, blind>> /\ pc' \in {"status", "idle"}
    BY <1>9 DEF DeletionsEnd, SyncEnds
  <2>2. KnowsInv'
    BY <2>1 DEF KnowsInv
  <2> QED BY <1>5, <2>1, <2>2 DEF TrustInv
<1> QED BY <1>6, <1>7, <1>8, <1>9

\* manageReplicas sets the expectations, while nothing else is expected.
LEMMA ExpectTrust ==
  ASSUME BaseInv, TrustInv, ExpectCreations \/ ExpectDeletions
  PROVE  TrustInv'
<1> USE DEF serverVars, startVars, rsVars, expVars, callVars, syncVars
<1>0. /\ left \in Nat /\ want \in Nat /\ carried \in Nat
      /\ uids \in SUBSET Pod /\ listed \in SUBSET Pod /\ CallInv
  BY DEF BaseInv, RSTypeOK
<1>1. /\ UNCHANGED <<server, cache, notes, external, startup, carried, phase, want, blind, manage>>
      /\ pc = "expect" /\ missed' = FALSE
  BY DEF ExpectCreations, ExpectDeletions
<1>2. Untold' = Untold /\ Unseen' = Unseen
  BY <1>1, UntoldSame DEF Unseen
<1>3. Doomed' = Doomed /\ Live(server)' = Live(server)
  BY <1>1 DEF Doomed, Live
<1>4. manage /\ toDelete = {} /\ left = 0
  BY <1>0, <1>1 DEF CallInv
<1>5. ASSUME ~blind
      PROVE  /\ Cardinality(Unseen) <= carried /\ uids = {}
             /\ Cardinality(Live(server) \ listed) <= carried
             /\ \A p \in listed : server[p] = "live" \/ p \in external
  BY <1>1, <1>4, <1>5 DEF TrustInv, KnowsInv
<1>6. Cardinality({}) = 0
  BY FS_EmptySet
<1>7. PICK n \in Nat : n = Cardinality(listed)
  BY <1>0, PodsFinite
<1>8. PICK u, v, k \in Nat : u = Cardinality(Untold) /\ v = Cardinality(Unseen) /\ k = carried
  BY <1>0, UntoldIs, UnseenIs
<1>9. Burst \in Nat \ {0}
  BY RSAssumption
<1>10. CASE ExpectCreations
  <2>1. /\ UNCHANGED <<uids, listed, toDelete>> /\ pc' = "create" /\ n < want
        /\ left' = AtMost(want - n, Burst)
        /\ exp' = [set |-> TRUE, add |-> AtMost(want - n, Burst), del |-> 0, expired |-> FALSE]
    BY <1>7, <1>10 DEF ExpectCreations, SetExpectations
  <2>2. PICK d \in Nat : d = AtMost(want - n, Burst) /\ d <= want - n
    <3>1. PICK x \in Int : x = want - n /\ x >= 0
      BY <1>0, <2>1
    <3>2. AtMost(x, Burst) \in Nat /\ AtMost(x, Burst) <= x
      BY <1>9, <3>1, Limits
    <3> QED BY <3>1, <3>2
  <2>3. exp'.add = d /\ exp'.del = 0 /\ left' = d
    BY <2>1, <2>2
  <2>4. Cardinality(uids) \in Nat
    BY <1>0, PodsFinite
  <2>5. SeesInv'
    <3> SUFFICES ASSUME ~blind, phase # "absent"
                 PROVE  d + v <= d + k /\ Cardinality(uids) <= 0 /\ Doomed \subseteq uids
      <4>1. Expected' = d
        BY <2>2, <2>3 DEF Expected
      <4> QED BY <1>1, <1>2, <1>3, <1>8, <2>1, <2>3, <4>1 DEF SeesInv
    <3>1. v <= k /\ Cardinality(uids) = 0
      BY <1>5, <1>6, <1>8
    <3>2. Doomed \subseteq uids
      BY DEF TrustInv, SeesInv
    <3> QED BY <3>1, <3>2
  <2>6. WaitInv'
    <3> SUFFICES ASSUME phase # "absent"
                 PROVE  /\ d <= d + u
                        /\ 0 <= Cardinality(uids)
                        /\ \A p \in uids : Comes(p)'
      BY <1>1, <1>2, <1>8, <2>1, <2>3 DEF WaitInv
    <3>1. \A p \in uids : Comes(p)
      BY DEF TrustInv, WaitInv
    <3>2. \A p \in uids : Comes(p)'
      BY <1>1, <2>1, <3>1 DEF Comes
    <3> QED BY <2>4, <3>2
  <2>7. KnowsInv'
    <3> SUFFICES ASSUME ~blind PROVE Cardinality(Live(server)) + d <= want + k
      BY <1>1, <1>3, <1>8, <2>1, <2>3 DEF KnowsInv
    <3>1. PICK x \in Nat : x = Cardinality(Live(server) \ listed) /\ x <= k
      <4>1. Live(server) \ listed \in SUBSET Pod
        BY DEF Live
      <4> QED BY <1>5, <1>8, <4>1, PodsFinite
    <3>2. PICK l \in Nat : l = Cardinality(Live(server)) /\ l <= n + x
      <4>1. Live(server) \in SUBSET Pod
        BY DEF Live
      <4> QED BY <1>0, <1>7, <3>1, <4>1, PodsBeyond
    <3>3. PICK w \in Nat : w = want /\ d <= w - n
      BY <1>0, <2>2
    <3>4. l + d <= w + k
      BY <3>1, <3>2, <3>3, <2>2, <1>7, <1>8
    <3> QED BY <3>2, <3>3, <3>4
  <2> QED BY <2>5, <2>6, <2>7 DEF TrustInv
<1>11. CASE ExpectDeletions
  <2>1. PICK S \in SUBSET listed : /\ toDelete' = S /\ listed' = listed \ S /\ uids' = S
                                  /\ Cardinality(S) = AtMost(n - want, Burst)
    BY <1>7, <1>11 DEF ExpectDeletions, kSubset
  <2>2. /\ UNCHANGED left /\ pc' = "delete"
        /\ exp' = [set |-> TRUE, add |-> 0, del |-> AtMost(n - want, Burst), expired |-> FALSE]
    BY <1>7, <1>11 DEF ExpectDeletions, SetExpectations
  <2>3. exp'.add = 0 /\ exp'.del = Cardinality(S)
    BY <2>1, <2>2
  <2>4. S \in SUBSET Pod /\ Cardinality(S) \in Nat
    BY <1>0, PodsFinite
  <2>5. SeesInv'
    <3> SUFFICES ASSUME ~blind, phase # "absent"
                 PROVE  0 + v <= 0 + k /\ Cardinality(S) <= Cardinality(S) /\ Doomed \subseteq S
      <4>1. Expected' = 0
        BY <2>3 DEF Expected
      <4> QED BY <1>1, <1>2, <1>3, <1>4, <1>8, <2>1, <2>2, <2>3, <4>1 DEF SeesInv
    <3>1. v <= k
      BY <1>5, <1>8
    <3>2. Doomed = {}
      BY <1>5 DEF TrustInv, SeesInv
    <3> QED BY <2>4, <3>1, <3>2
  <2>6. WaitInv'
    <3>1. \A p \in S : Comes(p)'
      BY <2>1 DEF Comes
    <3> QED BY <1>2, <1>4, <1>8, <2>1, <2>2, <2>3, <2>4, <3>1 DEF WaitInv
  <2>7. KnowsInv'
    <3>1. listed' \cup toDelete' \subseteq listed
      BY <2>1
    <3> QED BY <1>1, <1>5, <2>2, <3>1 DEF KnowsInv
  <2> QED BY <2>5, <2>6, <2>7 DEF TrustInv
<1> QED BY <1>10, <1>11

\* A call to create a pod returns, or a batch of calls is over.
LEMMA CreateTrust ==
  ASSUME BaseInv, TrustInv, CreatePod \/ BatchEnds
  PROVE  TrustInv'
<1> USE DEF serverVars, startVars, rsVars, expVars, callVars, syncVars
<1>0. /\ RSTypeOK /\ left \in Nat /\ want \in Nat /\ carried \in Nat /\ exp.add \in Int /\ exp.del \in Int
      /\ server \in [Pod -> {"none", "live", "dying", "gone"}]
      /\ uids \in SUBSET Pod /\ Cardinality(uids) \in Nat /\ CallInv
  BY PodsFinite DEF BaseInv, RSTypeOK
<1>1. /\ UNCHANGED <<cache, notes, startup, carried, phase, uids, manage, want, listed, toDelete>>
      /\ pc = "create"
  BY DEF CreatePod, BatchEnds
<1>2. toDelete = {} /\ exp.set
  BY <1>0, <1>1 DEF CallInv
<1>3. PICK u, v, k \in Nat : u = Cardinality(Untold) /\ v = Cardinality(Unseen) /\ k = carried
  BY <1>0, UntoldIs, UnseenIs
<1>4. PICK l \in Nat : l = Cardinality(Live(server))
  <2>1. Live(server) \in SUBSET Pod
    BY DEF Live
  <2> QED BY <2>1, PodsFinite
\* No pod is created: what has left the plan is not expected, or is missed.
<1>5. ASSUME UNCHANGED <<server, external>>, ~blind' => ~blind, pc' \in {"create", "status"},
             left' \in Nat, left' <= left, exp'.add \in Int, exp'.del = exp.del,
             exp.add - left <= exp'.add - left',
             ~missed' => ~missed /\ exp'.add - left' <= exp.add - left
      PROVE  TrustInv'
  <2>1. Untold' = Untold /\ Unseen' = Unseen
    BY <1>1, <1>5, UntoldSame DEF Unseen
  <2>2. Doomed' = Doomed /\ Live(server)' = Live(server)
    BY <1>1, <1>5 DEF Doomed, Live
  <2>3. SeesInv'
    <3> SUFFICES ASSUME ~blind, phase # "absent"
                 PROVE  left' + v <= Expected' + k /\ Cardinality(uids) <= exp.del /\ Doomed \subseteq uids
      BY <1>1, <1>3, <1>5, <2>1, <2>2 DEF SeesInv
    <3>1. left + v <= Expected + k /\ Cardinality(uids) <= exp.del /\ Doomed \subseteq uids
      BY <1>3 DEF TrustInv, SeesInv
    <3>2. PICK a, b \in Nat, e, f \in Int : /\ left = a /\ left' = b /\ exp.add = e /\ exp'.add = f
                                           /\ b <= a /\ e - a <= f - b
      BY <1>0, <1>5
    <3>3. PICK x, y \in Int : /\ x = Expected /\ y = Expected' /\ x - a <= y - b
      <4>1. PICK x, y \in Int : /\ x = IF e > 0 THEN e ELSE 0
                               /\ y = IF f > 0 THEN f ELSE 0
        BY <3>2
      <4>2. x = Expected /\ y = Expected'
        BY <3>2, <4>1 DEF Expected
      <4>3. x - a <= y - b
        BY <3>2, <4>1
      <4> QED BY <4>2, <4>3
    <3>4. a + v <= x + k
      BY <3>1, <3>2, <3>3
    <3>5. b + v <= y + k
      <4>1. /\ a \in Nat /\ b \in Nat /\ v \in Nat /\ k \in Nat /\ x \in Int /\ y \in Int
            /\ a + v <= x + k /\ x - a <= y - b
        BY <1>3, <3>2, <3>3, <3>4
      <4> QED BY ONLY <4>1
    <3> QED BY <3>1, <3>2, <3>3, <3>5
  <2>4. WaitInv'
    <3> SUFFICES ASSUME phase # "absent"
                 PROVE  /\ ~missed' => exp'.add <= left' + u
                        /\ exp.del <= Cardinality(uids)
                        /\ \A p \in uids : Comes(p)'
      BY <1>1, <1>3, <1>5, <2>1 DEF WaitInv
    <3>1. /\ ~missed => exp.add <= left + u
          /\ exp.del <= Cardinality(uids)
          /\ \A p \in uids : Comes(p)
      BY <1>3 DEF TrustInv, WaitInv
    <3>2. ~missed' => exp'.add <= left' + u
      BY <1>0, <1>5, <3>1
    <3>3. \A p \in uids : Comes(p)'
      BY <1>1, <1>5, <3>1 DEF Comes
    <3> QED BY <3>1, <3>2, <3>3
  <2>5. KnowsInv'
    <3> SUFFICES ASSUME ~blind PROVE l + left' <= want + k
      BY <1>1, <1>3, <1>4, <1>5, <2>2 DEF KnowsInv
    <3>1. l + left <= want + k
      BY <1>1, <1>3, <1>4 DEF TrustInv, KnowsInv
    <3>2. PICK a, b, w \in Nat : left = a /\ left' = b /\ want = w /\ b <= a
      BY <1>0, <1>5
    <3>3. l + a <= w + k => l + b <= w + k
      BY <1>3, <1>4, <3>2
    <3> QED BY <3>1, <3>2, <3>3
  <2> QED BY <2>3, <2>4, <2>5 DEF TrustInv
\* A pod is created: it is untold, and as many are left, unless the answer was lost.
<1>6. ASSUME Created, UNCHANGED <<exp, pc, missed>>,
             \/ left' = left - 1 /\ UNCHANGED blind
             \/ left' = left /\ blind' = TRUE
      PROVE  TrustInv'
  <2>1. PICK p \in Pod : /\ server[p] = "none" /\ cache[p] = "none" /\ notes[p] = <<>>
                         /\ server' = [server EXCEPT ![p] = "live"]
                         /\ external' = external \ {p} /\ p \notin uids /\ p \notin startup
    BY <1>1, <1>2, <1>6, PodCreated
  <2>2. server'[p] = "live" /\ \A q \in Pod \ {p} : server'[q] = server[q]
    BY <1>0, <2>1
  <2>3. p \notin Untold /\ Untold' = Untold \cup {p}
    <3>1. p \notin Untold /\ p \in Untold'
      BY <1>1, <2>1, <2>2, NoNotes, UntoldIs
    <3>2. \A q \in Pod \ {p} : q \in Untold' <=> q \in Untold
      BY <1>1, <2>2, UntoldIs
    <3> QED BY <3>1, <3>2, UntoldIs
  <2>4. Cardinality(Untold') = u + 1 /\ Cardinality(Unseen') = v + 1
    <3>1. Cardinality(Untold') = u + 1
      BY <1>3, <2>3, UntoldIs, Counting
    <3>2. p \notin Unseen /\ Unseen' = Unseen \cup {p}
      BY <1>1, <2>1, <2>3 DEF Unseen
    <3>3. Cardinality(Unseen') = v + 1
      BY <1>3, <3>2, UnseenIs, Counting
    <3> QED BY <3>1, <3>3
  <2>5. Cardinality(Live(server)') = l + 1
    <3>1. /\ Live(server) \in SUBSET Pod /\ Live(server)' \in SUBSET Pod
          /\ p \notin Live(server) /\ Live(server)' = Live(server) \cup {p}
      BY <2>1, <2>2 DEF Live
    <3> QED BY <1>4, <3>1, Counting
  <2>6. Doomed' \subseteq Doomed
    BY <1>1, <2>1, <2>2 DEF Doomed
  <2>7. SeesInv'
    <3> SUFFICES ASSUME ~blind, phase # "absent", left' = left - 1
                 PROVE  /\ left - 1 + (v + 1) <= Expected + k /\ Cardinality(uids) <= exp.del
                        /\ Doomed' \subseteq uids
      BY <1>1, <1>3, <1>6, <2>4 DEF SeesInv, Expected
    <3>1. left + v <= Expected + k /\ Cardinality(uids) <= exp.del /\ Doomed \subseteq uids
      BY <1>3 DEF TrustInv, SeesInv
    <3>2. left - 1 + (v + 1) = left + v
      BY <1>0, <1>3
    <3> QED BY <2>6, <3>1, <3>2
  <2>8. WaitInv'
    <3> SUFFICES ASSUME phase # "absent"
                 PROVE  /\ ~missed => exp.add <= left' + (u + 1)
                        /\ exp.del <= Cardinality(uids)
                        /\ \A q \in uids : Comes(q)'
      BY <1>1, <1>6, <2>4 DEF WaitInv
    <3>1. /\ ~missed => exp.add <= left + u
          /\ exp.del <= Cardinality(uids)
          /\ \A q \in uids : Comes(q)
      BY <1>3 DEF TrustInv, WaitInv
    <3>2. ~missed => exp.add <= left' + (u + 1)
      BY <1>0, <1>6, <3>1
    <3>3. \A q \in uids : Comes(q)'
      BY <1>0, <1>1, <2>1, <2>2, <3>1 DEF Comes
    <3> QED BY <3>1, <3>2, <3>3
  <2>9. KnowsInv'
    <3> SUFFICES ASSUME ~blind, left' = left - 1 PROVE (l + 1) + (left - 1) <= want + k
      BY <1>1, <1>3, <1>6, <2>5 DEF KnowsInv
    <3>1. l + left <= want + k
      BY <1>1, <1>3, <1>4 DEF TrustInv, KnowsInv
    <3> QED BY <1>0, <3>1
  <2> QED BY <2>7, <2>8, <2>9 DEF TrustInv
<1>7. CASE CreatePod
  <2>1. UNCHANGED <<exp, pc>> /\ todo > 0
    BY <1>7 DEF CreatePod
  <2>2. left >= 1
    BY <1>0, <2>1 DEF RSTypeOK, CallInv
  <2>3. \/ Created /\ left' = left - 1 /\ UNCHANGED <<missed, blind>>
        \/ left' = left - 1 /\ missed' = TRUE /\ UNCHANGED <<server, external, blind>>
        \/ Created /\ left' = left /\ blind' = TRUE /\ missed' = missed
        \/ left' = left /\ UNCHANGED <<server, external, blind, missed>>
    BY <1>7 DEF CreatePod
  <2>4. CASE left' = left - 1 /\ missed' = TRUE /\ UNCHANGED <<server, external, blind>>
    BY <1>0, <1>1, <1>5, <2>1, <2>2, <2>4
  <2>5. CASE left' = left /\ UNCHANGED <<server, external, blind, missed>>
    BY <1>0, <1>1, <1>5, <2>1, <2>5
  <2> QED BY <1>6, <2>1, <2>3, <2>4, <2>5
<1>8. CASE BatchEnds
  <2>1. /\ UNCHANGED <<server, external, blind, missed>>
        /\ \/ LowerExpectations(left, 0) /\ pc' = "status" /\ left' = 0
           \/ UNCHANGED <<exp, pc, left>>
    BY <1>8 DEF BatchEnds
  <2>2. CASE LowerExpectations(left, 0) /\ pc' = "status" /\ left' = 0
    <3>1. exp'.add = exp.add - left /\ exp'.del = exp.del
      <4>1. left \in Int /\ 0 \in Int /\ RSTypeOK /\ LowerExpectations(left, 0)
        BY <1>0, <2>2
      <4>2. /\ exp'.add = IF exp.set THEN exp.add - left ELSE exp.add
            /\ exp'.del = IF exp.set THEN exp.del - 0 ELSE exp.del
        BY ONLY <4>1, Lowered
      <4>3. exp.del - 0 = exp.del
        BY <1>0
      <4> QED BY <1>2, <4>2, <4>3
    <3>2. /\ left' \in Nat /\ left' <= left /\ exp'.add \in Int
          /\ exp.add - left <= exp'.add - left' /\ exp'.add - left' <= exp.add - left
      BY <1>0, <2>2, <3>1
    <3> QED BY <1>5, <2>1, <2>2, <3>1, <3>2
  <2>3. CASE UNCHANGED <<exp, pc, left>>
    BY <1>0, <1>1, <1>5, <2>1, <2>3
  <2> QED BY <2>1, <2>2, <2>3
<1> QED BY <1>7, <1>8

\* A call to delete a pod returns.
LEMMA DeleteTrust ==
  ASSUME BaseInv, TrustInv, NEW p \in Pod, DeletePod(p)
  PROVE  TrustInv'
<1> USE DEF serverVars, startVars, rsVars, expVars, callVars, syncVars
<1>0. /\ RSTypeOK /\ left \in Nat /\ exp.add \in Int /\ exp.del \in Int
      /\ server \in [Pod -> {"none", "live", "dying", "gone"}]
      /\ uids \in SUBSET Pod /\ listed \cup toDelete \subseteq Pod /\ CallInv
  BY DEF BaseInv, RSTypeOK
<1>1. /\ UNCHANGED <<external, cache, notes, startup, carried, phase, manage, want, listed, left, pc, missed>>
      /\ pc = "delete" /\ p \in toDelete /\ toDelete' = toDelete \ {p}
  BY DEF DeletePod
<1>2. exp.set /\ p \notin listed /\ (cache[p] = "live" => p \in uids)
  BY <1>0, <1>1 DEF CallInv
<1>3. \/ /\ server[p] = "live" /\ \E s \in {"dying", "gone"} : server' = [server EXCEPT ![p] = s]
         /\ UNCHANGED <<exp, uids, blind>>
      \/ server[p] = "dying" /\ UNCHANGED <<server, exp, uids, blind>>
      \/ server[p] \in {"none", "gone"} /\ DeletionObserved(p) /\ UNCHANGED <<server, blind>>
      \/ /\ server[p] = "live" /\ DeletionObserved(p)
         /\ \/ server' = [server EXCEPT ![p] = "dying"] /\ blind' = TRUE
            \/ UNCHANGED <<server, blind>>
  BY DEF DeletePod
<1>4. \/ server' = server
      \/ server[p] = "live" /\ \E s \in {"dying", "gone"} : server' = [server EXCEPT ![p] = s]
  BY <1>3
<1>5. (\A q \in Pod \ {p} : server'[q] = server[q])
      /\ (server' = server \/ server'[p] \in {"dying", "gone"})
  BY <1>0, <1>4
<1>6. Untold' = Untold /\ Unseen' = Unseen
  <2>1. Untold' = Untold
    BY <1>0, <1>1, <1>4, UntoldSame, UntoldDies
  <2> QED BY <1>1, <2>1 DEF Unseen
<1>7. /\ exp'.add = exp.add
      /\ \/ exp'.del = exp.del /\ uids' = uids /\ server'[p] \in {"dying", "gone"}
         \/ /\ uids' = uids \ {p}
            /\ exp'.del = IF p \in uids THEN exp.del - 1 ELSE exp.del
  <2>1. CASE DeletionObserved(p)
    BY <1>0, <1>2, <2>1, DeletionCounted
  <2>2. CASE UNCHANGED <<exp, uids>> /\ server'[p] \in {"dying", "gone"}
    BY <2>2
  <2> QED BY <1>0, <1>3, <2>1, <2>2
<1>8. PICK x, y \in Nat : x = Cardinality(uids) /\ y = Cardinality(uids')
  <2>1. uids' \in SUBSET Pod
    BY <1>0, <1>7
  <2> QED BY <1>0, <2>1, PodsFinite
<1>9. exp'.del \in Int /\ exp'.del - y = exp.del - x
  <2>1. CASE uids' = uids \ {p} /\ p \in uids
    <3>1. y = x - 1
      BY <1>0, <1>8, <2>1, Counting
    <3> QED BY <1>0, <1>7, <2>1, <3>1
  <2>2. CASE uids' = uids
    <3>1. exp'.del = exp.del
      BY <1>7, <2>2
    <3> QED BY <1>0, <1>8, <2>2, <3>1
  <2> QED BY <1>7, <2>1, <2>2
<1>10. SeesInv'
  <2> SUFFICES ASSUME ~blind', phase # "absent"
               PROVE  /\ left + Cardinality(Unseen) <= Expected + carried /\ y <= exp'.del
                      /\ Doomed' \subseteq uids'
    BY <1>1, <1>6, <1>7, <1>8 DEF SeesInv, Expected
  <2>1. ~blind
    BY <1>3
  <2>2. /\ left + Cardinality(Unseen) <= Expected + carried /\ x <= exp.del
        /\ Doomed \subseteq uids
    BY <1>8, <2>1 DEF TrustInv, SeesInv
  <2>3. y <= exp'.del
    BY <1>0, <1>9, <2>2
  <2>4. Doomed' \ {p} \subseteq uids'
    BY <1>1, <1>5, <1>7, <2>2 DEF Doomed
  <2>5. ASSUME p \in Doomed' PROVE p \in uids'
    <3>1. cache[p] = "live" /\ server'[p] \in {"dying", "gone"} /\ p \notin external
      BY <1>1, <2>5 DEF Doomed
    <3>2. server[p] = "live" \/ p \in external
      BY <1>1, <2>1 DEF TrustInv, KnowsInv
    <3>3. server[p] = "live" /\ server' # server
      BY <3>1, <3>2
    <3>4. uids' = uids
      BY <1>3, <3>3
    <3> QED BY <1>2, <3>1, <3>4
  <2> QED BY <2>2, <2>3, <2>4, <2>5
<1>11. WaitInv'
  <2> SUFFICES ASSUME phase # "absent"
               PROVE  /\ ~missed => exp.add <= left + Cardinality(Untold)
                      /\ exp'.del <= y
                      /\ \A q \in uids' : Comes(q)'
    BY <1>1, <1>6, <1>7, <1>8 DEF WaitInv
  <2>1. /\ ~missed => exp.add <= left + Cardinality(Untold)
        /\ exp.del <= x
        /\ \A q \in uids : Comes(q)
    BY <1>8 DEF TrustInv, WaitInv
  <2>2. exp'.del <= y
    BY <1>0, <1>9, <2>1
  <2>3. ASSUME NEW q \in uids' PROVE Comes(q)'
    <3>1. CASE q = p
      BY <1>7, <2>3, <3>1 DEF Comes
    <3>2. CASE q # p
      BY <1>0, <1>1, <1>5, <1>7, <2>1, <2>3, <3>2 DEF Comes
    <3> QED BY <3>1, <3>2
  <2> QED BY <2>1, <2>2, <2>3
<1>12. KnowsInv'
  <2> SUFFICES ASSUME ~blind', NEW q \in listed \cup toDelete'
               PROVE  server'[q] = "live" \/ q \in external
    BY <1>1 DEF KnowsInv
  <2>1. q \in listed \cup toDelete /\ q # p /\ q \in Pod /\ ~blind
    BY <1>0, <1>1, <1>2, <1>3
  <2> QED BY <1>1, <1>5, <2>1 DEF TrustInv, KnowsInv
<1> QED BY <1>10, <1>11, <1>12 DEF TrustInv

-----------------------------------------------------------------------------
(* The theorems *)

LEMMA TrustStep == ASSUME BaseInv, TrustInv, [RSNext]_rscVars PROVE TrustInv'
<1>1. CASE Sync
  BY <1>1, SyncTrust, ExpectTrust, CreateTrust, DeleteTrust DEF Sync
<1>2. CASE \E p \in Pod : HandlePod(p)
  BY <1>2, HandleTrust
<1>3. CASE \/ Expire \/ UpdateRS \/ DeleteRS \/ UNCHANGED rscVars
           \/ \E p \in Pod : DeletedByOthers(p) \/ Removed(p) \/ Watch(p) \/ Relist(p)
  BY <1>3, OthersTrust
<1> QED BY <1>1, <1>2, <1>3 DEF RSNext

LEMMA ExpectationsInvariant == RSSafety => [](BaseInv /\ TrustInv)
<1>1. RSInit => BaseInv /\ TrustInv
  BY BaseInit, TrustInit
<1>2. (BaseInv /\ TrustInv) /\ [RSNext]_rscVars => (BaseInv /\ TrustInv)'
  BY BaseStep, TrustStep
<1> QED BY <1>1, <1>2, PTL DEF RSSafety

\* manageReplicas never creates more pods than are missing in the API server,
\* however far the cache is behind, whatever fails and whoever else deletes pods:
\* a sync that may act has been told of every creation, and a creation that
\* is planned is counted from SetExpectations to the handler of the pod.  Only
\* a lost answer or expectations that expired unfulfilled end this, and a start
\* over existing pods blurs it, by as many pods as the first list did not show
\* and as addPod calls of the start have lowered fresh expectations, until all
\* that the controller has created itself was told.
THEOREM NeverTooManyPods == RSSafety => []NoOverCreation
<1>1. BaseInv /\ TrustInv => NoOverCreation
  BY DEF TrustInv, KnowsInv, NoOverCreation
<1> QED BY <1>1, ExpectationsInvariant, PTL

\* The pods manageReplicas keeps when it deletes others are not ones it has
\* deleted itself: until the cache shows a deletion of its own, the UID is in
\* the UIDSet and the deletion is expected, so that no sync acts.
THEOREM DoomedPodsDoNotCount == RSSafety => []KeepsNoDoomedPod
<1>1. BaseInv /\ TrustInv => KeepsNoDoomedPod
  BY DEF TrustInv, KnowsInv, KeepsNoDoomedPod
<1> QED BY <1>1, ExpectationsInvariant, PTL

\* SatisfiedExpectations waits only for what is to come: every creation that is
\* expected is under way or untold, and every deletion is under way or untold,
\* though calls fail, batches are skipped and a deletion is told twice.
THEOREM WaitsAreNotInVain == RSSafety => []NoVainWait
<1>1. BaseInv /\ TrustInv => NoVainWait
  BY DEF TrustInv, WaitInv, NoVainWait, Comes, OtherIn
<1> QED BY <1>1, ExpectationsInvariant, PTL
=============================================================================
