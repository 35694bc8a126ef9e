--------------------------- MODULE ServingProofs ---------------------------
(***************************************************************************)
(* What the replicas serve: types, that a replica serves what it has       *)
(* acknowledged, and that one with nothing left to reload serves what the  *)
(* store holds.  For any number of replicas, requests and failures.        *)
(***************************************************************************)
EXTENDS Serving, AdminProofs

SnapState == [epoch : Nat, stubs : [Ids -> Served], settings : Contents]

LoadState == [pc : {"idle", "scan", "swap"}, for : SUBSET Requests,
              epoch : Nat, unread : SUBSET Ids, docs : [Ids -> Doc],
              file : Contents \cup {Unread}, settings : Contents]

PodTypes ==
  /\ snap \in [Pods -> SnapState]
  /\ cache \in [Pods -> [Ids -> Doc]]
  /\ load \in [Pods -> LoadState]
  /\ body \in [Requests -> Contents \cup {Unread, Unreadable}]
  /\ misread \in [Pods -> SUBSET Ids]
  /\ acked \in [Ids -> SUBSET Pods]

LEMMA TypeParts ==
  /\ TypeOK <=> AdminTypeOK /\ PodTypes
  /\ TypeOK' <=> AdminTypeOK' /\ PodTypes'
BY DEF TypeOK, PodTypes, SnapState, LoadState

LEMMA ServeType ==
  ASSUME NEW doc \in Doc, NEW contents \in Contents \cup {Unread, Unreadable}
  PROVE  Serve(doc, contents) \in Served
<1>1. contents > 0 => contents \in Contents
  BY AdminAssumption DEF Unread, Unreadable
<1>2. 0 \in Contents
  BY AdminAssumption
<1> QED BY <1>1, <1>2 DEF Serve, Served, Doc

LEMMA EmptySnapshotType == EmptySnapshot \in SnapState
<1>1. 0 \in Contents
  BY AdminAssumption
<1>2. Serve(NoDoc, 0) \in Served
  BY <1>1, DocType, ServeType
<1> QED BY <1>1, <1>2 DEF EmptySnapshot, SnapState

\* No rebuild, and one that begins.
LEMMA LoadType ==
  ASSUME NEW for \in SUBSET Requests, NEW e \in Nat
  PROVE  /\ NoLoad \in LoadState
         /\ [NoLoad EXCEPT !.pc = "scan", !.for = for, !.epoch = e, !.unread = Ids,
                           !.file = Unread] \in LoadState
         /\ [NoLoad EXCEPT !.pc = "scan", !.epoch = e, !.unread = Ids,
                           !.file = Unread] \in LoadState
<1>1. NoLoad \in LoadState
  BY AdminAssumption, DocType DEF NoLoad, LoadState
<1>2. PICK l \in LoadState : l = NoLoad
  BY <1>1
<1>3. /\ [l EXCEPT !.pc = "scan", !.for = for, !.epoch = e, !.unread = Ids,
                   !.file = Unread] \in LoadState
      /\ [l EXCEPT !.pc = "scan", !.epoch = e, !.unread = Ids,
                   !.file = Unread] \in LoadState
  BY DEF LoadState
<1> QED BY <1>1, <1>2, <1>3

LEMMA InitTypes == Init => TypeOK
<1> SUFFICES ASSUME Init PROVE AdminTypeOK /\ PodTypes
  BY TypeParts
<1>1. NoLoad \in LoadState
  <2>1. {} \in SUBSET Requests /\ 0 \in Nat
    OBVIOUS
  <2> QED BY <2>1, LoadType
<1> QED BY <1>1, InitType, DocType, EmptySnapshotType DEF Init, PodTypes

-----------------------------------------------------------------------------
\* Some requests end where they are, and nothing else of the write path moves.
LEMMA RequestsEnd ==
  ASSUME AdminTypeOK, NEW S,
         req' = [r \in Requests |-> IF r \in S THEN IdleReq ELSE req[r]],
         UNCHANGED <<shared, begun>>, faults' \in Nat, unsignalled' \in BOOLEAN
  PROVE  AdminTypeOK'
BY IdleReqType DEF AdminTypeOK, shared

\* A failed call is counted.
LEMMA FaultType == AdminTypeOK /\ Fault => faults' \in Nat
BY DEF Fault, AdminTypeOK

\* A compiled stub is one that was read, or the cached one.
LEMMA CompiledType ==
  ASSUME PodTypes, NEW p \in Pods
  PROVE  Compiled(p) \in [Ids -> Doc]
<1>1. load[p].docs \in [Ids -> Doc] /\ cache[p] \in [Ids -> Doc]
  BY DEF PodTypes, LoadState
<1> QED BY <1>1 DEF Compiled

\* What is served of the stubs a rebuild compiled.
LEMMA SwappedType ==
  ASSUME TypeOK, NEW p \in Pods, load[p].pc = "swap"
  PROVE  [epoch |-> load[p].epoch,
          stubs |-> [id \in Ids |-> Serve(Compiled(p)[id], load[p].file)],
          settings |-> load[p].settings] \in SnapState
<1>1. load[p] \in LoadState /\ Compiled(p) \in [Ids -> Doc]
  BY CompiledType, TypeParts DEF PodTypes
<1>2. load[p].file \in Contents \cup {Unread, Unreadable}
  BY <1>1 DEF LoadState
<1>3. \A id \in Ids : Serve(Compiled(p)[id], load[p].file) \in Served
  BY <1>1, <1>2, ServeType
<1> QED BY <1>1, <1>3 DEF LoadState, SnapState

\* A step of the write path.
LEMMA WriteStoreType == ASSUME TypeOK, WriteStore PROVE TypeOK'
<1>1. AdminTypeOK'
  <2>1. AdminTypeOK /\ AdminNext
    BY TypeParts DEF WriteStore, AdminNext
  <2> QED BY <2>1, NextType
<1>2. PodTypes'
  <2>1. acked' \in [Ids -> SUBSET Pods]
    BY TypeParts DEF WriteStore, PodTypes
  <2> QED BY <2>1, TypeParts DEF WriteStore, PodTypes
<1> QED BY <1>1, <1>2, TypeParts

\* A rebuild takes one more step before it swaps.
LEMMA RebuildStep ==
  ASSUME TypeOK, NEW p \in Pods, NEW l \in LoadState,
         load' = [load EXCEPT ![p] = l],
         UNCHANGED <<adminVars, snap, cache, body, misread, acked>>
  PROVE  TypeOK'
<1>1. AdminTypeOK'
  BY TypeParts DEF AdminTypeOK, adminVars
<1>2. PodTypes'
  BY TypeParts DEF PodTypes
<1> QED BY <1>1, <1>2, TypeParts

\* What the steps of a rebuild make of its record.
LEMMA LoadWith ==
  ASSUME NEW l \in LoadState, NEW id \in Ids, NEW d \in Doc, NEW c \in Contents
  PROVE  /\ [l EXCEPT !.unread = @ \ {id}, !.docs[id] = d] \in LoadState
         /\ [l EXCEPT !.unread = @ \ {id}, !.docs[id] = d].pc = l.pc
         /\ [l EXCEPT !.unread = @ \ {id}, !.docs[id] = d].for = l.for
         /\ [l EXCEPT !.unread = @ \ {id}, !.docs[id] = d].epoch = l.epoch
         /\ [l EXCEPT !.unread = @ \ {id}, !.docs[id] = d].unread = l.unread \ {id}
         /\ [l EXCEPT !.unread = @ \ {id}, !.docs[id] = d].docs = [l.docs EXCEPT ![id] = d]
         /\ [l EXCEPT !.unread = @ \ {id}, !.docs[id] = d].file = l.file
         /\ [l EXCEPT !.unread = @ \ {id}, !.docs[id] = d].settings = l.settings
         /\ [l EXCEPT !.file = c] \in LoadState
         /\ [l EXCEPT !.file = c].pc = l.pc /\ [l EXCEPT !.file = c].for = l.for
         /\ [l EXCEPT !.file = c].epoch = l.epoch /\ [l EXCEPT !.file = c].docs = l.docs
         /\ [l EXCEPT !.file = c].unread = l.unread /\ [l EXCEPT !.file = c].file = c
         /\ [l EXCEPT !.file = c].settings = l.settings
         /\ [l EXCEPT !.pc = "swap", !.settings = c] \in LoadState
         /\ [l EXCEPT !.pc = "swap", !.settings = c].pc = "swap"
         /\ [l EXCEPT !.pc = "swap", !.settings = c].for = l.for
         /\ [l EXCEPT !.pc = "swap", !.settings = c].epoch = l.epoch
         /\ [l EXCEPT !.pc = "swap", !.settings = c].docs = l.docs
         /\ [l EXCEPT !.pc = "swap", !.settings = c].unread = l.unread
         /\ [l EXCEPT !.pc = "swap", !.settings = c].file = l.file
         /\ [l EXCEPT !.pc = "swap", !.settings = c].settings = c
<1>1. \A x : x \in LoadState => x.docs \in [Ids -> Doc]
  BY DEF LoadState
<1> QED BY <1>1 DEF LoadState

\* Neither a rebuild, a splice nor a crash leaves a variable out of shape.
LEMMA PodStepType ==
  ASSUME TypeOK,
         \/ \E p \in Pods : Poll(p) \/ Resync(p) \/ Rebuild(p) \/ RebuildFails(p) \/ Crash(p)
         \/ \E r \in Requests : Update(r)
  PROVE  TypeOK'
<1>t. /\ AdminTypeOK /\ PodTypes
      /\ load \in [Pods -> LoadState] /\ docs \in [Ids -> Doc] /\ epoch \in Nat
      /\ file \in Contents /\ settings \in Contents /\ req \in [Requests -> AdminReq]
  BY TypeParts DEF PodTypes, AdminTypeOK
<1>1. ASSUME NEW p \in Pods, NEW for \in SUBSET Requests, BeginRebuild(p, for) PROVE TypeOK'
  BY <1>1, <1>t, LoadType, RebuildStep DEF BeginRebuild
<1>2. ASSUME NEW p \in Pods, ScanStub(p) PROVE TypeOK'
  <2>1. PICK id \in load[p].unread :
          load' = [load EXCEPT ![p].unread = @ \ {id}, ![p].docs[id] = docs[id]]
    BY <1>2 DEF ScanStub
  <2>2. PICK l \in LoadState : l = load[p]
    BY <1>t
  <2>3. id \in Ids /\ docs[id] \in Doc
    BY <1>t, <2>2 DEF LoadState
  <2>4. load' = [load EXCEPT ![p] = [l EXCEPT !.unread = @ \ {id}, !.docs[id] = docs[id]]]
    BY <1>t, <2>1, <2>2
  <2>5. [l EXCEPT !.unread = @ \ {id}, !.docs[id] = docs[id]] \in LoadState
    BY <2>3, <1>t, LoadWith
  <2> QED BY <1>2, <2>4, <2>5, RebuildStep DEF ScanStub
<1>3. ASSUME NEW p \in Pods, ScanFile(p) PROVE TypeOK'
  <2>1. [load[p] EXCEPT !.file = file] \in LoadState
    BY <1>t DEF LoadState
  <2>2. load' = [load EXCEPT ![p] = [load[p] EXCEPT !.file = file]]
    BY <1>3, <1>t DEF ScanFile
  <2> QED BY <1>3, <2>1, <2>2, RebuildStep DEF ScanFile
<1>4. ASSUME NEW p \in Pods, LoadSettings(p) PROVE TypeOK'
  <2>1. [load[p] EXCEPT !.pc = "swap", !.settings = settings] \in LoadState
    BY ZenonT(40), <1>t DEF LoadState
  <2>2. load' = [load EXCEPT ![p] = [load[p] EXCEPT !.pc = "swap", !.settings = settings]]
    BY <1>4, <1>t DEF LoadSettings
  <2> QED BY <1>4, <2>1, <2>2, RebuildStep DEF LoadSettings
<1>n. NoLoad \in LoadState
  BY <1>t, LoadType
<1>5. ASSUME NEW p \in Pods, Swap(p) PROVE TypeOK'
  <2>1. AdminTypeOK'
    BY <1>5, <1>t, RequestsEnd DEF Swap, Release, AdminTypeOK
  <2>2. /\ cache' = [cache EXCEPT ![p] = Compiled(p)]
        /\ Compiled(p) \in [Ids -> Doc]
    BY <1>5, <1>t, CompiledType DEF Swap
  <2>3. snap' \in [Pods -> SnapState]
    BY <1>5, <1>t, SwappedType DEF Swap, PodTypes
  <2>4. PodTypes'
    BY <1>5, <1>t, <1>n, <2>2, <2>3 DEF Swap, Release, PodTypes
  <2> QED BY <2>1, <2>4, TypeParts
<1>6. ASSUME NEW p \in Pods, RebuildFails(p) PROVE TypeOK'
  <2>1. AdminTypeOK'
    BY <1>6, <1>t, FaultType, RequestsEnd DEF RebuildFails, Release, AdminTypeOK
  <2>2. PodTypes'
    BY <1>6, <1>t, <1>n DEF RebuildFails, Release, PodTypes
  <2> QED BY <2>1, <2>2, TypeParts
<1>7. ASSUME NEW p \in Pods, Crash(p) PROVE TypeOK'
  <2>1. AdminTypeOK'
    <3>1. req' = [r \in Requests |-> IF r \in {q \in Requests : PodOf[q] = p} THEN IdleReq ELSE req[r]]
      BY <1>7 DEF Crash
    <3> QED BY <1>7, <1>t, <3>1, FaultType, RequestsEnd DEF Crash, AdminTypeOK
  <2>2. PICK l \in LoadState : load' = [load EXCEPT ![p] = l]
    BY <1>7, <1>t, LoadType DEF Crash
  <2>3. /\ snap' \in [Pods -> SnapState] /\ cache' \in [Pods -> [Ids -> Doc]]
        /\ load' \in [Pods -> LoadState] /\ misread' \in [Pods -> SUBSET Ids]
    <3>1. /\ snap' = [snap EXCEPT ![p] = EmptySnapshot]
          /\ cache' = [cache EXCEPT ![p] = Nothing]
          /\ misread' = [misread EXCEPT ![p] = {}]
      BY <1>7 DEF Crash
    <3>2. /\ snap \in [Pods -> SnapState] /\ cache \in [Pods -> [Ids -> Doc]]
          /\ load \in [Pods -> LoadState] /\ misread \in [Pods -> SUBSET Ids]
      BY <1>t DEF PodTypes
    <3>3. Nothing \in [Ids -> Doc]
      BY DocType
    <3> QED BY <2>2, <3>1, <3>2, <3>3, EmptySnapshotType
  <2>4. body' \in [Requests -> Contents \cup {Unread, Unreadable}] /\ acked' \in [Ids -> SUBSET Pods]
    BY <1>7, <1>t DEF Crash, PodTypes
  <2>5. PodTypes'
    BY <2>3, <2>4 DEF PodTypes
  <2> QED BY <2>1, <2>5, TypeParts
<1>8. ASSUME NEW r \in Requests, SpliceBodyFile(r) PROVE TypeOK'
  <2>1. faults' \in Nat
    BY <1>8, <1>t, FaultType DEF SpliceBodyFile, AdminTypeOK
  <2>2. AdminTypeOK'
    BY <1>8, <1>t, <2>1 DEF SpliceBodyFile, AdminTypeOK, shared
  <2>3. PodTypes'
    BY <1>8, <1>t DEF SpliceBodyFile, PodTypes
  <2> QED BY <2>2, <2>3, TypeParts
<1>9. ASSUME NEW r \in Requests, NEW id \in Ids, NEW doc \in Doc,
             NEW contents \in Contents \cup {Unread, Unreadable}, Install(r, id, doc, contents)
      PROVE  TypeOK'
  <2>1. AdminTypeOK'
    <3>1. req' \in [Requests -> AdminReq]
      BY <1>9, <1>t, IdleReqType DEF Install
    <3> QED BY <1>9, <1>t, <3>1 DEF Install, AdminTypeOK, shared
  <2>2. PodOf[r] \in Pods
    BY ServingAssumption
  <2>3. snap' \in [Pods -> SnapState]
    <3>1. PICK s : s = Serve(doc, contents)
      OBVIOUS
    <3>2. s \in Served
      BY <3>1, ServeType
    <3>3. snap' = [snap EXCEPT ![PodOf[r]].stubs[id] = s] /\ snap \in [Pods -> SnapState]
      BY <1>9, <1>t, <3>1 DEF Install, PodTypes
    <3> QED BY <2>2, <3>2, <3>3 DEF SnapState
  <2>4. misread' \in [Pods -> SUBSET Ids]
    BY <1>9, <1>t, <2>2 DEF Install, PodTypes
  <2>5. acked' \in [Ids -> SUBSET Pods]
    BY <1>9, <1>t, <2>2 DEF Install, PodTypes
  <2>6. PodTypes'
    BY <1>9, <1>t, <2>3, <2>4, <2>5 DEF Install, PodTypes
  <2> QED BY <2>1, <2>6, TypeParts
<1>10. ASSUME NEW r \in Requests, SpliceStub(r) \/ SpliceDelete(r) PROVE TypeOK'
  <2>1. /\ req[r].keys \subseteq Ids /\ req[r].doc \in Doc
        /\ body[r] \in Contents \cup {Unread, Unreadable}
        /\ 0 \in Contents
    BY <1>t, AdminAssumption DEF AdminReq, PodTypes
  <2> QED BY <1>9, <1>10, <2>1, DocType DEF SpliceStub, SpliceDelete
<1>11. \A r \in Requests : PodOf[r] \in Pods /\ {r} \in SUBSET Requests /\ {} \in SUBSET Requests
  BY ServingAssumption
<1>12. ASSUME NEW p \in Pods, Poll(p) \/ Resync(p) \/ Rebuild(p) \/ RebuildFails(p) \/ Crash(p)
       PROVE  TypeOK'
  BY <1>1, <1>2, <1>3, <1>4, <1>5, <1>6, <1>7, <1>12 DEF Poll, Resync, Rebuild
<1>13. ASSUME NEW r \in Requests, Update(r) PROVE TypeOK'
  BY <1>1, <1>8, <1>10, <1>11, <1>13 DEF Update, AdminRebuild
<1> QED BY <1>12, <1>13

LEMMA NextTypes == TypeOK /\ [Next]_vars => TypeOK'
<1>1. TypeOK /\ UNCHANGED vars => TypeOK'
  <2>1. AdminTypeOK /\ UNCHANGED vars => AdminTypeOK'
    BY DEF vars, adminVars, AdminTypeOK
  <2>2. PodTypes /\ UNCHANGED vars => PodTypes'
    BY DEF vars, podVars, PodTypes
  <2> QED BY <2>1, <2>2, TypeParts
<1> QED BY <1>1, WriteStoreType, PodStepType DEF Next

\* Every variable keeps its shape, however writes, rebuilds, splices and crashes
\* interleave.
THEOREM ServingTypes == Spec => []TypeOK
BY InitTypes, NextTypes, PTL DEF Spec

-----------------------------------------------------------------------------
(* The replicas.                                                            *)

\* What every step keeps: a snapshot and a rebuild carry an epoch that was, and a
\* request whose replica works on its snapshot has nothing else to do.
PodFits(p) ==
  /\ snap[p].epoch <= epoch /\ load[p].epoch <= epoch
  /\ load[p].pc = "swap" => load[p].unread = {} /\ load[p].file # Unread
  /\ \A r \in load[p].for : PodOf[r] = p /\ req[r].pc = "answer" /\ req[r].op \in Rebuilders

BodyFits(r) ==
  body[r] # Unread => /\ req[r].pc = "answer" /\ req[r].op \in {"create", "update"}

BaseInv ==
  /\ TypeOK
  /\ \A p \in Pods : PodFits(p)
  /\ \A r \in Requests : /\ BodyFits(r) /\ KeyFits(r, req[r])
                         /\ OnlyOwn => OwnFits(r, req[r])

LEMMA InitBase == Init => BaseInv
<1> SUFFICES ASSUME Init PROVE BaseInv
  OBVIOUS
<1>1. TypeOK
  BY InitTypes
<1>2. \A r \in Requests : /\ BodyFits(r) /\ KeyFits(r, req[r]) /\ OwnFits(r, req[r])
  BY IdleReqFits DEF Init, AdminInit, BodyFits
<1>3. EmptySnapshot.epoch = 0 /\ NoLoad.epoch = 0 /\ NoLoad.pc = "idle" /\ NoLoad.for = {}
  BY DEF EmptySnapshot, NoLoad
<1>4. \A p \in Pods : PodFits(p)
  BY <1>3 DEF Init, AdminInit, PodFits
<1> QED BY <1>1, <1>2, <1>4 DEF BaseInv

\* What a step of the write path does, whoever takes it.
LEMMA StoreEffect ==
  ASSUME BaseInv, WriteStore
  PROVE  \/ \E r \in Requests : Effect(r)
         \/ \E id \in Ids : Expire(id)
<1>1. AdminTypeOK
  BY TypeParts DEF BaseInv
<1> QED BY <1>1, ArriveEffect, StoreCallEffect, AbandonEffect DEF WriteStore, AdminStep, BaseInv

LEMMA StoreBase == ASSUME BaseInv, WriteStore PROVE BaseInv'
<1>t. TypeOK' /\ epoch \in Nat
  BY WriteStoreType, TypeParts DEF BaseInv, AdminTypeOK
<1>1. epoch <= epoch'
  <2>1. ASSUME NEW r \in Requests, Effect(r) PROVE epoch' = epoch \/ epoch' = epoch + 1
    BY <2>1 DEF Effect
  <2>2. ASSUME NEW id \in Ids, Expire(id) PROVE epoch' = epoch
    BY <2>2 DEF Expire
  <2> QED BY <1>t, <2>1, <2>2, StoreEffect
<1>2. \A r \in Requests : KeyFits(r, req'[r]) /\ (OnlyOwn => OwnFits(r, req'[r]))
  BY StoreEffect DEF Effect, Expire, BaseInv
<1>3. \A r \in Requests : Updating(r) => req'[r] = req[r]
  BY DEF WriteStore
<1>4. \A r \in Requests : BodyFits(r)'
  BY <1>3 DEF BaseInv, BodyFits, Updating, WriteStore
<1>5. ASSUME NEW p \in Pods PROVE PodFits(p)'
  <2>1. load' = load /\ snap' = snap /\ PodFits(p)
    BY DEF WriteStore, BaseInv
  <2>2. load[p].epoch \in Nat /\ snap[p].epoch \in Nat /\ load[p].for \subseteq Requests /\ epoch' \in Nat
    BY <1>t, TypeParts DEF BaseInv, PodTypes, LoadState, SnapState, AdminTypeOK
  <2>3. \A r \in load[p].for : req'[r] = req[r]
    BY <1>3, <2>2 DEF Updating
  <2> QED BY <1>1, <1>t, <2>1, <2>2, <2>3 DEF PodFits
<1>6. \A r \in Requests : /\ KeyFits(r, req[r])'
                          /\ (OnlyOwn => OwnFits(r, req[r]))'
  BY <1>2 DEF KeyFits, OwnFits, OnlyOwn
<1> QED BY <1>t, <1>4, <1>5, <1>6 DEF BaseInv

\* What a rebuild is when it has just begun.
LEMMA BeginIs ==
  ASSUME PodTypes, NEW p \in Pods, NEW for, BeginRebuild(p, for)
  PROVE  /\ \A q \in Pods : q # p => load'[q] = load[q]
         /\ load'[p].pc = "scan" /\ load'[p].epoch = epoch /\ load'[p].for = for
         /\ load'[p].unread = Ids /\ load'[p].file = Unread
         /\ UNCHANGED <<adminVars, snap, cache, body, misread, acked>>
         /\ load[p].pc = "idle"
BY DEF BeginRebuild, MutexFree, NoLoad, PodTypes

\* What one more read makes of it: what it holds is as old as it was, or as the
\* store is now.
ScanIs(p) ==
  /\ \A q \in Pods : q # p => load'[q] = load[q]
  /\ load'[p].for = load[p].for /\ load'[p].epoch = load[p].epoch
  /\ load[p].pc = "scan" /\ load'[p].pc \in {"scan", "swap"}
  /\ load'[p].pc = "swap" => /\ load'[p].unread = {} /\ load'[p].file # Unread
                             /\ load'[p].settings = settings
  /\ \A id \in Ids : \/ id \in load'[p].unread
                     \/ load'[p].docs[id] = docs[id]
                     \/ id \notin load[p].unread /\ load'[p].docs[id] = load[p].docs[id]
  /\ load'[p].file \in {load[p].file, file}
  /\ UNCHANGED <<adminVars, snap, cache, body, misread, acked>>

LEMMA RebuildIs ==
  ASSUME TypeOK, NEW p \in Pods, ScanStub(p) \/ ScanFile(p) \/ LoadSettings(p)
  PROVE  ScanIs(p)
<1>t. /\ load \in [Pods -> LoadState] /\ load[p] \in LoadState /\ docs \in [Ids -> Doc]
      /\ file \in Contents /\ settings \in Contents
  BY TypeParts DEF PodTypes, AdminTypeOK
<1>d. PICK l \in LoadState, d \in [Ids -> Doc], f \in Contents, s \in Contents :
        l = load[p] /\ d = docs /\ f = file /\ s = settings
  BY <1>t
<1>1. CASE ScanStub(p)
  <2>1. PICK id \in load[p].unread :
          load' = [load EXCEPT ![p].unread = @ \ {id}, ![p].docs[id] = docs[id]]
    BY <1>1 DEF ScanStub
  <2>2. id \in Ids /\ docs[id] \in Doc /\ l.docs \in [Ids -> Doc]
    BY <1>t, <1>d, <2>1 DEF LoadState
  <2> DEFINE m == [l EXCEPT !.unread = @ \ {id}, !.docs[id] = docs[id]]
  <2>3. load' = [load EXCEPT ![p] = m]
    BY <1>t, <1>d, <2>1
  <2>4. /\ m.pc = l.pc /\ m.for = l.for /\ m.epoch = l.epoch /\ m.unread = l.unread \ {id}
        /\ m.docs = [l.docs EXCEPT ![id] = docs[id]] /\ m.file = l.file
    <3>1. PICK e \in Doc : e = docs[id]
      BY <2>2
    <3> QED BY <2>2, <3>1 DEF LoadState
  <2> HIDE DEF m
  <2>5. load'[p] = m /\ \A q \in Pods : q # p => load'[q] = load[q]
    BY <1>t, <2>3
  <2>6. /\ l.pc = "scan"
        /\ UNCHANGED <<adminVars, snap, cache, body, misread, acked>>
    BY <1>1, <1>d DEF ScanStub
  <2>7. ASSUME NEW i \in Ids
        PROVE  \/ i \in m.unread
               \/ m.docs[i] = docs[i]
               \/ (i \notin l.unread /\ m.docs[i] = l.docs[i])
    <3>1. CASE i = id
      BY <2>2, <2>4, <3>1
    <3>2. CASE i # id
      BY <2>2, <2>4, <3>2
    <3> QED BY <3>1, <3>2
  <2> QED BY <1>d, <2>4, <2>5, <2>6, <2>7 DEF ScanIs
<1>2. CASE ScanFile(p)
  <2> DEFINE m == [l EXCEPT !.file = file]
  <2>1. load' = [load EXCEPT ![p] = m]
    BY <1>t, <1>d, <1>2 DEF ScanFile
  <2>2. /\ m.pc = l.pc /\ m.for = l.for /\ m.epoch = l.epoch /\ m.unread = l.unread
        /\ m.docs = l.docs /\ m.file = file
    BY <1>t DEF LoadState
  <2> HIDE DEF m
  <2>3. load'[p] = m /\ \A q \in Pods : q # p => load'[q] = load[q]
    BY <1>t, <2>1
  <2> QED BY <1>2, <1>d, <2>2, <2>3 DEF ScanIs, ScanFile
<1>3. CASE LoadSettings(p)
  <2> DEFINE m == [l EXCEPT !.pc = "swap", !.settings = settings]
  <2>1. load' = [load EXCEPT ![p] = m]
    BY <1>t, <1>d, <1>3 DEF LoadSettings
  <2>2. /\ m.pc = "swap" /\ m.for = l.for /\ m.epoch = l.epoch /\ m.unread = l.unread
        /\ m.docs = l.docs /\ m.file = l.file /\ m.settings = settings
    BY <1>t DEF LoadState
  <2> HIDE DEF m
  <2>3. load'[p] = m /\ \A q \in Pods : q # p => load'[q] = load[q]
    BY <1>t, <2>1
  <2> QED BY <1>3, <1>d, <2>2, <2>3 DEF ScanIs, LoadSettings
<1> QED BY <1>1, <1>2, <1>3

\* A rebuild that is over, and the requests that asked for it.
LEMMA EndIs ==
  ASSUME TypeOK, NEW p \in Pods, Release(p)
  PROVE  /\ \A q \in Pods : q # p => load'[q] = load[q]
         /\ load'[p].pc = "idle" /\ load'[p].for = {} /\ load'[p].epoch = 0
         /\ \A r \in Requests : req'[r] = IF r \in load[p].for THEN IdleReq ELSE req[r]
<1>1. load \in [Pods -> LoadState]
  BY TypeParts DEF PodTypes
<1> QED BY <1>1 DEF Release, NoLoad

LEMMA SpliceIs ==
  ASSUME BaseInv, NEW r \in Requests, SpliceStub(r) \/ SpliceDelete(r)
  PROVE  \E id \in IdsOf[r], contents \in Contents \cup {Unread, Unreadable} :
           /\ req[r].keys = {id} /\ req[r].op \in SpliceOps /\ req[r].pc = "answer"
           /\ MutexFree(PodOf[r])
           /\ Install(r, id, Target(req[r]), contents)
           /\ (req[r].op # "delete" /\ req[r].doc.text \in FileTexts) =>
                contents = body[r] /\ contents # Unread
<1>t. /\ KeyFits(r, req[r]) /\ 0 \in Contents
      /\ body[r] \in Contents \cup {Unread, Unreadable}
  BY AdminAssumption, TypeParts DEF BaseInv, PodTypes
<1>1. CASE SpliceStub(r)
  <2>1. PICK id \in req[r].keys : Install(r, id, req[r].doc, body[r])
    BY <1>1 DEF SpliceStub
  <2>2. /\ req[r].op \in {"create", "update"} /\ req[r].pc = "answer" /\ MutexFree(PodOf[r])
        /\ req[r].doc.text \in FileTexts => body[r] # Unread
    BY <1>1 DEF SpliceStub, Splices
  <2>3. id \in IdsOf[r] /\ req[r].keys = {id}
    BY <1>t, <2>1, <2>2 DEF KeyFits, SpliceOps
  <2> QED BY <1>t, <2>1, <2>2, <2>3 DEF Target, SpliceOps
<1>2. CASE SpliceDelete(r)
  <2>1. PICK id \in req[r].keys : Install(r, id, NoDoc, 0)
    BY <1>2 DEF SpliceDelete
  <2>2. req[r].op = "delete" /\ req[r].pc = "answer" /\ MutexFree(PodOf[r])
    BY <1>2 DEF SpliceDelete, Splices
  <2>3. id \in IdsOf[r] /\ req[r].keys = {id}
    BY <1>t, <2>1, <2>2 DEF KeyFits, SpliceOps
  <2> QED BY <1>t, <2>1, <2>2, <2>3 DEF Target, SpliceOps
<1> QED BY <1>1, <1>2

\* The steps of a replica, as the invariants see them.
PodCases ==
  \/ \E p \in Pods, for \in SUBSET Requests :
       /\ BeginRebuild(p, for)
       /\ \A r \in for : PodOf[r] = p /\ req[r].pc = "answer" /\ req[r].op \in Rebuilders
  \/ \E p \in Pods : ScanIs(p) \/ Swap(p) \/ RebuildFails(p) \/ Crash(p)
  \/ \E r \in Requests : SpliceBodyFile(r) \/ SpliceStub(r) \/ SpliceDelete(r)

LEMMA PodSteps ==
  ASSUME BaseInv, [Next]_vars
  PROVE  WriteStore \/ PodCases \/ UNCHANGED vars
<1>1. ASSUME NEW p \in Pods, Poll(p) \/ Resync(p) PROVE PodCases
  BY <1>1 DEF Poll, Resync, PodCases
<1>2. ASSUME NEW r \in Requests, AdminRebuild(r) PROVE PodCases
  <2>1. PodOf[r] \in Pods /\ {r} \in SUBSET Requests
    BY ServingAssumption
  <2> QED BY <1>2, <2>1 DEF AdminRebuild, PodCases
<1>3. ASSUME NEW p \in Pods, Rebuild(p) PROVE PodCases
  BY <1>3, RebuildIs DEF Rebuild, PodCases, BaseInv
<1>4. ASSUME NEW p \in Pods, RebuildFails(p) \/ Crash(p) PROVE PodCases
  BY <1>4 DEF PodCases
<1>5. ASSUME NEW r \in Requests, SpliceBodyFile(r) \/ SpliceStub(r) \/ SpliceDelete(r)
      PROVE  PodCases
  BY <1>5 DEF PodCases
<1> QED BY <1>1, <1>2, <1>3, <1>4, <1>5 DEF Next, Update

\* Requests that end satisfy everything that is said of a request.
LEMMA EndsFit ==
  ASSUME BaseInv, \A r \in Requests : req'[r] = IdleReq \/ req'[r] = req[r]
  PROVE  \A r \in Requests : KeyFits(r, req[r])' /\ (OnlyOwn => OwnFits(r, req[r]))'
<1>1. \A r \in Requests : KeyFits(r, req'[r]) /\ (OnlyOwn => OwnFits(r, req'[r]))
  BY IdleReqFits DEF BaseInv
<1> QED BY <1>1 DEF KeyFits, OwnFits, OnlyOwn

LEMMA PodBase == ASSUME BaseInv, TypeOK', PodCases PROVE BaseInv'
<1>t. /\ load \in [Pods -> LoadState] /\ epoch \in Nat /\ snap \in [Pods -> SnapState]
      /\ req \in [Requests -> AdminReq] /\ body \in [Requests -> Contents \cup {Unread, Unreadable}]
      /\ TypeOK /\ PodTypes
  BY TypeParts DEF BaseInv, PodTypes, AdminTypeOK
<1>p. \A p \in Pods : PodFits(p) /\ load[p].for \subseteq Requests /\ load[p].epoch \in Nat
  BY <1>t DEF BaseInv, LoadState
<1>b. \A r \in Requests : BodyFits(r) /\ PodOf[r] \in Pods
  BY ServingAssumption DEF BaseInv
<1>s. SpliceOps \cap Rebuilders = {} /\ IdleReq.pc = "idle"
  BY IdleReqFits DEF SpliceOps, Rebuilders
<1>1. ASSUME NEW p \in Pods, NEW for \in SUBSET Requests, BeginRebuild(p, for),
             \A r \in for : PodOf[r] = p /\ req[r].pc = "answer" /\ req[r].op \in Rebuilders
      PROVE  (\A q \in Pods : PodFits(q)') /\ \A r \in Requests : BodyFits(r)' /\ req'[r] = req[r]
  BY <1>1, <1>t, <1>p, <1>b, BeginIs DEF PodFits, BodyFits, adminVars
<1>2. ASSUME NEW p \in Pods, ScanIs(p)
      PROVE  (\A q \in Pods : PodFits(q)') /\ \A r \in Requests : BodyFits(r)' /\ req'[r] = req[r]
  BY <1>2, <1>t, <1>p, <1>b DEF ScanIs, PodFits, BodyFits, adminVars
<1>3. ASSUME NEW p \in Pods, Release(p), UNCHANGED <<epoch, body>>, 
             \A q \in Pods : snap'[q].epoch = snap[q].epoch \/ snap'[q].epoch = load[q].epoch
      PROVE  /\ \A q \in Pods : PodFits(q)'
             /\ \A r \in Requests : BodyFits(r)' /\ (req'[r] = IdleReq \/ req'[r] = req[r])
  <2>1. /\ \A q \in Pods : q # p => load'[q] = load[q]
        /\ load'[p].pc = "idle" /\ load'[p].for = {} /\ load'[p].epoch = 0
        /\ \A r \in Requests : req'[r] = IF r \in load[p].for THEN IdleReq ELSE req[r]
    BY <1>t, <1>3, EndIs
  <2>2. \A r \in Requests : BodyFits(r)'
    <3> SUFFICES ASSUME NEW r \in Requests, body[r] # Unread
                 PROVE  req'[r].pc = "answer" /\ req'[r].op \in {"create", "update"}
      BY <1>3 DEF BodyFits
    <3>1. req[r].pc = "answer" /\ req[r].op \in {"create", "update"}
      BY <1>b DEF BodyFits
    <3>2. r \notin load[p].for
      BY <1>p, <3>1 DEF PodFits, Rebuilders
    <3> QED BY <2>1, <3>1, <3>2
  <2>3. ASSUME NEW q \in Pods PROVE PodFits(q)'
    <3>1. snap'[q].epoch <= epoch' /\ load'[q].epoch <= epoch'
      BY <1>3, <1>t, <1>p, <2>1 DEF PodFits
    <3>2. load'[q].pc = "swap" => load'[q].unread = {} /\ load'[q].file # Unread
      BY <1>p, <2>1 DEF PodFits
    <3>3. ASSUME NEW r \in load'[q].for
          PROVE  PodOf[r] = q /\ req'[r].pc = "answer" /\ req'[r].op \in Rebuilders
      <4>1. q # p /\ r \in load[q].for /\ r \in Requests
        BY <1>p, <2>1, <3>3
      <4>2. r \notin load[p].for
        BY <1>p, <4>1 DEF PodFits
      <4> QED BY <1>p, <2>1, <4>1, <4>2 DEF PodFits
    <3> QED BY <3>1, <3>2, <3>3 DEF PodFits
  <2> QED BY <2>1, <2>2, <2>3
<1>4. ASSUME NEW p \in Pods, Crash(p)
      PROVE  /\ \A q \in Pods : PodFits(q)'
             /\ \A r \in Requests : BodyFits(r)' /\ (req'[r] = IdleReq \/ req'[r] = req[r])
  <2>1. /\ epoch' = epoch
        /\ \A r \in Requests : req'[r] = IF PodOf[r] = p THEN IdleReq ELSE req[r]
        /\ \A r \in Requests : body'[r] = IF PodOf[r] = p THEN Unread ELSE body[r]
    BY <1>4 DEF Crash, shared
  <2>2. /\ \A q \in Pods : q # p => load'[q] = load[q] /\ snap'[q] = snap[q]
        /\ load'[p].pc = "scan" /\ load'[p].for = {} /\ load'[p].epoch = epoch
        /\ snap'[p].epoch = 0
    BY <1>4, <1>t DEF Crash, NoLoad, EmptySnapshot
  <2>3. \A r \in Requests : BodyFits(r)'
    BY <1>b, <2>1 DEF BodyFits
  <2>4. ASSUME NEW q \in Pods PROVE PodFits(q)'
    <3>1. CASE q = p
      BY <1>t, <2>1, <2>2, <3>1 DEF PodFits
    <3>2. CASE q # p
      <4>1. \A r \in load[q].for : req'[r] = req[r]
        BY <1>p, <2>1, <3>2 DEF PodFits
      <4> QED BY <1>p, <2>1, <2>2, <3>2, <4>1 DEF PodFits
    <3> QED BY <3>1, <3>2
  <2> QED BY <2>1, <2>3, <2>4
<1>5. ASSUME NEW r \in Requests, SpliceBodyFile(r)
      PROVE  (\A q \in Pods : PodFits(q)') /\ \A q \in Requests : BodyFits(q)' /\ req'[q] = req[q]
  <2>1. /\ load' = load /\ snap' = snap /\ req' = req /\ epoch' = epoch
        /\ \A q \in Requests : q # r => body'[q] = body[q]
        /\ req[r].pc = "answer" /\ req[r].op \in {"create", "update"}
    BY <1>5, <1>t DEF SpliceBodyFile, shared
  <2> QED BY <1>p, <1>b, <2>1 DEF PodFits, BodyFits
<1>6. ASSUME NEW r \in Requests, SpliceStub(r) \/ SpliceDelete(r)
      PROVE  /\ \A q \in Pods : PodFits(q)'
             /\ \A q \in Requests : BodyFits(q)' /\ (req'[q] = IdleReq \/ req'[q] = req[q])
  <2>1. PICK id \in IdsOf[r], contents \in Contents \cup {Unread, Unreadable} :
          /\ Install(r, id, Target(req[r]), contents)
          /\ req[r].op \in SpliceOps
    BY <1>6, SpliceIs
  <2>2. /\ load' = load /\ epoch' = epoch
        /\ \A q \in Requests : req'[q] = IF q = r THEN IdleReq ELSE req[q]
        /\ \A q \in Requests : body'[q] = IF q = r THEN Unread ELSE body[q]
    BY <1>t, <2>1 DEF Install, shared
  <2>3. \A q \in Pods : snap'[q].epoch = snap[q].epoch
    BY <1>t, <2>1 DEF Install, SnapState
  <2>4. \A q \in Pods : r \notin load[q].for
    BY <1>p, <1>s, <2>1 DEF PodFits
  <2>5. \A q \in Pods : PodFits(q)'
    BY <1>p, <2>2, <2>3, <2>4 DEF PodFits
  <2> QED BY <1>b, <2>2, <2>5 DEF BodyFits
<1>7. ASSUME NEW p \in Pods, Swap(p) \/ RebuildFails(p)
      PROVE  /\ \A q \in Pods : PodFits(q)'
             /\ \A r \in Requests : BodyFits(r)' /\ (req'[r] = IdleReq \/ req'[r] = req[r])
  <2>1. Release(p) /\ UNCHANGED <<epoch, body>>
    BY <1>7 DEF Swap, RebuildFails, shared
  <2>2. \A q \in Pods : snap'[q].epoch = snap[q].epoch \/ snap'[q].epoch = load[q].epoch
    BY <1>7, <1>t DEF Swap, RebuildFails
  <2> QED BY <1>3, <2>1, <2>2
<1>8. /\ \A q \in Pods : PodFits(q)'
      /\ \A r \in Requests : BodyFits(r)' /\ (req'[r] = IdleReq \/ req'[r] = req[r])
  BY <1>1, <1>2, <1>4, <1>5, <1>6, <1>7 DEF PodCases
<1> QED BY <1>8, EndsFit DEF BaseInv

LEMMA NextBase == BaseInv /\ [Next]_vars => BaseInv'
<1> SUFFICES ASSUME BaseInv, [Next]_vars PROVE BaseInv'
  OBVIOUS
<1>1. TypeOK'
  BY NextTypes DEF BaseInv
<1>2. CASE UNCHANGED vars
  BY <1>1, <1>2 DEF vars, adminVars, podVars, BaseInv, PodFits, BodyFits, KeyFits, OwnFits, OnlyOwn
<1> QED BY <1>1, <1>2, PodSteps, StoreBase, PodBase

-----------------------------------------------------------------------------
(* Read your writes.  While the store holds what a replica acknowledged,    *)
(* the replica's snapshot serves it, its rebuild has not read the stub yet  *)
(* or has read the same, and a splice still under way would install the     *)
(* same.                                                                    *)

FileInv ==
  \A r \in Requests : body[r] \in {Unread, Unreadable, file} \/ FileTexts = {}

LoadHas(p, id) ==
  load[p].pc # "idle" =>
    /\ id \in load[p].unread \/ load[p].docs[id] = docs[id]
    /\ docs[id].text \in FileTexts => load[p].file \in {Unread, file}

AckInv == \A id \in Ids : \A p \in acked[id] : Reflects(p, id) /\ LoadHas(p, id)

PutFits(r, rec) ==
  (rec.pc \in {"bump", "answer"} /\ rec.op \in SpliceOps) =>
    \A id \in rec.keys : docs[id] = Target(rec) \/ acked[id] = {}

PutInv == \A r \in Requests : PutFits(r, req[r])

\* Two documents of the same mapping are served alike.
LEMMA ServedAlike ==
  ASSUME NEW d, NEW e, NEW f, NEW g, d.text = e.text, d.persistent = e.persistent,
         d.text \in FileTexts => f = g
  PROVE  /\ Serve(d, f).text = Serve(e, g).text
         /\ Serve(d, f).persistent = Serve(e, g).persistent
         /\ Serve(d, f).body = Serve(e, g).body
BY DEF Serve

\* A cached compilation is of the document read.
LEMMA CompiledAlike ==
  ASSUME NEW p \in Pods, NEW id \in Ids
  PROVE  /\ Compiled(p)[id].text = load[p].docs[id].text
         /\ Compiled(p)[id].persistent = load[p].docs[id].persistent
BY DEF Compiled, Hit

\* What a swap serves, when nothing it read has changed.
LEMMA SwapReflects ==
  ASSUME TypeOK, NEW p \in Pods, NEW id \in Ids, Swap(p),
         load[p].docs[id] = docs[id], docs[id].text \in FileTexts => load[p].file = file
  PROVE  Reflects(p, id)'
<1>1. snap'[p].stubs[id] = Serve(Compiled(p)[id], load[p].file)
  BY TypeParts DEF Swap, PodTypes
<1>2. docs' = docs /\ file' = file
  BY DEF Swap, shared
<1>3. /\ Serve(Compiled(p)[id], load[p].file).text = Serve(docs[id], file).text
      /\ Serve(Compiled(p)[id], load[p].file).persistent = Serve(docs[id], file).persistent
      /\ Serve(Compiled(p)[id], load[p].file).body = Serve(docs[id], file).body
  BY CompiledAlike, ServedAlike
<1>4. Serve(docs'[id], file') = Serve(docs[id], file)
  BY <1>2
<1> QED BY <1>1, <1>3, <1>4 DEF Reflects

\* What a splice serves, when the store holds it.
LEMMA InstallReflects ==
  ASSUME BaseInv, FileInv, NEW r \in Requests, NEW id \in Ids,
         NEW contents \in Contents \cup {Unread, Unreadable},
         Install(r, id, Target(req[r]), contents), docs[id] = Target(req[r]),
         (req[r].op # "delete" /\ req[r].doc.text \in FileTexts) =>
           contents = body[r] /\ contents # Unread
  PROVE  Reflects(PodOf[r], id)'
<1> DEFINE p == PodOf[r]
<1>t. p \in Pods /\ snap \in [Pods -> SnapState] /\ misread \in [Pods -> SUBSET Ids]
  BY ServingAssumption, TypeParts DEF BaseInv, PodTypes
<1>1. snap'[p].stubs[id] = Serve(docs[id], contents)
  <2>1. PICK s : s = Serve(docs[id], contents)
    OBVIOUS
  <2>2. snap' = [snap EXCEPT ![p].stubs[id] = s]
    BY <2>1 DEF Install
  <2> QED BY <1>t, <2>1, <2>2 DEF SnapState
<1>2. misread'[p] = IF contents = Unreadable THEN misread[p] \cup {id} ELSE misread[p] \ {id}
  BY <1>t DEF Install
<1>3. docs' = docs /\ file' = file
  BY DEF Install, shared
<1>4. docs[id].text \in FileTexts => contents \in {Unreadable, file}
  <2>1. NoDoc.text \notin FileTexts
    BY AdminAssumption, ServingAssumption DEF NoDoc
  <2>2. docs[id].text \in FileTexts => contents = body[r] /\ contents # Unread
    BY <2>1 DEF Target
  <2> QED BY <2>2 DEF FileInv
<1> HIDE DEF p
<1>5. contents # Unreadable => Serve(docs[id], contents).body = Serve(docs[id], file).body
  BY <1>4, ServedAlike
<1>6. /\ Serve(docs[id], contents).text = Serve(docs[id], file).text
      /\ Serve(docs[id], contents).persistent = Serve(docs[id], file).persistent
  BY DEF Serve
<1>7. Serve(docs'[id], file') = Serve(docs[id], file)
  BY <1>3
<1>8. Reflects(p, id)'
  BY <1>1, <1>2, <1>5, <1>6, <1>7 DEF Reflects
<1> QED BY <1>8 DEF p

\* A splice changes one stub of one snapshot.
LEMMA InstallOthers ==
  ASSUME PodTypes, NEW r \in Requests, NEW id \in Ids, NEW doc, NEW contents,
         Install(r, id, doc, contents), NEW q \in Pods, NEW j \in Ids,
         q # PodOf[r] \/ j # id
  PROVE  Reflects(q, j)' <=> Reflects(q, j)
<1>1. PICK s : s = Serve(doc, contents)
  OBVIOUS
<1>2. snap' = [snap EXCEPT ![PodOf[r]].stubs[id] = s] /\ snap \in [Pods -> SnapState]
  BY <1>1 DEF Install, PodTypes
<1>3. snap'[q].stubs[j] = snap[q].stubs[j]
  BY <1>2 DEF SnapState
<1>4. j \in misread'[q] <=> j \in misread[q]
  BY DEF Install, PodTypes
<1>5. docs' = docs /\ file' = file
  BY DEF Install, shared
<1>6. Serve(docs'[j], file') = Serve(docs[j], file)
  BY <1>5
<1> QED BY <1>3, <1>4, <1>6 DEF Reflects

\* No write of the body file gets between the read of a splice and its end.
LEMMA FileInductive ==
  ASSUME FilesApart, BaseInv, FileInv, [Next]_vars
  PROVE  FileInv'
<1>1. CASE WriteStore
  <2>1. CASE file' = file
    BY <1>1, <2>1 DEF FileInv, WriteStore
  <2>2. CASE file' # file
    <3>1. PICK r \in Requests : req[r].op = "file" /\ req[r].pc = "write"
      <4>1. \A id \in Ids : Expire(id) => file' = file
        BY DEF Expire
      <4>2. \A r \in Requests : Effect(r) => req[r].op = "file" /\ req[r].pc = "write"
        BY <2>2 DEF Effect
      <4> QED BY <1>1, <2>2, <4>1, <4>2, StoreEffect
    <3>2. "file" \in Ops
      BY <3>1 DEF BaseInv, KeyFits
    <3>3. CASE FileTexts = {}
      BY <3>3 DEF FileInv
    <3>4. CASE \A q, p \in Requests : q = p
      <4>1. body[r] = Unread
        BY <3>1 DEF BaseInv, BodyFits
      <4>2. \A q \in Requests : body'[q] = Unread
        BY <1>1, <3>1, <3>4, <4>1 DEF WriteStore
      <4> QED BY <4>2 DEF FileInv
    <3> QED BY <3>2, <3>3, <3>4 DEF FilesApart
  <2> QED BY <2>1, <2>2
<1>2. CASE PodCases
  <2>t. body \in [Requests -> Contents \cup {Unread, Unreadable}]
    BY TypeParts DEF BaseInv, PodTypes
  <2>1. ASSUME NEW p \in Pods, NEW for \in SUBSET Requests, BeginRebuild(p, for) PROVE FileInv'
    BY <2>1 DEF BeginRebuild, adminVars, FileInv
  <2>2. ASSUME NEW p \in Pods, ScanIs(p) \/ Swap(p) \/ RebuildFails(p) PROVE FileInv'
    BY <2>2 DEF ScanIs, Swap, RebuildFails, adminVars, shared, FileInv
  <2>3. ASSUME NEW p \in Pods, Crash(p) PROVE FileInv'
    BY <2>3 DEF Crash, shared, FileInv
  <2>4. ASSUME NEW r \in Requests, SpliceBodyFile(r) PROVE FileInv'
    BY <2>t, <2>4 DEF SpliceBodyFile, shared, FileInv
  <2>5. ASSUME NEW r \in Requests, SpliceStub(r) \/ SpliceDelete(r) PROVE FileInv'
    <3>1. body' = [body EXCEPT ![r] = Unread] /\ file' = file
      BY <2>5 DEF SpliceStub, SpliceDelete, Install, shared
    <3> QED BY <2>t, <3>1 DEF FileInv
  <2> QED BY <1>2, <2>1, <2>2, <2>3, <2>4, <2>5 DEF PodCases
<1>3. CASE UNCHANGED vars
  BY <1>3 DEF vars, adminVars, podVars, FileInv
<1> QED BY <1>1, <1>2, <1>3, PodSteps

\* What a pod acknowledged changes with the store only to be forgotten.
LEMMA StoreAcks ==
  ASSUME BaseInv, AckInv, PutInv, WriteStore
  PROVE  AckInv' /\ PutInv'
<1>t. acked \in [Ids -> SUBSET Pods]
  BY TypeParts DEF BaseInv, PodTypes
<1>1. \A id \in Ids : acked'[id] =
        IF docs'[id] = docs[id] /\ (file' = file \/ docs[id].text \notin FileTexts)
          THEN acked[id] ELSE {}
  BY DEF WriteStore
<1>2. ASSUME NEW id \in Ids, NEW p \in acked'[id]
      PROVE  Reflects(p, id)' /\ LoadHas(p, id)'
  <2>1. /\ docs'[id] = docs[id] /\ (file' = file \/ docs[id].text \notin FileTexts)
        /\ p \in acked[id]
    BY <1>1, <1>2
  <2>2. Reflects(p, id) /\ LoadHas(p, id) /\ snap' = snap /\ misread' = misread /\ load' = load
    BY <2>1 DEF AckInv, WriteStore
  <2>3. /\ Serve(docs[id], file).text = Serve(docs[id], file').text
        /\ Serve(docs[id], file).persistent = Serve(docs[id], file').persistent
        /\ Serve(docs[id], file).body = Serve(docs[id], file').body
    BY <2>1, ServedAlike
  <2>4. Reflects(p, id)'
    BY <2>1, <2>2, <2>3 DEF Reflects
  <2>5. LoadHas(p, id)'
    BY <2>1, <2>2 DEF LoadHas
  <2> QED BY <2>4, <2>5
<1>3. ASSUME NEW q \in Requests, req'[q].pc \in {"bump", "answer"}, req'[q].op \in SpliceOps,
             NEW id \in req'[q].keys
      PROVE  docs'[id] = Target(req'[q]) \/ acked'[id] = {}
  <2>0. id \in Ids
    <3>1. req' \in [Requests -> AdminReq]
      BY WriteStoreType, TypeParts DEF BaseInv, AdminTypeOK
    <3> QED BY <1>3, <3>1 DEF AdminReq
  <2>1. CASE req'[q] = req[q]
    <3>1. docs[id] = Target(req[q]) \/ acked[id] = {}
      BY <1>3, <2>1 DEF PutInv, PutFits
    <3> QED BY <1>1, <2>0, <2>1, <3>1
  <2>2. CASE req'[q] # req[q]
    <3>1. Effect(q)
      <4>1. \A i \in Ids : Expire(i) => req' = req
        BY DEF Expire
      <4>2. \A r \in Requests : Effect(r) => r = q
        BY <2>2 DEF Effect
      <4> QED BY <2>2, <4>1, <4>2, StoreEffect
    <3>2. \/ /\ req[q].pc \in {"bump", "answer"} /\ req[q].op = req'[q].op
             /\ req[q].keys = req'[q].keys /\ req[q].doc = req'[q].doc /\ docs' = docs
          \/ docs'[id] = Target(req'[q])
      BY <1>3, <3>1 DEF Effect
    <3>3. CASE /\ req[q].pc \in {"bump", "answer"} /\ req[q].op = req'[q].op
               /\ req[q].keys = req'[q].keys /\ req[q].doc = req'[q].doc /\ docs' = docs
      <4>1. docs[id] = Target(req[q]) \/ acked[id] = {}
        BY <1>3, <3>3 DEF PutInv, PutFits
      <4>2. Target(req'[q]) = Target(req[q])
        BY <3>3 DEF Target
      <4> QED BY <1>1, <2>0, <3>3, <4>1, <4>2
    <3> QED BY <3>2, <3>3
  <2> QED BY <2>1, <2>2
<1>4. AckInv'
  BY <1>2 DEF AckInv
<1>5. PutInv'
  BY <1>3 DEF PutInv, PutFits, Target
<1> QED BY <1>4, <1>5

\* A step of a replica leaves what it has acknowledged served.
LEMMA PodAcks ==
  ASSUME ClientsApart, BaseInv, FileInv, AckInv, PutInv, PodCases
  PROVE  AckInv' /\ PutInv'
<1>t. /\ load \in [Pods -> LoadState] /\ snap \in [Pods -> SnapState]
      /\ req \in [Requests -> AdminReq] /\ misread \in [Pods -> SUBSET Ids]
      /\ acked \in [Ids -> SUBSET Pods] /\ TypeOK /\ PodTypes
      /\ \A r \in Requests : PodOf[r] \in Pods /\ IdsOf[r] \subseteq Ids
  BY ServingAssumption, AdminAssumption, TypeParts DEF BaseInv, PodTypes, AdminTypeOK
\* The store stands still, and no request gets into a splice.
<1>a. ASSUME UNCHANGED shared, \A id \in Ids : acked'[id] \subseteq acked[id],
             \A r \in Requests : req'[r] = req[r] \/ req'[r] = IdleReq
      PROVE  PutInv'
  <2> SUFFICES ASSUME NEW r \in Requests, req'[r].pc \in {"bump", "answer"},
                      req'[r].op \in SpliceOps, NEW id \in req'[r].keys
               PROVE  docs'[id] = Target(req'[r]) \/ acked'[id] = {}
    BY DEF PutInv, PutFits, Target
  <2>1. req'[r] = req[r]
    BY <1>a, IdleReqFits
  <2>2. id \in Ids
    BY <1>t, <2>1 DEF AdminReq
  <2>3. docs[id] = Target(req[r]) \/ acked[id] = {}
    BY <2>1 DEF PutInv, PutFits
  <2> QED BY <1>a, <2>1, <2>2, <2>3 DEF shared
<1>r. ASSUME NEW q \in Pods, NEW id \in Ids, snap'[q] = snap[q], misread'[q] = misread[q],
             UNCHANGED shared
      PROVE  Reflects(q, id)' <=> Reflects(q, id)
  <2>1. Serve(docs'[id], file') = Serve(docs[id], file)
    BY <1>r DEF shared
  <2> QED BY <1>r, <2>1 DEF Reflects
<1>l. ASSUME NEW q \in Pods, NEW id \in Ids, load'[q] = load[q], UNCHANGED shared
      PROVE  LoadHas(q, id)' <=> LoadHas(q, id)
  BY <1>l DEF LoadHas, shared
<1>1. ASSUME NEW p \in Pods, NEW for, BeginRebuild(p, for) PROVE AckInv' /\ PutInv'
  <2>1. /\ \A q \in Pods : q # p => load'[q] = load[q]
        /\ load'[p].unread = Ids /\ load'[p].file = Unread
        /\ UNCHANGED <<adminVars, snap, cache, body, misread, acked>>
    BY <1>1, <1>t, BeginIs
  <2>2. UNCHANGED shared /\ req' = req
    BY <2>1 DEF adminVars, shared
  <2>3. ASSUME NEW id \in Ids, NEW q \in acked'[id] PROVE Reflects(q, id)' /\ LoadHas(q, id)'
    <3>1. q \in Pods /\ Reflects(q, id) /\ LoadHas(q, id)
      BY <1>t, <2>1, <2>3 DEF AckInv
    <3>2. LoadHas(q, id)'
      BY <1>l, <2>1, <2>2, <3>1 DEF LoadHas
    <3> QED BY <1>r, <2>1, <2>2, <3>1, <3>2
  <2> QED BY <1>a, <2>1, <2>2, <2>3 DEF AckInv
<1>2. ASSUME NEW p \in Pods, ScanIs(p) PROVE AckInv' /\ PutInv'
  <2>1. UNCHANGED shared /\ req' = req /\ UNCHANGED <<snap, misread, acked>>
    BY <1>2 DEF ScanIs, adminVars, shared
  <2>2. ASSUME NEW id \in Ids, NEW q \in acked'[id] PROVE Reflects(q, id)' /\ LoadHas(q, id)'
    <3>1. q \in Pods /\ Reflects(q, id) /\ LoadHas(q, id)
      BY <1>t, <2>1, <2>2 DEF AckInv
    <3>2. CASE q # p
      BY <1>2, <1>l, <1>r, <2>1, <3>1, <3>2 DEF ScanIs
    <3>3. CASE q = p
      <4>1. load[p].pc # "idle"
        BY <1>2 DEF ScanIs
      <4>2. id \in load'[p].unread \/ load'[p].docs[id] = docs[id]
        BY <1>2, <3>1, <3>3, <4>1 DEF ScanIs, LoadHas
      <4>3. docs[id].text \in FileTexts => load'[p].file \in {Unread, file}
        BY <1>2, <3>1, <3>3, <4>1 DEF ScanIs, LoadHas
      <4>4. LoadHas(p, id)'
        BY <2>1, <4>2, <4>3 DEF LoadHas, shared
      <4> QED BY <1>r, <2>1, <3>1, <3>3, <4>4
    <3> QED BY <3>2, <3>3
  <2> QED BY <1>a, <2>1, <2>2 DEF AckInv
<1>3. ASSUME NEW p \in Pods, Release(p), UNCHANGED <<shared, acked>>,
             \A q \in Pods : q # p => snap'[q] = snap[q] /\ misread'[q] = misread[q],
             \A id \in Ids : p \in acked[id] => Reflects(p, id)'
      PROVE  AckInv' /\ PutInv'
  <2>1. /\ \A q \in Pods : q # p => load'[q] = load[q]
        /\ load'[p].pc = "idle"
        /\ \A r \in Requests : req'[r] = IF r \in load[p].for THEN IdleReq ELSE req[r]
    BY <1>3, <1>t, EndIs
  <2>2. ASSUME NEW id \in Ids, NEW q \in acked'[id] PROVE Reflects(q, id)' /\ LoadHas(q, id)'
    <3>1. q \in Pods /\ q \in acked[id] /\ Reflects(q, id) /\ LoadHas(q, id)
      BY <1>t, <1>3, <2>2 DEF AckInv
    <3>2. CASE q # p
      BY <1>3, <1>l, <1>r, <2>1, <3>1, <3>2
    <3>3. CASE q = p
      <4>1. LoadHas(p, id)'
        BY <2>1 DEF LoadHas
      <4> QED BY <1>3, <3>1, <3>3, <4>1
    <3> QED BY <3>2, <3>3
  <2> QED BY <1>a, <1>3, <2>1, <2>2 DEF AckInv
<1>4. ASSUME NEW p \in Pods, Swap(p) PROVE AckInv' /\ PutInv'
  <2>1. ASSUME NEW id \in Ids, p \in acked[id] PROVE Reflects(p, id)'
    <3>1. LoadHas(p, id) /\ PodFits(p) /\ load[p].pc = "swap"
      BY <1>4, <2>1 DEF AckInv, BaseInv, Swap
    <3> QED BY <1>4, <1>t, <3>1, SwapReflects DEF LoadHas, PodFits
  <2>2. /\ Release(p) /\ UNCHANGED <<shared, acked>>
        /\ \A q \in Pods : q # p => snap'[q] = snap[q] /\ misread'[q] = misread[q]
    BY <1>4, <1>t DEF Swap
  <2> QED BY <1>3, <2>1, <2>2
<1>5. ASSUME NEW p \in Pods, RebuildFails(p) PROVE AckInv' /\ PutInv'
  <2>1. Release(p) /\ UNCHANGED <<shared, acked>> /\ UNCHANGED <<snap, misread>>
    BY <1>5 DEF RebuildFails
  <2>2. ASSUME NEW id \in Ids, p \in acked[id] PROVE Reflects(p, id)'
    BY <1>r, <2>1, <2>2 DEF AckInv
  <2> QED BY <1>3, <2>1, <2>2
<1>6. ASSUME NEW p \in Pods, Crash(p) PROVE AckInv' /\ PutInv'
  <2>1. /\ UNCHANGED shared
        /\ \A r \in Requests : req'[r] = IF PodOf[r] = p THEN IdleReq ELSE req[r]
        /\ \A id \in Ids : acked'[id] = acked[id] \ {p}
        /\ \A q \in Pods : q # p => /\ load'[q] = load[q] /\ snap'[q] = snap[q]
                                    /\ misread'[q] = misread[q]
    BY <1>6, <1>t DEF Crash
  <2>2. ASSUME NEW id \in Ids, NEW q \in acked'[id] PROVE Reflects(q, id)' /\ LoadHas(q, id)'
    <3>1. q \in Pods /\ q # p /\ Reflects(q, id) /\ LoadHas(q, id)
      BY <1>t, <2>1, <2>2 DEF AckInv
    <3> QED BY <1>l, <1>r, <2>1, <3>1
  <2>3. PutInv'
    BY <1>a, <2>1
  <2> QED BY <2>2, <2>3 DEF AckInv
<1>7. ASSUME NEW r \in Requests, SpliceBodyFile(r) PROVE AckInv' /\ PutInv'
  <2>1. UNCHANGED shared /\ req' = req /\ UNCHANGED <<snap, load, misread, acked>>
    BY <1>7 DEF SpliceBodyFile
  <2>2. ASSUME NEW id \in Ids, NEW q \in acked'[id] PROVE Reflects(q, id)' /\ LoadHas(q, id)'
    <3>1. q \in Pods /\ Reflects(q, id) /\ LoadHas(q, id)
      BY <1>t, <2>1, <2>2 DEF AckInv
    <3> QED BY <1>l, <1>r, <2>1, <3>1
  <2> QED BY <1>a, <2>1, <2>2 DEF AckInv
<1>8. ASSUME NEW r \in Requests, SpliceStub(r) \/ SpliceDelete(r) PROVE AckInv' /\ PutInv'
  <2>1. PICK id \in IdsOf[r], contents \in Contents \cup {Unread, Unreadable} :
           /\ req[r].keys = {id} /\ req[r].op \in SpliceOps /\ req[r].pc = "answer"
           /\ MutexFree(PodOf[r])
           /\ Install(r, id, Target(req[r]), contents)
           /\ (req[r].op # "delete" /\ req[r].doc.text \in FileTexts) =>
                contents = body[r] /\ contents # Unread
    BY <1>8, SpliceIs
  <2>2. id \in Ids /\ PodOf[r] \in Pods
    BY <1>t
  <2>3. /\ UNCHANGED shared /\ load' = load
        /\ \A q \in Requests : req'[q] = IF q = r THEN IdleReq ELSE req[q]
        /\ \A j \in Ids : j # id => acked'[j] = acked[j]
        /\ acked'[id] = IF docs[id] = Target(req[r]) THEN acked[id] \cup {PodOf[r]} ELSE acked[id]
    BY <1>t, <2>1, <2>2 DEF Install
  <2>4. docs[id] = Target(req[r]) \/ acked[id] = {}
    BY <2>1 DEF PutInv, PutFits
  <2>5. ASSUME NEW j \in Ids, NEW q \in acked'[j] PROVE Reflects(q, j)' /\ LoadHas(q, j)'
    <3>1. CASE j = id /\ q = PodOf[r]
      <4>1. docs[id] = Target(req[r])
        BY <2>3, <2>4, <2>5, <3>1
      <4>2. Reflects(PodOf[r], id)'
        BY <2>1, <2>2, <4>1, InstallReflects
      <4>3. LoadHas(PodOf[r], id)'
        BY <2>1, <2>3 DEF LoadHas, MutexFree
      <4> QED BY <3>1, <4>2, <4>3
    <3>2. CASE j # id \/ q # PodOf[r]
      <4>1. q \in acked[j] /\ q \in Pods
        BY <1>t, <2>3, <2>5, <3>2
      <4>2. Reflects(q, j) /\ LoadHas(q, j)
        BY <4>1 DEF AckInv
      <4>3. Reflects(q, j)'
        BY <1>t, <2>1, <2>2, <3>2, <4>1, <4>2, InstallOthers
      <4> QED BY <1>l, <2>3, <4>1, <4>2, <4>3
    <3> QED BY <3>1, <3>2
  <2>6. ASSUME NEW q \in Requests, req'[q].pc \in {"bump", "answer"},
               req'[q].op \in SpliceOps, NEW j \in req'[q].keys
        PROVE  docs'[j] = Target(req'[q]) \/ acked'[j] = {}
    <3>1. q # r /\ req'[q] = req[q]
      BY <2>3, <2>6, IdleReqFits
    <3>2. j \in IdsOf[q]
      BY <2>6, <3>1 DEF BaseInv, KeyFits
    <3>3. j # id /\ j \in Ids
      BY <1>t, <2>1, <3>1, <3>2 DEF ClientsApart
    <3>4. docs[j] = Target(req[q]) \/ acked[j] = {}
      BY <2>6, <3>1 DEF PutInv, PutFits
    <3> QED BY <2>3, <3>1, <3>3, <3>4 DEF shared
  <2> QED BY <2>5, <2>6 DEF AckInv, PutInv, PutFits, Target
<1> QED BY <1>1, <1>2, <1>4, <1>5, <1>6, <1>7, <1>8 DEF PodCases

AckedInv == BaseInv /\ FileInv /\ AckInv /\ PutInv

LEMMA InitAcked == Init => AckedInv
<1> SUFFICES ASSUME Init PROVE AckedInv
  OBVIOUS
<1>1. BaseInv
  BY InitBase
<1>2. FileInv /\ AckInv /\ PutInv
  BY IdleReqFits DEF Init, AdminInit, FileInv, AckInv, PutInv, PutFits
<1> QED BY <1>1, <1>2 DEF AckedInv

LEMMA NextAcked ==
  ASSUME ClientsApart, FilesApart, AckedInv, [Next]_vars
  PROVE  AckedInv'
<1>1. BaseInv' /\ FileInv'
  BY NextBase, FileInductive DEF AckedInv
<1>2. CASE UNCHANGED vars
  <2>1. AckInv' /\ PutInv'
    BY <1>2 DEF vars, adminVars, podVars, AckedInv, AckInv, PutInv, PutFits, Target,
                LoadHas, Reflects, Serve
  <2> QED BY <1>1, <2>1 DEF AckedInv
<1> QED BY <1>1, <1>2, PodSteps, StoreAcks, PodAcks DEF AckedInv

\* A replica serves what it has acknowledged for as long as the store holds it,
\* whatever its rebuilds had read by then, for any number of replicas, faults and
\* clients with ids of their own, bulk operations and expiry among them, where no
\* body file is written while a splice has read it (Builder.SpliceStub).
THEOREM AcknowledgedIsServed ==
  ASSUME ClientsApart, FilesApart
  PROVE  Spec => []ReadYourWrites
<1>1. AckedInv => ReadYourWrites
  BY DEF AckedInv, AckInv, ReadYourWrites
<1>2. AckedInv /\ [Next]_vars => AckedInv'
  BY NextAcked
<1> QED BY <1>1, <1>2, InitAcked, PTL DEF Spec

-----------------------------------------------------------------------------
(* A replica with nothing left to reload serves what the store holds.  A    *)
(* snapshot or a rebuild with the store's epoch has missed nothing, unless  *)
(* a change is still to be announced; and a splice installs what the store  *)
(* holds, because nobody else writes the stub between the splice's write    *)
(* and its end.                                                             *)

HeldInv ==
  \A r \in Requests :
    (req[r].pc \in {"bump", "answer"} /\ req[r].op \in SpliceOps) =>
      \A id \in req[r].keys : docs[id] = Target(req[r])

\* Every change has been announced.
Still == ~unsignalled /\ \A r \in Requests : ~Pending(req[r])

SnapInv == \A p \in Pods : (snap[p].epoch = epoch /\ Still) => Agrees(p)

LoadAgrees(p) ==
  /\ \A id \in Ids : id \in load[p].unread \/ load[p].docs[id] = docs[id]
  /\ load[p].file \in {Unread, file}
  /\ load[p].pc = "swap" => load[p].settings = settings

LoadInv ==
  \A p \in Pods : (load[p].pc # "idle" /\ load[p].epoch = epoch /\ Still) => LoadAgrees(p)

SettledInv == BaseInv /\ FileInv /\ HeldInv /\ SnapInv /\ LoadInv

LEMMA StoreHeld ==
  ASSUME SplicesApart, BaseInv, HeldInv, WriteStore
  PROVE  HeldInv'
<1>t. req' \in [Requests -> AdminReq] /\ docs \in [Ids -> Doc]
  BY WriteStoreType, TypeParts DEF BaseInv, AdminTypeOK
<1> SUFFICES ASSUME NEW q \in Requests, req'[q].pc \in {"bump", "answer"},
                    req'[q].op \in SpliceOps, NEW id \in req'[q].keys
             PROVE  docs'[id] = Target(req'[q])
  BY DEF HeldInv, Target
<1>0. id \in Ids
  BY <1>t DEF AdminReq
<1>1. ASSUME NEW r \in Requests, Effect(r) PROVE docs'[id] = Target(req'[q])
  <2>1. CASE q = r
    <3>1. CASE \A i \in req'[q].keys : docs'[i] = Target(req'[q])
      BY <3>1
    <3>2. CASE /\ req[q].pc \in {"bump", "answer"} /\ req[q].op = req'[q].op
               /\ req[q].keys = req'[q].keys /\ req[q].doc = req'[q].doc /\ docs' = docs
      <4>1. docs[id] = Target(req[q])
        BY <3>2 DEF HeldInv
      <4> QED BY <3>2, <4>1 DEF Target
    <3> QED BY <1>1, <2>1, <3>1, <3>2 DEF Effect
  <2>2. CASE q # r
    <3>1. req'[q] = req[q] /\ OnlyOwn
      BY <1>1, <2>2 DEF Effect, SplicesApart
    <3>2. id \in IdsOf[q]
      BY <3>1 DEF BaseInv, KeyFits
    <3>3. id \notin IdsOf[r]
      BY <2>2, <3>1, <3>2 DEF OnlyOwn, ClientsApart
    <3>4. docs'[id] = docs[id]
      BY <1>0, <1>1, <3>1, <3>3 DEF Effect
    <3>5. docs[id] = Target(req[q])
      BY <3>1 DEF HeldInv
    <3> QED BY <3>1, <3>4, <3>5
  <2> QED BY <2>1, <2>2
<1>2. ASSUME NEW i \in Ids, Expire(i) PROVE docs'[id] = Target(req'[q])
  <2>1. req' = req /\ docs' = [docs EXCEPT ![i] = NoDoc] /\ i \notin req[q].keys
    BY <1>2 DEF Expire
  <2>2. docs'[id] = docs[id]
    BY <1>t, <1>0, <2>1
  <2> QED BY <2>1, <2>2 DEF HeldInv
<1> QED BY <1>1, <1>2, StoreEffect

\* A write leaves no snapshot and no rebuild with the store's epoch that it did
\* not itself leave unannounced.
LEMMA StoreSettled ==
  ASSUME BaseInv, SnapInv, LoadInv, WriteStore
  PROVE  SnapInv' /\ LoadInv'
<1>t. /\ epoch \in Nat /\ \A p \in Pods : snap[p].epoch \in Nat /\ load[p].epoch \in Nat
      /\ unsignalled \in BOOLEAN
  BY TypeParts DEF BaseInv, PodTypes, LoadState, SnapState, AdminTypeOK
<1>1. \A p \in Pods : snap[p].epoch <= epoch /\ load[p].epoch <= epoch
  BY DEF BaseInv, PodFits
<1>2. UNCHANGED <<snap, load, misread>>
  BY DEF WriteStore
<1>3. epoch' = epoch + 1 \/ ~Still' \/ (epoch' = epoch /\ Still /\ UNCHANGED <<docs, file, settings>>)
  <2>1. ASSUME NEW r \in Requests, Effect(r), epoch' # epoch + 1, Still'
        PROVE  epoch' = epoch /\ Still /\ UNCHANGED <<docs, file, settings>>
    <3>1. epoch' = epoch /\ ~unsignalled' /\ (unsignalled => unsignalled')
      BY <2>1 DEF Effect, Still
    <3>2. \A q \in Requests : ~Pending(req'[q])
      BY <2>1 DEF Still, Pending
    <3>3. Pending(req[r]) => Pending(req'[r])
      BY <2>1, <3>1 DEF Effect
    <3>4. \A q \in Requests : ~Pending(req[q])
      BY <2>1, <3>2, <3>3 DEF Effect
    <3>5. UNCHANGED <<docs, file, settings>>
      BY <2>1, <3>2 DEF Effect
    <3> QED BY <3>1, <3>4, <3>5 DEF Still
  <2>2. \A id \in Ids : Expire(id) => ~Still'
    BY DEF Expire, Still
  <2> QED BY <2>1, <2>2, StoreEffect
<1>4. CASE epoch' = epoch + 1
  <2>1. \A p \in Pods : snap'[p].epoch # epoch' /\ load'[p].epoch # epoch'
    BY <1>t, <1>1, <1>2, <1>4
  <2> QED BY <2>1 DEF SnapInv, LoadInv
<1>5. CASE ~Still'
  BY <1>5 DEF SnapInv, LoadInv
<1>6. CASE epoch' = epoch /\ Still /\ UNCHANGED <<docs, file, settings>>
  <2>1. SnapInv'
    BY <1>2, <1>6 DEF SnapInv, Agrees, Reflects, Serve
  <2>2. LoadInv'
    BY <1>2, <1>6 DEF LoadInv, LoadAgrees
  <2> QED BY <2>1, <2>2
<1> QED BY <1>3, <1>4, <1>5, <1>6

LEMMA PodSettled ==
  ASSUME SettledInv, PodCases
  PROVE  HeldInv' /\ SnapInv' /\ LoadInv'
<1>t. /\ load \in [Pods -> LoadState] /\ snap \in [Pods -> SnapState]
      /\ req \in [Requests -> AdminReq] /\ misread \in [Pods -> SUBSET Ids]
      /\ TypeOK /\ PodTypes /\ BaseInv /\ unsignalled \in BOOLEAN
      /\ \A r \in Requests : PodOf[r] \in Pods /\ IdsOf[r] \subseteq Ids
  BY ServingAssumption, AdminAssumption, TypeParts DEF SettledInv, BaseInv, PodTypes, AdminTypeOK
\* No request gets into a splice, and none that has something to announce ends.
<1>h. ASSUME UNCHANGED docs, \A r \in Requests : req'[r] = req[r] \/ req'[r] = IdleReq
      PROVE  HeldInv'
  <2> SUFFICES ASSUME NEW r \in Requests, req'[r].pc \in {"bump", "answer"},
                      req'[r].op \in SpliceOps, NEW id \in req'[r].keys
               PROVE  docs'[id] = Target(req'[r])
    BY DEF HeldInv, Target
  <2>1. req'[r] = req[r]
    BY <1>h, IdleReqFits
  <2> QED BY <1>h, <2>1 DEF SettledInv, HeldInv
<1>c. ASSUME UNCHANGED unsignalled,
             \A r \in Requests : req'[r] = req[r] \/ req[r].pc = "answer"
      PROVE  Still' => Still
  BY <1>c DEF Still, Pending
<1>r. ASSUME NEW q \in Pods, snap'[q] = snap[q], misread'[q] = misread[q], UNCHANGED shared,
             Still' => Still
      PROVE  (snap'[q].epoch = epoch' /\ Still') => Agrees(q)'
  <2>1. \A id \in Ids : Serve(docs'[id], file') = Serve(docs[id], file)
    BY <1>r DEF shared
  <2>2. \A id \in Ids : Reflects(q, id)' <=> Reflects(q, id)
    BY <1>r, <2>1 DEF Reflects
  <2>3. (snap[q].epoch = epoch /\ Still) => Agrees(q)
    BY DEF SettledInv, SnapInv
  <2> QED BY <1>r, <2>2, <2>3 DEF Agrees, shared
<1>l. ASSUME NEW q \in Pods, load'[q] = load[q], UNCHANGED shared, Still' => Still
      PROVE  (load'[q].pc # "idle" /\ load'[q].epoch = epoch' /\ Still') => LoadAgrees(q)'
  <2>1. (load[q].pc # "idle" /\ load[q].epoch = epoch /\ Still) => LoadAgrees(q)
    BY DEF SettledInv, LoadInv
  <2>2. LoadAgrees(q)' <=> LoadAgrees(q)
    BY <1>l DEF LoadAgrees, shared
  <2> QED BY <1>l, <2>1, <2>2 DEF shared
<1>1. ASSUME NEW p \in Pods, NEW for, BeginRebuild(p, for) PROVE HeldInv' /\ SnapInv' /\ LoadInv'
  <2>1. /\ \A q \in Pods : q # p => load'[q] = load[q]
        /\ load'[p].pc = "scan" /\ load'[p].unread = Ids /\ load'[p].file = Unread
        /\ UNCHANGED <<adminVars, snap, cache, body, misread, acked>>
    BY <1>1, <1>t, BeginIs
  <2>2. UNCHANGED shared /\ req' = req /\ UNCHANGED unsignalled
    BY <2>1 DEF adminVars, shared
  <2>3. (Still' => Still) /\ HeldInv'
    BY <1>c, <1>h, <2>2 DEF shared
  <2>4. LoadAgrees(p)'
    BY <2>1 DEF LoadAgrees
  <2>5. SnapInv' /\ LoadInv'
    BY <1>l, <1>r, <2>1, <2>2, <2>3, <2>4 DEF SnapInv, LoadInv
  <2> QED BY <2>3, <2>5
<1>2. ASSUME NEW p \in Pods, ScanIs(p) PROVE HeldInv' /\ SnapInv' /\ LoadInv'
  <2>1. UNCHANGED shared /\ req' = req /\ UNCHANGED <<unsignalled, snap, misread>>
    BY <1>2 DEF ScanIs, adminVars, shared
  <2>2. (Still' => Still) /\ HeldInv'
    BY <1>c, <1>h, <2>1 DEF shared
  <2>3. (load'[p].epoch = epoch' /\ Still') => LoadAgrees(p)'
    <3>1. (load'[p].epoch = epoch' /\ Still') => LoadAgrees(p)
      BY <1>2, <2>1, <2>2 DEF ScanIs, SettledInv, LoadInv, shared
    <3>2. LoadAgrees(p) => LoadAgrees(p)'
      BY <1>2, <2>1 DEF ScanIs, LoadAgrees, shared
    <3> QED BY <3>1, <3>2
  <2>4. \A q \in Pods : q # p => load'[q] = load[q]
    BY <1>2 DEF ScanIs
  <2>5. SnapInv' /\ LoadInv'
    BY <1>l, <1>r, <2>1, <2>2, <2>3, <2>4 DEF SnapInv, LoadInv
  <2> QED BY <2>2, <2>5
<1>3. ASSUME NEW p \in Pods, Release(p), UNCHANGED <<shared, unsignalled>>,
             \A q \in Pods : q # p => snap'[q] = snap[q] /\ misread'[q] = misread[q],
             Still' /\ Still /\ snap'[p].epoch = epoch' => Agrees(p)'
      PROVE  HeldInv' /\ SnapInv' /\ LoadInv'
  <2>1. /\ \A q \in Pods : q # p => load'[q] = load[q]
        /\ load'[p].pc = "idle"
        /\ \A r \in Requests : req'[r] = IF r \in load[p].for THEN IdleReq ELSE req[r]
    BY <1>3, <1>t, EndIs
  <2>2. \A r \in load[p].for : req[r].pc = "answer"
    BY <1>t DEF BaseInv, PodFits
  <2>3. (Still' => Still) /\ HeldInv'
    BY <1>3, <1>c, <1>h, <2>1, <2>2 DEF shared
  <2>4. SnapInv' /\ LoadInv'
    BY <1>3, <1>l, <1>r, <2>1, <2>3 DEF SnapInv, LoadInv
  <2> QED BY <2>3, <2>4
<1>4. ASSUME NEW p \in Pods, Swap(p) PROVE HeldInv' /\ SnapInv' /\ LoadInv'
  <2>1. /\ Release(p) /\ UNCHANGED <<shared, unsignalled>> /\ load[p].pc = "swap"
        /\ \A q \in Pods : q # p => snap'[q] = snap[q] /\ misread'[q] = misread[q]
        /\ snap'[p].epoch = load[p].epoch /\ snap'[p].settings = load[p].settings
    BY <1>4, <1>t DEF Swap
  <2>2. ASSUME Still, snap'[p].epoch = epoch' PROVE Agrees(p)'
    <3>1. LoadAgrees(p)
      BY <2>1, <2>2 DEF SettledInv, LoadInv, shared
    <3>2. load[p].unread = {} /\ load[p].file # Unread
      BY <1>t, <2>1 DEF BaseInv, PodFits
    <3>3. \A id \in Ids : Reflects(p, id)'
      BY <1>4, <1>t, <3>1, <3>2, SwapReflects DEF LoadAgrees
    <3> QED BY <2>1, <3>1, <3>3 DEF Agrees, LoadAgrees, shared
  <2> QED BY <1>3, <2>1, <2>2
<1>5. ASSUME NEW p \in Pods, RebuildFails(p) PROVE HeldInv' /\ SnapInv' /\ LoadInv'
  <2>1. Release(p) /\ UNCHANGED <<shared, unsignalled, snap, misread>>
    BY <1>5 DEF RebuildFails
  <2>2. Still' /\ Still /\ snap'[p].epoch = epoch' => Agrees(p)'
    BY <1>r, <2>1
  <2> QED BY <1>3, <2>1, <2>2
<1>6. ASSUME NEW p \in Pods, Crash(p) PROVE HeldInv' /\ SnapInv' /\ LoadInv'
  <2>1. /\ UNCHANGED shared /\ unsignalled'
        /\ \A r \in Requests : req'[r] = IF PodOf[r] = p THEN IdleReq ELSE req[r]
    BY <1>6 DEF Crash
  <2>2. HeldInv'
    BY <1>h, <2>1 DEF shared
  <2> QED BY <2>1, <2>2 DEF SnapInv, LoadInv, Still
<1>7. ASSUME NEW r \in Requests, SpliceBodyFile(r) PROVE HeldInv' /\ SnapInv' /\ LoadInv'
  <2>1. UNCHANGED shared /\ req' = req /\ UNCHANGED <<unsignalled, snap, load, misread>>
    BY <1>7 DEF SpliceBodyFile
  <2>2. (Still' => Still) /\ HeldInv'
    BY <1>c, <1>h, <2>1 DEF shared
  <2> QED BY <1>l, <1>r, <2>1, <2>2 DEF SnapInv, LoadInv
<1>8. ASSUME NEW r \in Requests, SpliceStub(r) \/ SpliceDelete(r)
      PROVE  HeldInv' /\ SnapInv' /\ LoadInv'
  <2>1. PICK id \in IdsOf[r], contents \in Contents \cup {Unread, Unreadable} :
           /\ req[r].keys = {id} /\ req[r].op \in SpliceOps /\ req[r].pc = "answer"
           /\ Install(r, id, Target(req[r]), contents)
           /\ (req[r].op # "delete" /\ req[r].doc.text \in FileTexts) =>
                contents = body[r] /\ contents # Unread
    BY <1>8, <1>t, SpliceIs
  <2>2. id \in Ids /\ PodOf[r] \in Pods /\ docs[id] = Target(req[r])
    BY <1>t, <2>1 DEF SettledInv, HeldInv
  <2>3. /\ UNCHANGED <<shared, unsignalled>> /\ load' = load
        /\ \A q \in Requests : req'[q] = IF q = r THEN IdleReq ELSE req[q]
    BY <1>t, <2>1 DEF Install
  <2>4. (Still' => Still) /\ HeldInv'
    BY <1>c, <1>h, <2>1, <2>3 DEF shared
  <2>5. \A q \in Pods : snap'[q].epoch = snap[q].epoch /\ snap'[q].settings = snap[q].settings
    BY <1>t, <2>1 DEF Install, SnapState
  <2>6. ASSUME NEW q \in Pods, snap'[q].epoch = epoch', Still' PROVE Agrees(q)'
    <3>1. Agrees(q)
      BY <2>3, <2>4, <2>5, <2>6 DEF SettledInv, SnapInv, shared
    <3>2. ASSUME NEW j \in Ids PROVE Reflects(q, j)'
      <4>1. CASE q = PodOf[r] /\ j = id
        BY <1>t, <2>1, <2>2, <4>1, InstallReflects DEF SettledInv
      <4>2. CASE q # PodOf[r] \/ j # id
        BY <1>t, <2>1, <2>2, <3>1, <4>2, InstallOthers DEF Agrees
      <4> QED BY <4>1, <4>2
    <3> QED BY <2>3, <2>5, <3>1, <3>2 DEF Agrees, shared
  <2>7. SnapInv' /\ LoadInv'
    BY <1>l, <2>3, <2>4, <2>6 DEF SnapInv, LoadInv
  <2> QED BY <2>4, <2>7
<1> QED BY <1>1, <1>2, <1>4, <1>5, <1>6, <1>7, <1>8 DEF PodCases

LEMMA InitSettled == Init => SettledInv
<1> SUFFICES ASSUME Init PROVE SettledInv
  OBVIOUS
<1>1. BaseInv
  BY InitBase
<1>2. FileInv /\ HeldInv
  BY IdleReqFits DEF Init, AdminInit, FileInv, HeldInv
<1>3. LoadInv
  BY DEF Init, LoadInv, NoLoad
<1>4. SnapInv
  <2>1. \A p \in Pods : snap[p] = EmptySnapshot
    BY DEF Init
  <2>2. /\ EmptySnapshot.settings = 0
        /\ \A id \in Ids : EmptySnapshot.stubs[id] = Serve(NoDoc, 0)
    BY DEF EmptySnapshot
  <2>3. settings = 0 /\ file = 0 /\ \A id \in Ids : docs[id] = NoDoc
    BY DEF Init, AdminInit, Nothing
  <2>4. \A p \in Pods, id \in Ids : Reflects(p, id)
    BY <2>1, <2>2, <2>3 DEF Reflects
  <2> QED BY <2>1, <2>2, <2>3, <2>4 DEF SnapInv, Agrees
<1> QED BY <1>1, <1>2, <1>3, <1>4 DEF SettledInv

LEMMA NextSettled ==
  ASSUME SplicesApart, FilesApart, SettledInv, [Next]_vars
  PROVE  SettledInv'
<1>1. BaseInv' /\ FileInv'
  BY NextBase, FileInductive DEF SettledInv
<1>2. CASE UNCHANGED vars
  <2>1. HeldInv' /\ (Still' => Still)
    BY <1>2 DEF vars, adminVars, podVars, SettledInv, HeldInv, Target, Still, Pending
  <2>2. SnapInv' /\ LoadInv'
    BY <1>2, <2>1 DEF vars, adminVars, podVars, SettledInv, SnapInv, LoadInv, Agrees,
                      Reflects, Serve, LoadAgrees
  <2> QED BY <1>1, <2>1, <2>2 DEF SettledInv
<1>3. CASE WriteStore
  BY <1>1, <1>3, StoreHeld, StoreSettled DEF SettledInv
<1>4. CASE PodCases
  BY <1>1, <1>4, PodSettled DEF SettledInv
<1> QED BY <1>2, <1>3, <1>4, PodSteps DEF SettledInv

\* A replica that would not reload, because its snapshot carries the store's
\* epoch, serves what the store holds (splice.go:28): for any number of replicas,
\* faults, crashes and expiries, with one admin request at a time, or with clients
\* that create, edit, delete and import stubs of their own.
THEOREM QuietServesStore ==
  ASSUME SplicesApart, FilesApart
  PROVE  Spec => []Settled
<1>1. SettledInv => Settled
  <2> SUFFICES ASSUME SettledInv, NEW p \in Pods, Quiet(p) PROVE Agrees(p)
    BY DEF Settled
  <2>1. Still /\ snap[p].epoch = epoch
    BY DEF Quiet, Still, Pending
  <2> QED BY <2>1 DEF SettledInv, SnapInv
<1>2. SettledInv /\ [Next]_vars => SettledInv'
  BY NextSettled
<1> QED BY <1>1, <1>2, InitSettled, PTL DEF Spec
=============================================================================
