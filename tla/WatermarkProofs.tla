-------------------------- MODULE WatermarkProofs --------------------------
(***************************************************************************)
(* Proofs about Watermark for every number of pods, vbuckets, collections, *)
(* concurrent requests, failovers and faults.                              *)
(***************************************************************************)
EXTENDS Watermark, TLAPS

(* The operators on positions keep their shape. *)
LEMMA NoPositionsType == NoPositions \in Positions
BY DEF NoPositions, Positions, Position

(* fold returns one position per vbucket. *)
LEMMA FoldType ==
  ASSUME NEW w \in Positions, NEW newer \in Positions
  PROVE  Fold(w, newer) \in Positions
BY DEF Fold, Positions

(* note returns one position per vbucket. *)
LEMMA NoteType ==
  ASSUME NEW held \in Positions, NEW v \in VBs, NEW pos \in Position
  PROVE  Note(held, v, pos) \in Positions
BY DEF Note, Positions

(* observed returns one position per vbucket. *)
LEMMA ObservedType ==
  ASSUME NEW held \in Positions, NEW proven \in Positions
  PROVE  Observed(held, proven) \in Positions
BY DEF Observed, Positions, Position

(* What a scan can return is a position with a seqno. *)
LEMMA VisibleType ==
  ASSUME TypeOK, NEW v \in VBs
  PROVE  Visible(v) \in [uuid : Nat, seq : Nat \cup {-1}]
BY DEF Visible, TypeOK, Vbucket

(* The records processes start from have their shapes. *)
LEMMA IdleTypes ==
  /\ NoScan \in Scan
  /\ IdleReq \in ReqState
  /\ IdleLoad \in LoadState
  /\ NoSnap \in SnapState
<1>1. NoScan \in Scan
  BY DEF NoScan, Scan, NotScanned
<1>2. [c \in Colls |-> FALSE] \in [Colls -> BOOLEAN]
  OBVIOUS
<1> QED BY <1>1, <1>2, NoPositionsType
        DEF IdleReq, IdleLoad, NoSnap, ReqState, LoadState, SnapState

(* What the steps of a load and of a request write into their records keeps    *)
(* the records' shapes, and leaves the other fields alone.                     *)
ScanRec(l, t, q, k, b) ==
  [l EXCEPT !.pc = "scan", !.local = t, !.require = q, !.cas = k, !.whole = b]

LEMMA ScanBegins ==
  ASSUME NEW l \in LoadState, NEW t \in Positions, NEW q \in Positions,
         NEW k \in Nat, NEW b \in BOOLEAN
  PROVE  ScanRec(l, t, q, k, b) \in LoadState
BY DEF LoadState, ScanRec

LEMMA ScanFields ==
  ASSUME NEW l \in LoadState, NEW t, NEW q, NEW k, NEW b, NEW rec, rec = ScanRec(l, t, q, k, b)
  PROVE  /\ rec.pc = "scan" /\ rec.got = l.got /\ rec.epoch = l.epoch
         /\ rec.local = t /\ rec.require = q /\ rec.whole = b
BY DEF LoadState, ScanRec

LEMMA ScanGets ==
  ASSUME NEW l \in LoadState, NEW c \in Colls, NEW v \in VBs,
         NEW x \in [uuid : Nat, seq : Nat \cup {-1}]
  PROVE  [l EXCEPT !.got[c][v] = x] \in LoadState
<1>1. l.got \in Scan
  BY DEF LoadState
<1>2. l.got[c] \in [VBs -> [uuid : Nat, seq : Nat \cup {-1}]]
  BY <1>1 DEF Scan
<1> PICK g \in Scan : g = [l.got EXCEPT ![c][v] = x]
  BY <1>1, <1>2 DEF Scan
<1> QED BY <1>1 DEF LoadState

LEMMA ScanFallsBack ==
  ASSUME NEW l \in LoadState, NEW c \in Colls
  PROVE  [l EXCEPT !.fallback[c] = TRUE, !.got[c] = NoScan[c]] \in LoadState
<1>1. l.got \in Scan /\ l.fallback \in [Colls -> BOOLEAN]
  BY DEF LoadState
<1> PICK g \in Scan : g = [l.got EXCEPT ![c] = NoScan[c]]
  BY <1>1, IdleTypes DEF Scan
<1> PICK f \in [Colls -> BOOLEAN] : f = [l.fallback EXCEPT ![c] = TRUE]
  BY <1>1
<1> QED BY <1>1 DEF LoadState

LEMMA NotesType ==
  ASSUME NEW q \in ReqState, NEW w \in Write
  PROVE  [q EXCEPT !.new = @ \ {w}, !.ws = @ \cup {w}] \in ReqState
<1>1. q.new \ {w} \in SUBSET Write /\ q.ws \cup {w} \in SUBSET Write
  BY DEF ReqState
<1> QED BY <1>1 DEF ReqState

LEMMA ReadsAgain ==
  ASSUME NEW r \in ReqState, NEW n \in Nat, NEW p \in Positions, NEW k \in Nat
  PROVE  [r EXCEPT !.pc = "read", !.tries = n, !.read = p, !.cas = k] \in ReqState
BY DEF ReqState

LEMMA ReadsType ==
  ASSUME NEW r \in ReqState, NEW p \in Positions, NEW k \in Nat
  PROVE  [r EXCEPT !.pc = "replace", !.read = p, !.cas = k] \in ReqState
BY DEF ReqState

-----------------------------------------------------------------------------
(* The empty cluster is well typed. *)
LEMMA InitType == Init => TypeOK
BY IdleTypes, NoPositionsType DEF Init, TypeOK, Vbucket, WritesDoc

(* Every handler keeps every variable's shape. *)
LEMMA StepType == TypeOK /\ [Next]_vars => TypeOK'
<1> SUFFICES ASSUME TypeOK, [Next]_vars PROVE TypeOK'
  OBVIOUS
<1> USE ConstantsAssumption
<1> USE DEF TypeOK
<1>1. ASSUME NEW v \in VBs, Persist(v) PROVE TypeOK'
  BY <1>1 DEF Persist, Vbucket
<1>2. ASSUME NEW v \in VBs, Failover(v) PROVE TypeOK'
  BY <1>2 DEF Failover, Vbucket
<1>3. CASE DamageWrites
  <2>1. \A r \in Requests : [req[r] EXCEPT !.published = FALSE] \in ReqState
    BY ZenonT(40) DEF ReqState
  <2>2. \A a \in acct : [a EXCEPT !.published = FALSE] \in Accounted
    BY DEF Accounted
  <2>3. [cas |-> wdoc.cas + 1, ok |-> FALSE, pos |-> NoPositions] \in WritesDoc
    BY NoPositionsType DEF WritesDoc
  <2> QED BY <1>3, <2>1, <2>2, <2>3 DEF DamageWrites, Fault
<1>4. ASSUME NEW r \in Requests, NEW c \in Colls, NEW v \in VBs, Mutate(r, c, v) PROVE TypeOK'
  <2> DEFINE w == [coll |-> c, vb |-> v,
                   pos |-> [uuid |-> vb[v].uuid, seq |-> vb[v].mem + 1]]
             rec == [req[r] EXCEPT !.pc = "writing", !.new = @ \cup {w}]
  <2>1. w \in Write
    BY DEF Write, Position, NoPos, Vbucket
  <2> HIDE DEF w
  <2>2. rec \in ReqState
    BY ZenonT(40), <2>1 DEF ReqState
  <2>3. req' = [req EXCEPT ![r] = rec]
    BY <1>4 DEF Mutate, Set, w
  <2> HIDE DEF rec
  <2>4. vb' \in [VBs -> Vbucket]
    BY <1>4 DEF Mutate, Vbucket
  <2> QED BY <1>4, <2>2, <2>3, <2>4 DEF Mutate
<1>5. ASSUME NEW r \in Requests, NoteWrite(r) PROVE TypeOK'
  <2>1. PICK w \in req[r].new :
          /\ tokens' = [tokens EXCEPT ![PodOf[r]] = Note(@, w.vb, w.pos)]
          /\ req' = [req EXCEPT ![r] = [req[r] EXCEPT !.new = @ \ {w}, !.ws = @ \cup {w}]]
    BY <1>5 DEF NoteWrite, Set
  <2>2. w \in Write
    BY DEF ReqState
  <2>3. Note(tokens[PodOf[r]], w.vb, w.pos) \in Positions
    BY <2>2, NoteType DEF Write
  <2>4. [req[r] EXCEPT !.new = @ \ {w}, !.ws = @ \cup {w}] \in ReqState
    BY <2>2, NotesType
  <2> QED BY <1>5, <2>1, <2>3, <2>4 DEF NoteWrite
<1>6. ASSUME NEW r \in Requests, PutSettings(r) PROVE TypeOK'
  <2>1. [req[r] EXCEPT !.pc = "writing"] \in ReqState
    BY DEF ReqState
  <2> QED BY <1>6, <2>1 DEF PutSettings, Set, server
<1>7. ASSUME NEW r \in Requests, Abandon(r) PROVE TypeOK'
  BY <1>7, IdleTypes DEF Abandon, Set, server, Fault
<1>30. ASSUME NEW r \in Requests, NEW b \in BOOLEAN PROVE ToBump(r, b) \in ReqState
  BY IdleTypes DEF ToBump, ReqState
<1>8. ASSUME NEW r \in Requests, BeginPublish(r) PROVE TypeOK'
  <2>1. [req[r] EXCEPT !.pc = "read", !.local = tokens[PodOf[r]],
                       !.tries = PublishAttempts] \in ReqState
    BY ZenonT(40) DEF ReqState
  <2> QED BY <1>8, <1>30, <2>1 DEF BeginPublish, Set, server
<1>9. ASSUME NEW r \in Requests, ReadWrites(r) PROVE TypeOK'
  <2>1. Fold(wdoc.pos, req[r].local) \in Positions
    BY FoldType DEF WritesDoc, ReqState
  <2>2. \A q \in Positions, k \in Nat :
          [req[r] EXCEPT !.pc = "replace", !.read = q, !.cas = k] \in ReqState
    BY ReadsType
  <2>3. wdoc.cas \in Nat
    BY DEF WritesDoc
  <2> QED BY <1>9, <1>30, <2>1, <2>2, <2>3 DEF ReadWrites, Set, server
<1>31. ASSUME NEW r \in Requests
       PROVE [cas |-> wdoc.cas + 1, ok |-> TRUE, pos |-> req[r].read] \in WritesDoc
  BY DEF WritesDoc, ReqState
<1>10. ASSUME NEW r \in Requests, ReplaceWrites(r) PROVE TypeOK'
  <2>1. \A n \in Nat, q \in Positions, k \in Nat :
          [req[r] EXCEPT !.pc = "read", !.tries = n, !.read = q, !.cas = k] \in ReqState
    BY ReadsAgain
  <2>2. req[r].tries > 1 => req[r].tries - 1 \in Nat
    BY DEF ReqState
  <2>3. req' \in [Requests -> ReqState]
    <3>1. CASE wdoc.cas = req[r].cas
      BY <1>10, <1>30, <3>1 DEF ReplaceWrites, Set
    <3>2. CASE wdoc.cas # req[r].cas /\ req[r].tries > 1
      <4> DEFINE rec == [req[r] EXCEPT !.pc = "read", !.tries = @ - 1,
                                       !.read = NoPositions, !.cas = 0]
      <4>1. req' = [req EXCEPT ![r] = rec]
        BY <1>10, <3>2 DEF ReplaceWrites, Set
      <4>2. rec \in ReqState
        BY <2>1, <2>2, <3>2, NoPositionsType
      <4> HIDE DEF rec
      <4> QED BY <4>1, <4>2
    <3>3. CASE wdoc.cas # req[r].cas /\ ~(req[r].tries > 1)
      BY <1>10, <1>30, <3>3 DEF ReplaceWrites, Set
    <3> QED BY <3>1, <3>2, <3>3
  <2> QED BY <1>10, <1>31, <2>3 DEF ReplaceWrites
<1>11. ASSUME NEW r \in Requests, PublishFails(r) PROVE TypeOK'
  <2>1. req' \in [Requests -> ReqState] /\ faults' \in Nat
    <3>1. ToBump(r, FALSE) \in ReqState
      BY <1>30
    <3>2. PICK q \in ReqState : req' = [req EXCEPT ![r] = q]
      BY <1>11, <3>1 DEF PublishFails, Set
    <3>3. faults' = faults + 1
      BY <1>11 DEF PublishFails, Fault
    <3> QED BY <3>2, <3>3
  <2>2. wdoc' \in WritesDoc
    BY <1>11, <1>31 DEF PublishFails
  <2> QED BY <1>11, <2>1, <2>2 DEF PublishFails
<1>12. ASSUME NEW r \in Requests, BumpEpoch(r) PROVE TypeOK'
  <2>1. \A w \in req[r].ws :
          [epoch |-> epoch + 1, pod |-> {PodOf[r]}, w |-> w,
           published |-> req[r].published] \in Accounted
    BY DEF Accounted, ReqState
  <2> QED BY <1>12, <2>1, IdleTypes DEF BumpEpoch, Set
<1>13. ASSUME NEW r \in Requests, BumpFails(r) PROVE TypeOK'
  BY <1>13, IdleTypes DEF BumpFails, Set, server, Fault
<1>14. ASSUME NEW p \in Pods, LoadEpoch(p) PROVE TypeOK'
  <2>1. [IdleLoad EXCEPT !.pc = "require", !.epoch = epoch] \in LoadState
    BY IdleTypes DEF LoadState
  <2> QED BY <1>14, <2>1 DEF LoadEpoch, SetLoad, server
<1>15. ASSUME NEW p \in Pods, RequireFor(p) PROVE TypeOK'
  <2>1. Fold(wdoc.pos, tokens[p]) \in Positions
    BY FoldType DEF WritesDoc
  <2>2. PICK q \in Positions, k \in Nat, b \in BOOLEAN :
          load' = [load EXCEPT ![p] = [load[p] EXCEPT !.pc = "scan", !.local = tokens[p],
                                         !.require = q, !.cas = k, !.whole = b]]
    BY <1>15, <2>1 DEF RequireFor, SetLoad, WritesDoc
  <2>3. [load[p] EXCEPT !.pc = "scan", !.local = tokens[p],
                        !.require = q, !.cas = k, !.whole = b] \in LoadState
    <3>1. ScanRec(load[p], tokens[p], q, k, b) \in LoadState
      BY ScanBegins
    <3> QED BY <3>1 DEF ScanRec
  <2> QED BY <1>15, <2>2, <2>3 DEF RequireFor, server
<1>16. ASSUME NEW p \in Pods, RequireFails(p) PROVE TypeOK'
  <2>1. [load[p] EXCEPT !.pc = "scan", !.local = tokens[p],
                        !.require = tokens[p], !.cas = 0, !.whole = FALSE] \in LoadState
    <3>1. ScanRec(load[p], tokens[p], tokens[p], 0, FALSE) \in LoadState
      BY ScanBegins
    <3> QED BY <3>1 DEF ScanRec
  <2> QED BY <1>16, <2>1 DEF RequireFails, SetLoad, server, Fault
<1>17. ASSUME NEW p \in Pods, NEW c \in Colls, NEW v \in VBs, ScanVb(p, c, v) PROVE TypeOK'
  <2>1. Visible(v) \in [uuid : Nat, seq : Nat \cup {-1}]
    BY VisibleType
  <2>2. [load[p] EXCEPT !.got[c][v] = Visible(v)] \in LoadState
    BY <2>1, ScanGets
  <2>3. load[p].cas \in Nat
    BY DEF LoadState
  <2> QED BY <1>17, <2>2, <2>3 DEF ScanVb, SetLoad, server
<1>18. ASSUME NEW p \in Pods, NEW c \in Colls, ScanOutdated(p, c) PROVE TypeOK'
  <2>2. [load[p] EXCEPT !.fallback[c] = TRUE, !.got[c] = NoScan[c]] \in LoadState
    BY ScanFallsBack
  <2> QED BY <1>18, <2>2, IdleTypes DEF ScanOutdated, SetLoad, server
<1>19. ASSUME NEW p \in Pods, LoadFails(p) PROVE TypeOK'
  BY <1>19, IdleTypes DEF LoadFails, SetLoad, server, Fault
<1>20. ASSUME NEW p \in Pods, LoadDone(p) PROVE TypeOK'
  <2>1. Observed(tokens[p], load[p].local) \in Positions
    BY ObservedType DEF LoadState
  <2>2. [epoch |-> load[p].epoch, seen |-> load[p].got,
         whole |-> load[p].whole /\ \A c \in Colls : ~load[p].fallback[c]] \in SnapState
    BY DEF LoadState, SnapState
  <2> QED BY <1>20, <2>1, <2>2, IdleTypes DEF LoadDone, SetLoad, server
<1>21. ASSUME NEW p \in Pods, LoadUnused(p) PROVE TypeOK'
  <2>1. Observed(tokens[p], load[p].local) \in Positions
    BY ObservedType DEF LoadState
  <2> QED BY <1>21, <2>1, IdleTypes DEF LoadUnused, SetLoad, server, Fault
<1>22. ASSUME NEW p \in Pods, Crash(p) PROVE TypeOK'
  <2>1. \A a \in acct : [a EXCEPT !.pod = @ \ {p}] \in Accounted
    BY DEF Accounted
  <2> QED BY <1>22, <2>1, IdleTypes, NoPositionsType DEF Crash, server, Fault
<1>23. CASE UNCHANGED vars
  BY <1>23 DEF vars
<1> QED
  BY <1>1, <1>2, <1>3, <1>4, <1>5, <1>6, <1>7, <1>8, <1>9, <1>10, <1>11, <1>12,
     <1>13, <1>14, <1>15, <1>16, <1>17, <1>18, <1>19, <1>20, <1>21, <1>22, <1>23 DEF Next

(* Every variable of the driver keeps its shape, whatever fails. *)
THEOREM TypeCorrect == Spec => []TypeOK
BY InitType, StepType, PTL DEF Spec

-----------------------------------------------------------------------------
(* The inductive invariant.                                                *)

\* A position was drawn from this history of the vbucket or an earlier one,
\* and in the first history it names a mutation that was made.
Placed(pos, v) ==
  /\ pos.uuid <= vb[v].uuid
  /\ Stable(v) => pos.seq <= vb[v].mem

AllPlaced(q) == \A v \in VBs : Placed(q[v], v)

\* A read that carries q returns write w: it waits for w, or there is nothing
\* left to wait for.
Holds(q, w) ==
  Stable(w.vb) => \/ q[w.vb].seq >= w.pos.seq
                  \/ Visible(w.vb).seq >= w.pos.seq

\* Within the first history, q is at least as demanding as q2.
Dominates(q, q2) == \A v \in VBs : Stable(v) => q[v].seq >= q2[v].seq

PositionsInv ==
  /\ AllPlaced(wdoc.pos)
  /\ \A p \in Pods : /\ AllPlaced(tokens[p])
                     /\ AllPlaced(load[p].local)
                     /\ AllPlaced(load[p].require)
  /\ \A r \in Requests : /\ AllPlaced(req[r].local)
                         /\ AllPlaced(req[r].read)
                         /\ \A w \in req[r].new \cup req[r].ws : Placed(w.pos, w.vb)
  /\ \A a \in acct : Placed(a.w.pos, a.w.vb)

EpochInv ==
  /\ \A p \in Pods : snap[p].epoch <= epoch /\ load[p].epoch <= epoch
  /\ \A a \in acct : a.epoch <= epoch
  /\ wdoc.cas = 0 => wdoc.pos = NoPositions
  /\ \A r \in Requests : req[r].pc = "replace" => req[r].cas <= wdoc.cas

\* What a process wrote is outstanding until every read returns it.
NotedInv ==
  /\ \A r \in Requests : \A w \in req[r].ws : Holds(tokens[PodOf[r]], w)
  /\ \A p \in Pods, a \in acct : p \in a.pod => Holds(tokens[p], a.w)

\* What a publish has reported done is in meta::writes, or every read returns
\* it; on the way there nothing is lost from the positions carried.
PublishInv ==
  /\ \A r \in Requests :
       /\ req[r].pc \in {"read", "replace"} =>
            \A w \in req[r].ws : Holds(req[r].local, w)
       /\ req[r].pc = "replace" =>
            /\ Dominates(req[r].read, req[r].local)
            /\ req[r].cas = wdoc.cas => Dominates(req[r].read, wdoc.pos)
       /\ (req[r].pc = "bump" /\ req[r].published) =>
            \A w \in req[r].ws : Holds(wdoc.pos, w)
  /\ \A a \in acct : a.published => Holds(wdoc.pos, a.w)

\* A load past requireFor carries every write its epoch accounts for, and what
\* it has scanned contains them.
LoadInv ==
  \A p \in Pods :
   /\ load[p].pc = "require" => load[p].got = NoScan
   /\ load[p].pc = "scan" =>
    /\ Dominates(load[p].require, load[p].local)
    /\ \A a \in acct : a.epoch <= load[p].epoch =>
         /\ p \in a.pod => Holds(load[p].local, a.w)
         /\ (load[p].whole /\ a.published) => Holds(load[p].require, a.w)
    /\ \A c \in Colls, v \in VBs :
         (Stable(v) /\ load[p].got[c][v] # NotScanned) =>
           /\ Visible(v).seq >= load[p].local[v].seq
           /\ \A a \in acct :
                (a.epoch <= load[p].epoch /\ a.w.vb = v
                 /\ (p \in a.pod \/ (load[p].whole /\ ~load[p].fallback[c] /\ a.published)))
                  => load[p].got[c][v].seq >= a.w.pos.seq

IInv ==
  /\ TypeOK
  /\ PositionsInv
  /\ EpochInv
  /\ NotedInv
  /\ PublishInv
  /\ LoadInv
  /\ OwnWritesSeen
  /\ PublishedWritesSeen

-----------------------------------------------------------------------------
(* Histories only grow: within the first one no step takes a mutation back. *)
LEMMA VbGrows ==
  ASSUME TypeOK, [Next]_vars
  PROVE  \A v \in VBs :
           /\ vb[v] \in Vbucket /\ vb'[v] \in Vbucket
           /\ vb'[v].uuid >= vb[v].uuid
           /\ vb'[v].uuid = 1 =>
                /\ vb[v].uuid = 1
                /\ vb'[v].disk >= vb[v].disk
                /\ vb'[v].mem >= vb[v].mem
<1>1. vb \in [VBs -> Vbucket] /\ vb' \in [VBs -> Vbucket]
  BY StepType DEF TypeOK
<1>2. ASSUME NEW v \in VBs, Persist(v) PROVE \A u \in VBs : vb'[u].uuid = vb[u].uuid
                 /\ vb'[u].disk >= vb[u].disk /\ vb'[u].mem >= vb[u].mem
  BY <1>1, <1>2 DEF Persist, Vbucket
<1>3. ASSUME NEW v \in VBs, Failover(v)
      PROVE  /\ vb'[v].uuid = vb[v].uuid + 1
             /\ \A u \in VBs \ {v} : vb'[u] = vb[u]
  BY <1>1, <1>3 DEF Failover, Vbucket
<1>4. ASSUME NEW r \in Requests, NEW c \in Colls, NEW v \in VBs, Mutate(r, c, v)
      PROVE \A u \in VBs : vb'[u].uuid = vb[u].uuid
                 /\ vb'[u].disk >= vb[u].disk /\ vb'[u].mem >= vb[u].mem
  BY <1>1, <1>4 DEF Mutate, Vbucket
<1>5. \/ vb' = vb
      \/ \E v \in VBs : Persist(v) \/ Failover(v)
      \/ \E r \in Requests, c \in Colls, v \in VBs : Mutate(r, c, v)
  <2>1. ASSUME NEW r \in Requests,
               \/ NoteWrite(r) \/ PutSettings(r) \/ Abandon(r) \/ BeginPublish(r)
               \/ ReadWrites(r) \/ ReplaceWrites(r) \/ PublishFails(r)
               \/ BumpEpoch(r) \/ BumpFails(r)
        PROVE vb' = vb
    BY <2>1 DEF NoteWrite, PutSettings, Abandon, BeginPublish, ReadWrites,
           ReplaceWrites, PublishFails, BumpEpoch, BumpFails, server
  <2>2. ASSUME NEW p \in Pods,
               \/ LoadEpoch(p) \/ RequireFor(p) \/ RequireFails(p)
               \/ \E c \in Colls : ScanOutdated(p, c) \/ \E v \in VBs : ScanVb(p, c, v)
               \/ LoadDone(p) \/ LoadFails(p) \/ LoadUnused(p) \/ Crash(p)
        PROVE vb' = vb
    BY <2>2 DEF LoadEpoch, RequireFor, RequireFails, ScanVb, ScanOutdated, LoadFails, LoadUnused,
           LoadDone, Crash, server
  <2>3. DamageWrites => vb' = vb
    BY DEF DamageWrites
  <2>4. UNCHANGED vars => vb' = vb
    BY DEF vars
  <2> QED BY <2>1, <2>2, <2>3, <2>4 DEF Next
<1> QED BY <1>1, <1>2, <1>3, <1>4, <1>5 DEF Vbucket

(* A position stays placed. *)
LEMMA PlacedGrows ==
  ASSUME TypeOK, [Next]_vars, NEW pos \in Position, NEW v \in VBs, Placed(pos, v)
  PROVE  /\ pos.uuid <= vb'[v].uuid
         /\ vb'[v].uuid = 1 => pos.seq <= vb'[v].mem
BY VbGrows DEF Placed, Stable, Position, NoPos, Vbucket

(* Merging, noting and forgetting positions yields positions given to them. *)
LEMMA FoldPicks ==
  \A w, newer : \A v \in VBs :
    Fold(w, newer)[v] = w[v] \/ Fold(w, newer)[v] = newer[v]
BY DEF Fold

LEMMA NotePicks ==
  ASSUME NEW held \in Positions, NEW u \in VBs, NEW pos
  PROVE  \A v \in VBs : \/ Note(held, u, pos)[v] = held[v]
                        \/ v = u /\ Note(held, u, pos)[v] = pos
BY DEF Note, Positions

LEMMA ObservedPicks ==
  \A held, proven : \A v \in VBs :
    Observed(held, proven)[v] = held[v] \/ Observed(held, proven)[v] = NoPos
BY DEF Observed

-----------------------------------------------------------------------------
(* Which actions can change which variable.                                *)

(* The watermark is noted into, forgotten from, and lost with the process. *)
LEMMA TokensChange ==
  ASSUME [Next]_vars
  PROVE  \/ tokens' = tokens
         \/ \E r \in Requests : NoteWrite(r)
         \/ \E p \in Pods : LoadDone(p) \/ LoadUnused(p) \/ Crash(p)
<1>1. ASSUME NEW r \in Requests,
             \/ PutSettings(r) \/ Abandon(r) \/ BeginPublish(r)
             \/ ReadWrites(r) \/ ReplaceWrites(r) \/ PublishFails(r)
             \/ BumpEpoch(r) \/ BumpFails(r)
             \/ \E c \in Colls, v \in VBs : Mutate(r, c, v)
      PROVE tokens' = tokens
  BY <1>1 DEF Mutate, server, PutSettings, Abandon, BeginPublish, ReadWrites, ReplaceWrites,
     PublishFails, BumpEpoch, BumpFails
<1>2. ASSUME NEW p \in Pods,
             \/ LoadEpoch(p) \/ RequireFor(p) \/ RequireFails(p)
             \/ LoadFails(p)
             \/ \E c \in Colls : ScanOutdated(p, c) \/ \E v \in VBs : ScanVb(p, c, v)
      PROVE tokens' = tokens
  BY <1>2 DEF server, LoadEpoch, RequireFor, RequireFails, LoadFails, ScanVb,
     ScanOutdated
<1>3. ASSUME NEW v \in VBs, Persist(v) \/ Failover(v) PROVE tokens' = tokens
  BY <1>3 DEF Persist, Failover
<1>4. DamageWrites => tokens' = tokens
  BY DEF DamageWrites
<1>5. UNCHANGED vars => tokens' = tokens
  BY DEF vars
<1> QED BY <1>1, <1>2, <1>3, <1>4, <1>5 DEF Next

(* A load is changed by its own steps only. *)
LEMMA LoadChange ==
  ASSUME [Next]_vars
  PROVE  \/ load' = load
         \/ \E p \in Pods : LoadEpoch(p) \/ RequireFor(p) \/ RequireFails(p) \/ LoadDone(p) \/ LoadFails(p) \/ LoadUnused(p) \/ Crash(p)
           \/ \E c \in Colls : ScanOutdated(p, c) \/ \E v \in VBs : ScanVb(p, c, v)
<1>1. ASSUME NEW r \in Requests,
             \/ NoteWrite(r) \/ PutSettings(r) \/ Abandon(r)
             \/ BeginPublish(r) \/ ReadWrites(r) \/ ReplaceWrites(r)
             \/ PublishFails(r) \/ BumpEpoch(r) \/ BumpFails(r)
             \/ \E c \in Colls, v \in VBs : Mutate(r, c, v)
      PROVE load' = load
  BY <1>1 DEF Mutate, server, NoteWrite, PutSettings, Abandon, BeginPublish, ReadWrites,
     ReplaceWrites, PublishFails, BumpEpoch, BumpFails
<1>3. ASSUME NEW v \in VBs, Persist(v) \/ Failover(v) PROVE load' = load
  BY <1>3 DEF Persist, Failover
<1>4. DamageWrites => load' = load
  BY DEF DamageWrites
<1>5. UNCHANGED vars => load' = load
  BY DEF vars
<1> QED BY <1>1, <1>3, <1>4, <1>5 DEF Next

(* Only a completed load replaces a snapshot; a crash loses it. *)
LEMMA SnapChange ==
  ASSUME [Next]_vars
  PROVE  \/ snap' = snap
         \/ \E p \in Pods : LoadDone(p) \/ Crash(p)
<1>1. ASSUME NEW r \in Requests,
             \/ NoteWrite(r) \/ PutSettings(r) \/ Abandon(r)
             \/ BeginPublish(r) \/ ReadWrites(r) \/ ReplaceWrites(r)
             \/ PublishFails(r) \/ BumpEpoch(r) \/ BumpFails(r)
             \/ \E c \in Colls, v \in VBs : Mutate(r, c, v)
      PROVE snap' = snap
  BY <1>1 DEF Mutate, server, NoteWrite, PutSettings, Abandon, BeginPublish, ReadWrites,
     ReplaceWrites, PublishFails, BumpEpoch, BumpFails
<1>2. ASSUME NEW p \in Pods,
             \/ LoadEpoch(p) \/ RequireFor(p) \/ RequireFails(p)
             \/ LoadFails(p) \/ LoadUnused(p)
             \/ \E c \in Colls : ScanOutdated(p, c) \/ \E v \in VBs : ScanVb(p, c, v)
      PROVE snap' = snap
  BY <1>2 DEF server, LoadEpoch, RequireFor, RequireFails, LoadFails, LoadUnused, ScanVb,
     ScanOutdated
<1>3. ASSUME NEW v \in VBs, Persist(v) \/ Failover(v) PROVE snap' = snap
  BY <1>3 DEF Persist, Failover
<1>4. DamageWrites => snap' = snap
  BY DEF DamageWrites
<1>5. UNCHANGED vars => snap' = snap
  BY DEF vars
<1> QED BY <1>1, <1>2, <1>3, <1>4, <1>5 DEF Next

(* meta::writes is replaced by publishers, or damaged. *)
LEMMA WdocChange ==
  ASSUME [Next]_vars
  PROVE  \/ wdoc' = wdoc
         \/ DamageWrites
         \/ \E r \in Requests : ReplaceWrites(r) \/ PublishFails(r)
<1>1. ASSUME NEW r \in Requests,
             \/ NoteWrite(r) \/ PutSettings(r) \/ Abandon(r)
             \/ BeginPublish(r) \/ ReadWrites(r) \/ BumpEpoch(r)
             \/ BumpFails(r)
             \/ \E c \in Colls, v \in VBs : Mutate(r, c, v)
      PROVE wdoc' = wdoc
  BY <1>1 DEF Mutate, server, NoteWrite, PutSettings, Abandon, BeginPublish, ReadWrites,
     BumpEpoch, BumpFails
<1>2. ASSUME NEW p \in Pods,
             \/ LoadEpoch(p) \/ RequireFor(p) \/ RequireFails(p)
             \/ LoadDone(p) \/ LoadFails(p) \/ LoadUnused(p) \/ Crash(p)
             \/ \E c \in Colls : ScanOutdated(p, c) \/ \E v \in VBs : ScanVb(p, c, v)
      PROVE wdoc' = wdoc
  BY <1>2 DEF server, LoadEpoch, RequireFor, RequireFails, LoadDone, LoadFails, LoadUnused,
     Crash, ScanVb, ScanOutdated
<1>3. ASSUME NEW v \in VBs, Persist(v) \/ Failover(v) PROVE wdoc' = wdoc
  BY <1>3 DEF Persist, Failover
<1>5. UNCHANGED vars => wdoc' = wdoc
  BY DEF vars
<1> QED BY <1>1, <1>2, <1>3, <1>5 DEF Next

(* The history is extended by a bump. *)
LEMMA AcctChange ==
  ASSUME [Next]_vars
  PROVE  \/ acct' = acct
         \/ DamageWrites
         \/ \E r \in Requests : BumpEpoch(r)
         \/ \E p \in Pods : Crash(p)
<1>1. ASSUME NEW r \in Requests,
             \/ NoteWrite(r) \/ PutSettings(r) \/ Abandon(r)
             \/ BeginPublish(r) \/ ReadWrites(r) \/ ReplaceWrites(r)
             \/ PublishFails(r) \/ BumpFails(r)
             \/ \E c \in Colls, v \in VBs : Mutate(r, c, v)
      PROVE acct' = acct
  BY <1>1 DEF Mutate, server, NoteWrite, PutSettings, Abandon, BeginPublish, ReadWrites,
     ReplaceWrites, PublishFails, BumpFails
<1>2. ASSUME NEW p \in Pods,
             \/ LoadEpoch(p) \/ RequireFor(p) \/ RequireFails(p)
             \/ LoadDone(p) \/ LoadFails(p) \/ LoadUnused(p)
             \/ \E c \in Colls : ScanOutdated(p, c) \/ \E v \in VBs : ScanVb(p, c, v)
      PROVE acct' = acct
  BY <1>2 DEF server, LoadEpoch, RequireFor, RequireFails, LoadDone, LoadFails, LoadUnused,
     ScanVb, ScanOutdated
<1>3. ASSUME NEW v \in VBs, Persist(v) \/ Failover(v) PROVE acct' = acct
  BY <1>3 DEF Persist, Failover
<1>5. UNCHANGED vars => acct' = acct
  BY DEF vars
<1> QED BY <1>1, <1>2, <1>3, <1>5 DEF Next

(* Only a bump moves the epoch. *)
LEMMA EpochChange ==
  ASSUME [Next]_vars
  PROVE  \/ epoch' = epoch
         \/ \E r \in Requests : BumpEpoch(r)
<1>1. ASSUME NEW r \in Requests,
             \/ NoteWrite(r) \/ PutSettings(r) \/ Abandon(r)
             \/ BeginPublish(r) \/ ReadWrites(r) \/ ReplaceWrites(r)
             \/ PublishFails(r) \/ BumpFails(r)
             \/ \E c \in Colls, v \in VBs : Mutate(r, c, v)
      PROVE epoch' = epoch
  BY <1>1 DEF Mutate, server, NoteWrite, PutSettings, Abandon, BeginPublish, ReadWrites,
     ReplaceWrites, PublishFails, BumpFails
<1>2. ASSUME NEW p \in Pods,
             \/ LoadEpoch(p) \/ RequireFor(p) \/ RequireFails(p)
             \/ LoadDone(p) \/ LoadFails(p) \/ LoadUnused(p) \/ Crash(p)
             \/ \E c \in Colls : ScanOutdated(p, c) \/ \E v \in VBs : ScanVb(p, c, v)
      PROVE epoch' = epoch
  BY <1>2 DEF server, LoadEpoch, RequireFor, RequireFails, LoadDone, LoadFails, LoadUnused,
     Crash, ScanVb, ScanOutdated
<1>3. ASSUME NEW v \in VBs, Persist(v) \/ Failover(v) PROVE epoch' = epoch
  BY <1>3 DEF Persist, Failover
<1>4. DamageWrites => epoch' = epoch
  BY DEF DamageWrites
<1>5. UNCHANGED vars => epoch' = epoch
  BY DEF vars
<1> QED BY <1>1, <1>2, <1>3, <1>4, <1>5 DEF Next

(* A request moves by its own steps; damage and a crash touch many. *)
LEMMA ReqChange ==
  ASSUME TypeOK, [Next]_vars
  PROVE  \/ req' = req
         \/ DamageWrites
         \/ \E p \in Pods : Crash(p)
         \/ \E r \in Requests :
              /\ \/ \E c \in Colls, v \in VBs : Mutate(r, c, v)
                 \/ NoteWrite(r) \/ PutSettings(r) \/ Abandon(r)
                 \/ BeginPublish(r) \/ ReadWrites(r) \/ ReplaceWrites(r)
                 \/ PublishFails(r) \/ BumpEpoch(r) \/ BumpFails(r)
              /\ \A q \in Requests \ {r} : req'[q] = req[q]
<1> DEFINE Own(r) == \/ \E c \in Colls, v \in VBs : Mutate(r, c, v)
                     \/ NoteWrite(r) \/ PutSettings(r) \/ Abandon(r)
                     \/ BeginPublish(r) \/ ReadWrites(r) \/ ReplaceWrites(r)
                     \/ PublishFails(r) \/ BumpEpoch(r) \/ BumpFails(r)
<1>1. ASSUME NEW r \in Requests, Own(r)
      PROVE  \A q \in Requests \ {r} : req'[q] = req[q]
  BY <1>1 DEF Mutate, NoteWrite, PutSettings, Abandon, BeginPublish, ReadWrites,
     ReplaceWrites, PublishFails, BumpEpoch, BumpFails, Set, TypeOK
<1>2. ASSUME NEW p \in Pods,
             \/ LoadEpoch(p) \/ RequireFor(p) \/ RequireFails(p)
             \/ LoadDone(p) \/ LoadFails(p) \/ LoadUnused(p)
             \/ \E c \in Colls : ScanOutdated(p, c) \/ \E v \in VBs : ScanVb(p, c, v)
      PROVE req' = req
  BY <1>2 DEF LoadEpoch, RequireFor, RequireFails, LoadDone, LoadFails, LoadUnused, ScanVb,
     ScanOutdated
<1>3. ASSUME NEW v \in VBs, Persist(v) \/ Failover(v) PROVE req' = req
  BY <1>3 DEF Persist, Failover
<1>4. UNCHANGED vars => req' = req
  BY DEF vars
<1>5. \/ \E r \in Requests : Own(r)
      \/ DamageWrites \/ \E p \in Pods : Crash(p)
      \/ req' = req
  BY <1>2, <1>3, <1>4 DEF Next
<1> QED BY <1>1, <1>5

-----------------------------------------------------------------------------
(* Every position anywhere names a mutation that was made. *)
LEMMA PositionsStep ==
  ASSUME TypeOK, PositionsInv, [Next]_vars
  PROVE  PositionsInv'
<1> DEFINE PN(pos, v) == /\ pos.uuid <= vb'[v].uuid
                         /\ vb'[v].uuid = 1 => pos.seq <= vb'[v].mem
           AllPN(q) == \A v \in VBs : PN(q[v], v)
<1>0. TypeOK'
  BY StepType
<1>1. \A pos \in Position, v \in VBs : Placed(pos, v) => PN(pos, v)
  BY PlacedGrows
<1>2. \A q \in Positions : AllPlaced(q) => AllPN(q)
  BY <1>1 DEF AllPlaced, Positions
<1>3. AllPN(NoPositions)
  BY VbGrows DEF NoPositions, NoPos, Vbucket
<1>4. \A q, n \in Positions : AllPlaced(q) /\ AllPlaced(n) => AllPN(Fold(q, n))
  BY <1>1, FoldPicks DEF AllPlaced, Positions
<1>5. \A p \in Pods : AllPN(tokens[p]) /\ AllPN(load[p].local) /\ AllPN(load[p].require)
  BY <1>2 DEF TypeOK, PositionsInv, LoadState
<1>6. AllPN(wdoc.pos)
  BY <1>2 DEF TypeOK, PositionsInv, WritesDoc
<1>7. \A r \in Requests : /\ AllPN(req[r].local) /\ AllPN(req[r].read)
                          /\ \A w \in req[r].new \cup req[r].ws : PN(w.pos, w.vb)
  BY <1>1, <1>2 DEF TypeOK, PositionsInv, ReqState, Write
<1>8. \A a \in acct : PN(a.w.pos, a.w.vb)
  BY <1>1 DEF TypeOK, PositionsInv, Accounted, Write
<1>9. \A p \in Pods : AllPN(Fold(wdoc.pos, tokens[p]))
  BY <1>4 DEF TypeOK, PositionsInv, WritesDoc
<1>10. \A r \in Requests : AllPN(Fold(wdoc.pos, req[r].local))
  BY <1>4 DEF TypeOK, PositionsInv, WritesDoc, ReqState
<1> HIDE DEF PN
<1>11. \A p \in Pods : AllPN(tokens'[p])
  <2>1. ASSUME NEW r \in Requests, NoteWrite(r) PROVE \A p \in Pods : AllPN(tokens'[p])
    <3>1. PICK w \in req[r].new :
            tokens' = [tokens EXCEPT ![PodOf[r]] = Note(@, w.vb, w.pos)]
      BY <2>1 DEF NoteWrite
    <3>2. PN(w.pos, w.vb) /\ w \in Write
      BY <1>7 DEF TypeOK, ReqState
    <3>3. PodOf[r] \in Pods /\ tokens[PodOf[r]] \in Positions
      BY ConstantsAssumption DEF TypeOK
    <3>4. AllPN(Note(tokens[PodOf[r]], w.vb, w.pos))
      BY <1>5, <3>2, <3>3, NotePicks DEF Write
    <3> QED BY <1>5, <3>1, <3>3, <3>4 DEF TypeOK
  <2>2. ASSUME NEW p \in Pods, LoadDone(p) \/ LoadUnused(p) PROVE \A q \in Pods : AllPN(tokens'[q])
    <3>1. AllPN(Observed(tokens[p], load[p].local))
      BY <1>3, <1>5, ObservedPicks DEF NoPositions
    <3> QED BY <1>5, <2>2, <3>1 DEF LoadDone, LoadUnused, TypeOK
  <2>3. ASSUME NEW p \in Pods, Crash(p) PROVE \A q \in Pods : AllPN(tokens'[q])
    BY <1>3, <1>5, <2>3 DEF Crash, TypeOK
  <2> QED BY <1>5, <2>1, <2>2, <2>3, TokensChange
<1>12. AllPN(wdoc'.pos)
  <2>1. wdoc' = wdoc \/ wdoc'.pos = NoPositions \/ \E r \in Requests : wdoc'.pos = req[r].read
    <3>1. ASSUME NEW r \in Requests, ReplaceWrites(r) \/ PublishFails(r)
          PROVE wdoc' = wdoc \/ wdoc'.pos = req[r].read
      <4>1. \/ UNCHANGED wdoc
            \/ wdoc' = [cas |-> wdoc.cas + 1, ok |-> TRUE, pos |-> req[r].read]
        BY <3>1, Zenon DEF ReplaceWrites, PublishFails
      <4> QED BY <4>1
    <3>2. DamageWrites => wdoc'.pos = NoPositions
      BY DEF DamageWrites
    <3> QED BY <3>1, <3>2, WdocChange
  <2> HIDE DEF AllPN
  <2> QED BY <1>3, <1>6, <1>7, <2>1
<1>13. \A a \in acct' : PN(a.w.pos, a.w.vb)
  <2>1. ASSUME NEW r \in Requests, BumpEpoch(r) PROVE \A a \in acct' : PN(a.w.pos, a.w.vb)
    BY <1>7, <1>8, <2>1 DEF BumpEpoch
  <2>2. CASE DamageWrites
    <3>1. \A a \in acct : [a EXCEPT !.published = FALSE].w = a.w
      BY DEF TypeOK, Accounted
    <3> QED BY <1>8, <2>2, <3>1 DEF DamageWrites
  <2>3. ASSUME NEW p \in Pods, Crash(p) PROVE \A a \in acct' : PN(a.w.pos, a.w.vb)
    <3>1. \A a \in acct : [a EXCEPT !.pod = @ \ {p}].w = a.w
      BY DEF TypeOK, Accounted
    <3> QED BY <1>8, <2>3, <3>1 DEF Crash
  <2> QED BY <1>8, <2>1, <2>2, <2>3, AcctChange
<1>14. \A p \in Pods : AllPN(load'[p].local) /\ AllPN(load'[p].require)
  <2> SUFFICES ASSUME NEW p \in Pods PROVE AllPN(load'[p].local) /\ AllPN(load'[p].require)
    OBVIOUS
  <2>1. AllPN(IdleLoad.local) /\ AllPN(IdleLoad.require)
    BY <1>3 DEF IdleLoad
  <2>2. ASSUME NEW q \in Pods, LoadEpoch(q) \/ LoadFails(q) \/ LoadUnused(q) \/ LoadDone(q) \/ Crash(q)
        PROVE load'[p] = load[p] \/ (load'[p].local = IdleLoad.local /\ load'[p].require = IdleLoad.require)
    <3>1. load \in [Pods -> LoadState]
      BY DEF TypeOK
    <3>2. [IdleLoad EXCEPT !.pc = "require", !.epoch = epoch].local = IdleLoad.local
          /\ [IdleLoad EXCEPT !.pc = "require", !.epoch = epoch].require = IdleLoad.require
      BY DEF IdleLoad
    <3>3. \/ load' = [load EXCEPT ![q] = IdleLoad]
          \/ load' = [load EXCEPT ![q] = [IdleLoad EXCEPT !.pc = "require", !.epoch = epoch]]
      BY <2>2 DEF LoadEpoch, LoadFails, LoadUnused, LoadDone, Crash, SetLoad
    <3> QED BY <3>1, <3>2, <3>3
  <2>3. ASSUME NEW q \in Pods, RequireFor(q) \/ RequireFails(q)
        PROVE load'[p] = load[p] \/ /\ load'[p].local = tokens[q]
                                    /\ load'[p].require \in {tokens[q], Fold(wdoc.pos, tokens[q])}
    <3>1. load \in [Pods -> LoadState]
      BY DEF TypeOK
    <3>2. CASE p # q
      BY <2>3, <3>1, <3>2 DEF RequireFor, RequireFails, SetLoad
    <3>3. CASE p = q /\ RequireFor(q)
      <4>1. PICK f \in {tokens[q], Fold(wdoc.pos, tokens[q])} : \E k, b :
              load'[q] = [load[q] EXCEPT !.pc = "scan", !.local = tokens[q],
                                         !.require = f, !.cas = k, !.whole = b]
        BY <3>1, <3>3 DEF RequireFor, SetLoad
      <4> QED BY <3>1, <3>3, <4>1 DEF LoadState
    <3>4. CASE p = q /\ RequireFails(q)
      BY <3>1, <3>4 DEF RequireFails, SetLoad, LoadState
    <3> QED BY <2>3, <3>2, <3>3, <3>4
  <2>4. ASSUME NEW q \in Pods, NEW c \in Colls, ScanOutdated(q, c) \/ \E v \in VBs : ScanVb(q, c, v)
        PROVE \/ load'[p].local = load[p].local /\ load'[p].require = load[p].require
              \/ load'[p] = IdleLoad
    <3>1. load \in [Pods -> LoadState]
      BY DEF TypeOK
    <3>2. ASSUME NEW v \in VBs, ScanVb(q, c, v)
          PROVE load'[p].local = load[p].local /\ load'[p].require = load[p].require
      BY <3>1, <3>2 DEF ScanVb, SetLoad, LoadState
    <3>3. CASE ScanOutdated(q, c)
      BY <3>1, <3>3 DEF ScanOutdated, SetLoad, LoadState
    <3> QED BY <2>4, <3>2, <3>3
  <2> HIDE DEF AllPN
  <2> QED BY <1>5, <1>9, <2>1, <2>2, <2>3, <2>4, LoadChange
<1>15. \A r \in Requests : /\ AllPN(req'[r].local) /\ AllPN(req'[r].read)
                           /\ \A w \in req'[r].new \cup req'[r].ws : PN(w.pos, w.vb)
  <2> DEFINE RP(q) == /\ AllPN(q.local) /\ AllPN(q.read)
                      /\ \A w \in q.new \cup q.ws : PN(w.pos, w.vb)
  <2>1. RP(IdleReq)
    BY <1>3 DEF IdleReq
  <2>2. \A r \in Requests : RP(req[r])
    BY <1>7
  <2>3. ASSUME NEW r \in Requests, NEW b \in BOOLEAN PROVE RP(ToBump(r, b))
    BY <1>3, <1>7 DEF ToBump, IdleReq
  <2>4. ASSUME NEW r \in Requests, NEW c \in Colls, NEW v \in VBs, Mutate(r, c, v)
        PROVE RP(req'[r])
    <3> DEFINE w == [coll |-> c, vb |-> v,
                     pos |-> [uuid |-> vb[v].uuid, seq |-> vb[v].mem + 1]]
    <3>1. PN(w.pos, w.vb)
      BY <2>4 DEF Mutate, PN, TypeOK, Vbucket
    <3> HIDE DEF w
    <3>2. /\ req'[r].new = req[r].new \cup {w} /\ req'[r].ws = req[r].ws
          /\ req'[r].local = req[r].local /\ req'[r].read = req[r].read
      BY <2>4 DEF Mutate, Set, w, TypeOK, ReqState
    <3> HIDE DEF AllPN
    <3> QED BY <2>2, <3>1, <3>2
  <2>5. ASSUME NEW r \in Requests, NoteWrite(r) \/ PutSettings(r) PROVE RP(req'[r])
    <3>1. /\ req'[r].new \cup req'[r].ws = req[r].new \cup req[r].ws
          /\ req'[r].local = req[r].local /\ req'[r].read = req[r].read
      <4>1. req \in [Requests -> ReqState]
        BY DEF TypeOK
      <4>2. CASE NoteWrite(r)
        <5>1. PICK w \in req[r].new :
                req' = [req EXCEPT ![r] = [req[r] EXCEPT !.new = @ \ {w}, !.ws = @ \cup {w}]]
          BY <4>2 DEF NoteWrite, Set
        <5>2. /\ req'[r].new = req[r].new \ {w} /\ req'[r].ws = req[r].ws \cup {w}
              /\ req'[r].local = req[r].local /\ req'[r].read = req[r].read
          BY <4>1, <5>1 DEF ReqState
        <5> QED BY <5>2
      <4>3. CASE PutSettings(r)
        BY <4>1, <4>3 DEF PutSettings, Set, ReqState
      <4> QED BY <2>5, <4>2, <4>3
    <3> HIDE DEF AllPN
    <3> QED BY <2>2, <3>1
  <2>6. ASSUME NEW r \in Requests,
               \/ BeginPublish(r) \/ ReadWrites(r) \/ ReplaceWrites(r) \/ PublishFails(r)
        PROVE RP(req'[r])
    <3>1. \/ \E b \in BOOLEAN : req'[r] = ToBump(r, b)
          \/ /\ req'[r].new = req[r].new /\ req'[r].ws = req[r].ws
             /\ req'[r].local \in {req[r].local, tokens[PodOf[r]]}
             /\ req'[r].read \in {req[r].read, NoPositions, Fold(wdoc.pos, req[r].local)}
      <4>1. CASE BeginPublish(r)
        BY <4>1 DEF BeginPublish, Set, TypeOK, ReqState
      <4>2. CASE ReadWrites(r)
        BY <4>2 DEF ReadWrites, Set, TypeOK, ReqState
      <4>3. CASE ReplaceWrites(r)
        <5>1. req \in [Requests -> ReqState]
          BY DEF TypeOK
        <5>2. \/ req'[r] = ToBump(r, TRUE)
              \/ req'[r] = ToBump(r, FALSE)
              \/ \E n : req'[r] = [req[r] EXCEPT !.pc = "read", !.tries = n,
                                                !.read = NoPositions, !.cas = 0]
          BY <4>3, <5>1 DEF ReplaceWrites, Set
        <5> QED BY <5>1, <5>2 DEF ReqState
      <4>4. CASE PublishFails(r)
        BY <4>4 DEF PublishFails, Set, TypeOK, ReqState
      <4> QED BY <2>6, <4>1, <4>2, <4>3, <4>4
    <3>2. PodOf[r] \in Pods
      BY ConstantsAssumption
    <3> HIDE DEF AllPN
    <3> QED BY <1>3, <1>5, <1>10, <2>2, <2>3, <3>1, <3>2
  <2>7. ASSUME NEW r \in Requests, Abandon(r) \/ BumpEpoch(r) \/ BumpFails(r)
        PROVE RP(req'[r])
    BY <2>1, <2>7 DEF Abandon, BumpEpoch, BumpFails, Set, TypeOK
  <2>8. ASSUME DamageWrites \/ \E p \in Pods : Crash(p)
        PROVE \A r \in Requests : RP(req'[r])
    <3>1. ASSUME NEW r \in Requests
          PROVE \/ req'[r] = IdleReq
                \/ /\ req'[r].new = req[r].new /\ req'[r].ws = req[r].ws
                   /\ req'[r].local = req[r].local /\ req'[r].read = req[r].read
      BY <2>8 DEF DamageWrites, Crash, TypeOK, ReqState
    <3> HIDE DEF AllPN
    <3> QED BY <2>1, <2>2, <3>1
  <2> HIDE DEF RP
  <2>9. \/ \E r \in Requests : RP(req'[r]) /\ \A q \in Requests \ {r} : req'[q] = req[q]
        \/ req' = req
        \/ DamageWrites \/ \E p \in Pods : Crash(p)
    BY <2>4, <2>5, <2>6, <2>7, ReqChange
  <2>10. \A r \in Requests : RP(req'[r])
    BY <2>2, <2>8, <2>9
  <2> QED BY <2>10 DEF RP
<1> QED
  BY <1>11, <1>12, <1>13, <1>14, <1>15 DEF PositionsInv, AllPlaced, Placed, Stable, PN

-----------------------------------------------------------------------------
(* The epoch bounds everything stamped with it, the version of meta::writes  *)
(* everything read from it.                                                  *)
LEMMA EpochStep ==
  ASSUME TypeOK, EpochInv, [Next]_vars
  PROVE  EpochInv'
<1>1. epoch \in Nat /\ epoch' \in Nat /\ epoch' >= epoch
  BY EpochChange DEF BumpEpoch, TypeOK
<1>2. \A p \in Pods : /\ snap[p].epoch \in Int /\ load[p].epoch \in Int
                      /\ snap[p].epoch <= epoch /\ load[p].epoch <= epoch
  BY DEF EpochInv, TypeOK, SnapState, LoadState
<1>3. \A p \in Pods : snap'[p].epoch <= epoch'
  <2>1. \A p \in Pods : snap'[p].epoch \in {snap[p].epoch, load[p].epoch, -1}
    <3>1. snap \in [Pods -> SnapState]
      BY DEF TypeOK
    <3>2. ASSUME NEW q \in Pods, LoadDone(q)
          PROVE \A p \in Pods : snap'[p].epoch \in {snap[p].epoch, load[p].epoch}
      BY <3>1, <3>2 DEF LoadDone
    <3>3. ASSUME NEW q \in Pods, Crash(q)
          PROVE \A p \in Pods : snap'[p].epoch \in {snap[p].epoch, -1}
      BY <3>1, <3>3 DEF Crash, NoSnap
    <3> QED BY <3>2, <3>3, SnapChange
  <2> QED BY <1>1, <1>2, <2>1
<1>4. \A p \in Pods : load'[p].epoch <= epoch'
  <2>1. \A p \in Pods : load'[p].epoch \in {load[p].epoch, epoch, 0}
    <3>1. load \in [Pods -> LoadState]
      BY DEF TypeOK
    <3>2. ASSUME NEW q \in Pods, LoadEpoch(q) \/ LoadFails(q) \/ LoadUnused(q) \/ LoadDone(q) \/ Crash(q)
          PROVE \A p \in Pods : load'[p].epoch \in {load[p].epoch, epoch, 0}
      <4>1. CASE LoadEpoch(q)
        BY <3>1, <4>1 DEF LoadEpoch, SetLoad, IdleLoad
      <4>2. CASE LoadFails(q) \/ LoadUnused(q) \/ LoadDone(q) \/ Crash(q)
        <5>1. load' = [load EXCEPT ![q] = IdleLoad]
          BY <4>2, Zenon DEF LoadFails, LoadUnused, LoadDone, Crash, SetLoad
        <5> QED BY <3>1, <5>1 DEF IdleLoad
      <4> QED BY <3>2, <4>1, <4>2
    <3>3. ASSUME NEW q \in Pods, RequireFor(q)
          PROVE \A p \in Pods : load'[p].epoch = load[p].epoch
      <4>1. \E f, k, b : load' = [load EXCEPT ![q] =
              [load[q] EXCEPT !.pc = "scan", !.local = tokens[q],
                              !.require = f, !.cas = k, !.whole = b]]
        BY <3>3 DEF RequireFor, SetLoad
      <4> QED BY <3>1, <4>1 DEF LoadState
    <3>4. ASSUME NEW q \in Pods, RequireFails(q)
          PROVE \A p \in Pods : load'[p].epoch = load[p].epoch
      BY <3>1, <3>4 DEF RequireFails, SetLoad, LoadState
    <3>5. ASSUME NEW q \in Pods, NEW c \in Colls, NEW v \in VBs, ScanVb(q, c, v)
          PROVE \A p \in Pods : load'[p].epoch = load[p].epoch
      BY <3>1, <3>5 DEF ScanVb, SetLoad, LoadState
    <3>6. ASSUME NEW q \in Pods, NEW c \in Colls, ScanOutdated(q, c)
          PROVE \A p \in Pods : load'[p].epoch \in {load[p].epoch, 0}
      BY <3>1, <3>6 DEF ScanOutdated, SetLoad, LoadState, IdleLoad
    <3> QED BY <3>2, <3>3, <3>4, <3>5, <3>6, LoadChange
  <2> QED BY <1>1, <1>2, <2>1
<1>5. \A a \in acct' : a.epoch <= epoch'
  <2>1. \A a \in acct : a.epoch \in Nat /\ a.epoch <= epoch
    BY DEF EpochInv, TypeOK, Accounted
  <2>2. ASSUME NEW r \in Requests, BumpEpoch(r) PROVE \A a \in acct' : a.epoch <= epoch'
    BY <1>1, <2>1, <2>2 DEF BumpEpoch
  <2>3. CASE DamageWrites
    <3>1. \A a \in acct : [a EXCEPT !.published = FALSE].epoch = a.epoch
      BY DEF TypeOK, Accounted
    <3> QED BY <1>1, <2>1, <2>3, <3>1 DEF DamageWrites
  <2>4. ASSUME NEW p \in Pods, Crash(p) PROVE \A a \in acct' : a.epoch <= epoch'
    <3>1. \A a \in acct : [a EXCEPT !.pod = @ \ {p}].epoch = a.epoch
      BY DEF TypeOK, Accounted
    <3>2. acct' = {[a EXCEPT !.pod = @ \ {p}] : a \in acct}
      BY <2>4 DEF Crash
    <3>3. \A a \in acct : [a EXCEPT !.pod = @ \ {p}].epoch <= epoch'
      BY <1>1, <2>1, <3>1
    <3> QED BY <3>2, <3>3
  <2>5. acct' = acct => \A a \in acct' : a.epoch <= epoch'
    BY <1>1, <2>1
  <2> QED BY <2>2, <2>3, <2>4, <2>5, AcctChange
<1>6. wdoc' = wdoc \/ wdoc'.cas = wdoc.cas + 1
  <2>1. ASSUME NEW r \in Requests, ReplaceWrites(r) \/ PublishFails(r)
        PROVE wdoc' = wdoc \/ wdoc'.cas = wdoc.cas + 1
    <3>1. \/ UNCHANGED wdoc
          \/ wdoc' = [cas |-> wdoc.cas + 1, ok |-> TRUE, pos |-> req[r].read]
      BY <2>1, Zenon DEF ReplaceWrites, PublishFails
    <3> QED BY <3>1
  <2>2. DamageWrites => wdoc'.cas = wdoc.cas + 1
    BY DEF DamageWrites
  <2> QED BY <2>1, <2>2, WdocChange
<1>7. wdoc.cas \in Nat
  BY DEF TypeOK, WritesDoc
<1>8. wdoc'.cas = 0 => wdoc'.pos = NoPositions
  BY <1>6, <1>7 DEF EpochInv
<1>9. \A r \in Requests : req'[r].pc = "replace" => req'[r].cas <= wdoc'.cas
  <2> DEFINE G == \A r \in Requests : req'[r].pc = "replace" => req'[r].cas <= wdoc'.cas
  <2>1. \A r \in Requests : req[r].pc = "replace" => req[r].cas <= wdoc'.cas
    BY <1>6, <1>7 DEF EpochInv, TypeOK, ReqState
  <2>2. req \in [Requests -> ReqState]
    BY DEF TypeOK
  <2>3. ASSUME NEW r \in Requests,
               \A q \in Requests \ {r} : req'[q] = req[q],
               \/ \E c \in Colls, v \in VBs : Mutate(r, c, v)
               \/ NoteWrite(r) \/ PutSettings(r) \/ Abandon(r)
               \/ BeginPublish(r) \/ ReplaceWrites(r)
               \/ PublishFails(r) \/ BumpEpoch(r) \/ BumpFails(r)
        PROVE G
    <3>1. req'[r].pc # "replace"
      <4>1. CASE \E c \in Colls, v \in VBs : Mutate(r, c, v)
        BY <2>2, <4>1 DEF Mutate, Set, ReqState
      <4>2. CASE NoteWrite(r)
        BY <2>2, <4>2 DEF NoteWrite, Set, ReqState
      <4>3. CASE PutSettings(r) \/ Abandon(r) \/ BumpEpoch(r) \/ BumpFails(r)
        BY <2>2, <4>3 DEF PutSettings, Abandon, BumpEpoch, BumpFails, Set, IdleReq, ReqState
      <4>4. CASE BeginPublish(r)
        BY <2>2, <4>4 DEF BeginPublish, Set, ToBump, IdleReq, ReqState
      <4>6. CASE PublishFails(r)
        <5>1. req'[r] = ToBump(r, FALSE)
          BY <2>2, <4>6 DEF PublishFails, Set
        <5> QED BY <5>1 DEF ToBump, IdleReq
      <4>5. CASE ReplaceWrites(r)
        <5>1. \/ req'[r] = ToBump(r, TRUE)
              \/ req'[r] = ToBump(r, FALSE)
              \/ \E n : req'[r] = [req[r] EXCEPT !.pc = "read", !.tries = n,
                                                !.read = NoPositions, !.cas = 0]
          BY <2>2, <4>5 DEF ReplaceWrites, Set
        <5> QED BY <2>2, <5>1 DEF ToBump, IdleReq, ReqState
      <4> QED BY <2>3, <4>1, <4>2, <4>3, <4>4, <4>5, <4>6
    <3> QED BY <2>1, <2>3, <3>1
  <2>4. ASSUME NEW r \in Requests, ReadWrites(r),
               \A q \in Requests \ {r} : req'[q] = req[q]
        PROVE G
    <3>1. \/ req'[r] = ToBump(r, TRUE)
          \/ \E q : req'[r] = [req[r] EXCEPT !.pc = "replace", !.read = q, !.cas = wdoc.cas]
      BY <2>2, <2>4 DEF ReadWrites, Set
    <3>2. req'[r].pc = "replace" => req'[r].cas = wdoc.cas
      BY <2>2, <3>1 DEF ToBump, IdleReq, ReqState
    <3> QED BY <1>6, <1>7, <2>1, <2>4, <3>2
  <2>5. CASE DamageWrites
    BY <2>1, <2>2, <2>5 DEF DamageWrites, ReqState
  <2>6. ASSUME NEW p \in Pods, Crash(p) PROVE G
    BY <2>1, <2>6 DEF Crash, IdleReq
  <2>7. CASE req' = req
    BY <2>1, <2>7
  <2> QED BY <2>3, <2>4, <2>5, <2>6, <2>7, ReqChange
<1> QED BY <1>3, <1>4, <1>5, <1>8, <1>9 DEF EpochInv

-----------------------------------------------------------------------------
(* Holds, one step later: q and w are what they were, the vbucket has moved. *)
HoldsNext(q, w) ==
  vb'[w.vb].uuid = 1 =>
    \/ q[w.vb].seq >= w.pos.seq
    \/ (IF UseRangeScan THEN vb'[w.vb].disk ELSE vb'[w.vb].mem) >= w.pos.seq

(* What a position waits for, a read sees later on. *)
LEMMA HoldsGrows ==
  ASSUME TypeOK, [Next]_vars, NEW q \in Positions, NEW w \in Write, Holds(q, w)
  PROVE  HoldsNext(q, w)
<1>1. w.vb \in VBs /\ q[w.vb].seq \in Nat /\ w.pos.seq \in Nat
  BY DEF Write, Positions, Position, NoPos
<1>2. /\ vb[w.vb].disk \in Nat /\ vb'[w.vb].disk \in Nat
      /\ vb[w.vb].mem \in Nat /\ vb'[w.vb].mem \in Nat
  BY <1>1, VbGrows DEF Vbucket
<1>3. vb'[w.vb].uuid = 1 => /\ vb[w.vb].uuid = 1
                            /\ vb'[w.vb].disk >= vb[w.vb].disk
                            /\ vb'[w.vb].mem >= vb[w.vb].mem
  BY <1>1, VbGrows
<1> QED BY <1>1, <1>2, <1>3 DEF Holds, HoldsNext, Stable, Visible

(* A more demanding set of positions waits for as much. *)
LEMMA HoldsNextMono ==
  ASSUME NEW q \in Positions, NEW q2 \in Positions, NEW w \in Write, HoldsNext(q, w),
         \A v \in VBs : vb'[v].uuid = 1 => q2[v].seq >= q[v].seq
  PROVE  HoldsNext(q2, w)
<1>1. w.vb \in VBs /\ q[w.vb].seq \in Nat /\ q2[w.vb].seq \in Nat /\ w.pos.seq \in Nat
  BY DEF Write, Positions, Position, NoPos
<1> QED BY <1>1 DEF HoldsNext

(* fold loses nothing of either side within one history. *)
LEMMA FoldDominates ==
  ASSUME TypeOK, NEW q \in Positions, NEW n \in Positions, AllPlaced(q), AllPlaced(n)
  PROVE  Dominates(Fold(q, n), q) /\ Dominates(Fold(q, n), n)
<1> SUFFICES ASSUME NEW v \in VBs, Stable(v)
             PROVE Fold(q, n)[v].seq >= q[v].seq /\ Fold(q, n)[v].seq >= n[v].seq
  BY DEF Dominates
<1>1. /\ q[v] \in Position /\ n[v] \in Position
      /\ q[v].uuid <= 1 /\ n[v].uuid <= 1
  BY DEF AllPlaced, Placed, Stable, Positions
<1>2. CASE n[v] # NoPos /\ Supersedes(q[v], n[v])
  BY <1>1, <1>2 DEF Fold, Supersedes, Position, NoPos
<1>3. CASE ~(n[v] # NoPos /\ Supersedes(q[v], n[v]))
  BY <1>1, <1>3 DEF Fold, Supersedes, Position, NoPos
<1> QED BY <1>2, <1>3

(* note loses nothing that was held, and holds what was noted. *)
LEMMA NoteDominates ==
  ASSUME TypeOK, NEW q \in Positions, AllPlaced(q),
         NEW w \in Write, Placed(w.pos, w.vb)
  PROVE  /\ Dominates(Note(q, w.vb, w.pos), q)
         /\ Stable(w.vb) => Note(q, w.vb, w.pos)[w.vb].seq >= w.pos.seq
<1> DEFINE pos == w.pos
           u == w.vb
<1>1. u \in VBs /\ pos \in Position /\ q[u] \in Position
  BY DEF Write, Positions
<1>2. Stable(u) => \/ Supersedes(q[u], pos) /\ pos.seq >= q[u].seq
                   \/ ~Supersedes(q[u], pos) /\ q[u].seq >= pos.seq
  BY <1>1 DEF AllPlaced, Placed, Stable, Supersedes, Position, NoPos, Write
<1>3. \A v \in VBs : q[v].seq \in Nat
  BY DEF Positions, Position, NoPos
<1>4. pos.seq \in Nat
  BY <1>1 DEF Position, NoPos
<1> HIDE DEF pos, u
<1>5. /\ Dominates(Note(q, u, pos), q)
      /\ Stable(u) => Note(q, u, pos)[u].seq >= pos.seq
  BY <1>1, <1>2, <1>3, <1>4 DEF Dominates, Note, Positions
<1> QED BY <1>5 DEF u, pos

(* A request accounts for what it noted, and a crash takes its request down. *)
LEMMA WsChange ==
  ASSUME TypeOK, [Next]_vars, NEW r \in Requests, NEW w \in req'[r].ws
  PROVE  \/ w \in req[r].ws /\ ~Crash(PodOf[r])
         \/ /\ NoteWrite(r)
            /\ w \in req[r].new
            /\ tokens' = [tokens EXCEPT ![PodOf[r]] = Note(@, w.vb, w.pos)]
<1>1. req \in [Requests -> ReqState]
  BY DEF TypeOK
<1>2. ~Crash(PodOf[r])
  BY <1>1 DEF Crash, IdleReq
<1>3. ASSUME NEW q \in Requests, NoteWrite(q)
      PROVE \/ w \in req[r].ws
            \/ /\ q = r /\ w \in req[r].new
               /\ tokens' = [tokens EXCEPT ![PodOf[r]] = Note(@, w.vb, w.pos)]
  <2>1. PICK x \in req[q].new :
          /\ tokens' = [tokens EXCEPT ![PodOf[q]] = Note(@, x.vb, x.pos)]
          /\ req' = [req EXCEPT ![q] = [req[q] EXCEPT !.new = @ \ {x}, !.ws = @ \cup {x}]]
    BY <1>3 DEF NoteWrite, Set
  <2>2. CASE q # r
    BY <1>1, <2>1, <2>2
  <2>3. CASE q = r
    <3>1. req'[r].ws = req[r].ws \cup {x}
      BY <1>1, <2>1, <2>3 DEF ReqState
    <3> QED BY <2>1, <2>3, <3>1
  <2> QED BY <2>2, <2>3
<1>4. ASSUME NEW c \in Colls, NEW v \in VBs, Mutate(r, c, v) PROVE w \in req[r].ws
  <2>1. req'[r].ws = req[r].ws
    BY <1>1, <1>4 DEF Mutate, Set, ReqState
  <2> QED BY <2>1
<1>5. PutSettings(r) => w \in req[r].ws
  BY <1>1 DEF PutSettings, Set, ReqState
<1>6. Abandon(r) \/ BumpEpoch(r) \/ BumpFails(r) => w \in req[r].ws
  BY <1>1 DEF Abandon, BumpEpoch, BumpFails, Set, IdleReq
<1>7. \A b : ToBump(r, b).ws = req[r].ws
  BY DEF ToBump, IdleReq
<1>8. BeginPublish(r) => w \in req[r].ws
  <2> SUFFICES ASSUME BeginPublish(r) PROVE req'[r].ws = req[r].ws
    OBVIOUS
  <2> QED BY <1>1, <1>7 DEF BeginPublish, Set, ReqState
<1>9. ReadWrites(r) => w \in req[r].ws
  <2> SUFFICES ASSUME ReadWrites(r) PROVE req'[r].ws = req[r].ws
    OBVIOUS
  <2>1. \/ req'[r] = ToBump(r, TRUE)
        \/ \E q : req'[r] = [req[r] EXCEPT !.pc = "replace", !.read = q, !.cas = wdoc.cas]
    BY <1>1 DEF ReadWrites, Set
  <2> QED BY <1>1, <1>7, <2>1 DEF ReqState
<1>10. ReplaceWrites(r) => w \in req[r].ws
  <2> SUFFICES ASSUME ReplaceWrites(r) PROVE req'[r].ws = req[r].ws
    OBVIOUS
  <2>1. \/ req'[r] = ToBump(r, TRUE)
        \/ req'[r] = ToBump(r, FALSE)
        \/ \E n : req'[r] = [req[r] EXCEPT !.pc = "read", !.tries = n,
                                          !.read = NoPositions, !.cas = 0]
    BY <1>1 DEF ReplaceWrites, Set
  <2> QED BY <1>1, <1>7, <2>1 DEF ReqState
<1>11. PublishFails(r) => w \in req[r].ws
  <2> SUFFICES ASSUME PublishFails(r) PROVE req'[r].ws = req[r].ws
    OBVIOUS
  <2>1. req'[r] = ToBump(r, FALSE)
    BY <1>1 DEF PublishFails, Set
  <2> QED BY <1>7, <2>1
<1>12. DamageWrites => w \in req[r].ws
  BY <1>1 DEF DamageWrites, ReqState
<1>13. ASSUME NEW p \in Pods, Crash(p) PROVE w \in req[r].ws
  BY <1>1, <1>13 DEF Crash, IdleReq
<1>14. ASSUME NEW q \in Requests \ {r}, \A x \in Requests \ {q} : req'[x] = req[x]
       PROVE w \in req[r].ws
  BY <1>14
<1> QED BY <1>2, <1>3, <1>4, <1>5, <1>6, <1>8, <1>9, <1>10, <1>11, <1>12, <1>13, <1>14,
           ReqChange

-----------------------------------------------------------------------------
(* A process remembers its own writes until every read returns them. *)
LEMMA NotedStep ==
  ASSUME TypeOK, PositionsInv, NotedInv, LoadInv, [Next]_vars
  PROVE  NotedInv'
<1>1. tokens \in [Pods -> Positions] /\ tokens' \in [Pods -> Positions]
  BY StepType DEF TypeOK
<1>2. \A r \in Requests : PodOf[r] \in Pods /\ req[r].ws \subseteq Write /\ req[r].new \subseteq Write
  BY ConstantsAssumption DEF TypeOK, ReqState
<1>3. \A a \in acct : a.w \in Write
  BY DEF TypeOK, Accounted
<1>4. \A r \in Requests : \A w \in req[r].ws : HoldsNext(tokens[PodOf[r]], w)
  BY <1>1, <1>2, HoldsGrows DEF NotedInv
<1>5. \A p \in Pods, a \in acct : p \in a.pod => HoldsNext(tokens[p], a.w)
  BY <1>1, <1>3, HoldsGrows DEF NotedInv
<1> DEFINE Kept(p) == \A w \in Write : HoldsNext(tokens[p], w) => HoldsNext(tokens'[p], w)
<1>6. ASSUME NEW p \in Pods, NEW r \in Requests, NoteWrite(r)
      PROVE  Kept(p)
  <2>1. PICK w \in req[r].new :
          tokens' = [tokens EXCEPT ![PodOf[r]] = Note(@, w.vb, w.pos)]
    BY <1>6 DEF NoteWrite
  <2>2. CASE p # PodOf[r]
    BY <1>1, <2>1, <2>2
  <2>3. CASE p = PodOf[r]
    <3>1. tokens'[p] = Note(tokens[p], w.vb, w.pos)
      BY <1>1, <2>1, <2>3
    <3>2. Dominates(tokens'[p], tokens[p])
      BY <1>1, <1>2, <3>1, NoteDominates DEF PositionsInv
    <3>3. \A v \in VBs : vb'[v].uuid = 1 => tokens'[p][v].seq >= tokens[p][v].seq
      BY <3>2, VbGrows DEF Dominates, Stable
    <3> QED BY <1>1, <3>3, HoldsNextMono
  <2> QED BY <2>2, <2>3
<1>7. ASSUME NEW p \in Pods, NEW q \in Pods, LoadDone(q) \/ LoadUnused(q)
      PROVE  Kept(p)
  <2>1. CASE p # q
    BY <1>1, <1>7, <2>1 DEF LoadDone, LoadUnused
  <2>2. CASE p = q
    <3>1. tokens'[p] = Observed(tokens[p], load[p].local) /\ vb' = vb
      BY <1>1, <1>7, <2>2 DEF LoadDone, LoadUnused, server
    <3>2. \A v \in VBs : Stable(v) => Visible(v).seq >= load[p].local[v].seq
      BY <1>7, <2>2, ConstantsAssumption DEF LoadDone, LoadUnused, LoadInv
    <3>3. ASSUME NEW w \in Write, HoldsNext(tokens[p], w)
          PROVE HoldsNext(tokens'[p], w)
      <4>1. w.vb \in VBs /\ w.pos.seq \in Nat
        BY DEF Write, Position, NoPos
      <4>2. /\ tokens[p][w.vb].seq \in Nat /\ load[p].local[w.vb].seq \in Nat
            /\ vb[w.vb].mem \in Nat /\ vb[w.vb].disk \in Nat
        <5>1. load[p].local \in Positions /\ tokens[p] \in Positions
          BY <1>1 DEF TypeOK, LoadState
        <5>2. \A x \in Position : x.seq \in Nat
          BY DEF Position, NoPos
        <5>3. vb[w.vb] \in Vbucket
          BY <4>1 DEF TypeOK
        <5> QED BY <4>1, <5>1, <5>2, <5>3 DEF Positions, Vbucket
      <4>3. \/ tokens'[p][w.vb] = tokens[p][w.vb]
            \/ tokens[p][w.vb].seq <= load[p].local[w.vb].seq
        BY <3>1, <4>1 DEF Observed, Covered
      <4> DEFINE vis == IF UseRangeScan THEN vb[w.vb].disk ELSE vb[w.vb].mem
      <4>4. vb[w.vb].uuid = 1 => vis >= load[p].local[w.vb].seq
        BY <3>2, <4>1 DEF Stable, Visible
      <4>5. vis \in Nat
        BY <4>2
      <4>6. vb[w.vb].uuid = 1 => tokens[p][w.vb].seq >= w.pos.seq \/ vis >= w.pos.seq
        BY <3>1, <3>3 DEF HoldsNext
      <4> HIDE DEF vis
      <4>7. vb[w.vb].uuid = 1 => tokens'[p][w.vb].seq >= w.pos.seq \/ vis >= w.pos.seq
        BY <4>1, <4>2, <4>3, <4>4, <4>5, <4>6
      <4> QED BY <3>1, <4>7 DEF HoldsNext, vis
    <3> QED BY <3>3
  <2> QED BY <2>1, <2>2
<1>8. ASSUME NEW p \in Pods, NEW q \in Pods, Crash(q), p # q
      PROVE  Kept(p)
  BY <1>1, <1>8 DEF Crash
<1>9. \A p \in Pods : Kept(p) \/ Crash(p)
  BY <1>1, <1>6, <1>7, <1>8, TokensChange
<1>10. \A r \in Requests : \A w \in req'[r].ws : HoldsNext(tokens'[PodOf[r]], w)
  <2> SUFFICES ASSUME NEW r \in Requests, NEW w \in req'[r].ws
               PROVE HoldsNext(tokens'[PodOf[r]], w)
    OBVIOUS
  <2>1. \/ w \in req[r].ws /\ ~Crash(PodOf[r])
        \/ NoteWrite(r) /\ w \in req[r].new /\ tokens' = [tokens EXCEPT ![PodOf[r]] = Note(@, w.vb, w.pos)]
    BY WsChange
  <2>2. CASE w \in req[r].ws /\ ~Crash(PodOf[r])
    BY <1>2, <1>4, <1>9, <2>2
  <2>3. CASE NoteWrite(r) /\ w \in req[r].new /\ tokens' = [tokens EXCEPT ![PodOf[r]] = Note(@, w.vb, w.pos)]
    <3>1. w \in Write /\ Placed(w.pos, w.vb) /\ PodOf[r] \in Pods
      BY <1>2, <2>3 DEF PositionsInv
    <3>2. Stable(w.vb) => tokens'[PodOf[r]][w.vb].seq >= w.pos.seq
      BY <1>1, <2>3, <3>1, NoteDominates DEF PositionsInv
    <3> QED BY <3>1, <3>2, VbGrows DEF HoldsNext, Stable, Write
  <2> QED BY <2>1, <2>2, <2>3
<1>11. \A p \in Pods, a \in acct' : p \in a.pod => HoldsNext(tokens'[p], a.w)
  <2>1. ASSUME NEW r \in Requests, BumpEpoch(r), NEW p \in Pods, NEW a \in acct', p \in a.pod
        PROVE HoldsNext(tokens'[p], a.w)
    <3>1. tokens' = tokens
      BY <2>1 DEF BumpEpoch
    <3>2. a \in acct \/ (p = PodOf[r] /\ a.w \in req[r].ws)
      BY <2>1 DEF BumpEpoch
    <3> QED BY <1>4, <1>5, <2>1, <3>1, <3>2
  <2>2. ASSUME DamageWrites, NEW p \in Pods, NEW a \in acct', p \in a.pod
        PROVE HoldsNext(tokens'[p], a.w)
    <3>1. PICK b \in acct : a = [b EXCEPT !.published = FALSE]
      BY <2>2 DEF DamageWrites
    <3>2. a.w = b.w /\ a.pod = b.pod
      BY <3>1 DEF TypeOK, Accounted
    <3> QED BY <1>5, <2>2, <3>2 DEF DamageWrites
  <2>3. ASSUME NEW q \in Pods, Crash(q), NEW p \in Pods, NEW a \in acct', p \in a.pod
        PROVE HoldsNext(tokens'[p], a.w)
    <3>1. PICK b \in acct : a = [b EXCEPT !.pod = @ \ {q}]
      BY <2>3 DEF Crash
    <3>2. a.w = b.w /\ a.pod = b.pod \ {q}
      BY <3>1 DEF TypeOK, Accounted
    <3> QED BY <1>3, <1>5, <1>8, <2>3, <3>2
  <2>4. ASSUME acct' = acct, NEW p \in Pods, NEW a \in acct', p \in a.pod
        PROVE HoldsNext(tokens'[p], a.w)
    <3>1. CASE Crash(p)
      <4>1. acct = {[b EXCEPT !.pod = @ \ {p}] : b \in acct}
        BY <2>4, <3>1 DEF Crash
      <4>2. \A b \in acct : [b EXCEPT !.pod = @ \ {p}].pod = b.pod \ {p}
        BY DEF TypeOK, Accounted
      <4> QED BY <2>4, <4>1, <4>2
    <3> QED BY <1>3, <1>5, <1>9, <2>4, <3>1
  <2> QED BY <2>1, <2>2, <2>3, <2>4, AcctChange
<1> QED
  BY <1>10, <1>11 DEF NotedInv, Holds, HoldsNext, Stable, Visible

-----------------------------------------------------------------------------
(* Dominates, one step later. *)
DominatesNext(q, q2) == \A v \in VBs : vb'[v].uuid = 1 => q[v].seq >= q2[v].seq

(* A step other than damage replaces meta::writes by something at least as   *)
(* demanding.                                                                *)
LEMMA WdocDominates ==
  ASSUME TypeOK, PublishInv, [Next]_vars, ~DamageWrites
  PROVE  /\ DominatesNext(wdoc'.pos, wdoc.pos)
         /\ wdoc' = wdoc \/ wdoc'.cas = wdoc.cas + 1
<1>1. \A v \in VBs : wdoc.pos[v].seq \in Nat
  <2>1. wdoc.pos \in Positions
    BY DEF TypeOK, WritesDoc
  <2> QED BY <2>1 DEF Positions, Position, NoPos
<1>2. CASE wdoc' = wdoc
  BY <1>1, <1>2 DEF DominatesNext
<1>3. ASSUME NEW r \in Requests, ReplaceWrites(r) \/ PublishFails(r), wdoc' # wdoc
      PROVE /\ DominatesNext(wdoc'.pos, wdoc.pos)
            /\ wdoc'.cas = wdoc.cas + 1
  <2>1. /\ req[r].pc = "replace"
        /\ wdoc.cas = req[r].cas
        /\ wdoc' = [cas |-> wdoc.cas + 1, ok |-> TRUE, pos |-> req[r].read]
    BY <1>3, Zenon DEF ReplaceWrites, PublishFails
  <2>2. Dominates(req[r].read, wdoc.pos)
    BY <2>1 DEF PublishInv
  <2>3. DominatesNext(req[r].read, wdoc.pos)
    BY <2>2, VbGrows DEF Dominates, DominatesNext, Stable
  <2> QED BY <2>1, <2>3
<1> QED BY <1>2, <1>3, WdocChange

(* A published position stays published. *)
LEMMA PublishStep ==
  ASSUME TypeOK, PositionsInv, EpochInv, NotedInv, PublishInv, [Next]_vars
  PROVE  PublishInv'
<1>1. /\ req \in [Requests -> ReqState] /\ wdoc \in WritesDoc
      /\ wdoc.pos \in Positions /\ wdoc'.pos \in Positions /\ wdoc.cas \in Nat
      /\ tokens \in [Pods -> Positions] /\ PodOf \in [Requests -> Pods]
  BY StepType, ConstantsAssumption DEF TypeOK, WritesDoc
<1>2. \A r \in Requests : /\ req[r].local \in Positions /\ req[r].read \in Positions
                          /\ req[r].ws \subseteq Write /\ req[r].cas \in Nat
  BY <1>1 DEF ReqState
<1>3. \A a \in acct : a.w \in Write
  BY DEF TypeOK, Accounted
<1>4. ASSUME NEW q \in Positions, NEW n \in Positions, Dominates(q, n)
      PROVE  DominatesNext(q, n)
  BY <1>4, VbGrows DEF Dominates, DominatesNext, Stable
<1>5. ASSUME NEW q \in Positions, NEW n \in Positions, NEW w \in Write,
             HoldsNext(n, w), DominatesNext(q, n)
      PROVE  HoldsNext(q, w)
  BY <1>5, HoldsNextMono DEF DominatesNext
<1>6. ~DamageWrites => \A w \in Write : HoldsNext(wdoc.pos, w) => HoldsNext(wdoc'.pos, w)
  BY <1>1, <1>5, WdocDominates
<1> DEFINE Carried(rec) == rec.pc \in {"read", "replace"} =>
                             \A w \in rec.ws : HoldsNext(rec.local, w)
           Merged(rec) == rec.pc = "replace" =>
                             /\ DominatesNext(rec.read, rec.local)
                             /\ rec.cas = wdoc'.cas => DominatesNext(rec.read, wdoc'.pos)
           Done(rec) == (rec.pc = "bump" /\ rec.published) =>
                             \A w \in rec.ws : HoldsNext(wdoc'.pos, w)
           Good(rec) == Carried(rec) /\ Merged(rec) /\ Done(rec)
<1>7. \A r \in Requests : Carried(req[r])
  BY <1>2, HoldsGrows DEF PublishInv
<1>8. \A r \in Requests : Merged(req[r])
  <2> SUFFICES ASSUME NEW r \in Requests, req[r].pc = "replace"
               PROVE /\ DominatesNext(req[r].read, req[r].local)
                     /\ req[r].cas = wdoc'.cas => DominatesNext(req[r].read, wdoc'.pos)
    OBVIOUS
  <2>1. DominatesNext(req[r].read, req[r].local)
    BY <1>2, <1>4 DEF PublishInv
  <2>2. wdoc' = wdoc \/ wdoc'.cas = wdoc.cas + 1
    BY WdocDominates DEF DamageWrites
  <2>3. wdoc' = wdoc /\ req[r].cas = wdoc'.cas => DominatesNext(req[r].read, wdoc'.pos)
    BY <1>1, <1>2, <1>4 DEF PublishInv
  <2>4. wdoc'.cas = wdoc.cas + 1 => req[r].cas # wdoc'.cas
    BY <1>1, <1>2 DEF EpochInv
  <2> QED BY <2>1, <2>2, <2>3, <2>4
<1>9. \A r \in Requests : ~DamageWrites => Done(req[r])
  BY <1>1, <1>2, <1>6, HoldsGrows DEF PublishInv
<1>10. \A r \in Requests : \A w \in req[r].ws : HoldsNext(tokens[PodOf[r]], w)
  BY <1>1, <1>2, HoldsGrows DEF NotedInv
<1>11. \A r \in Requests : Good(req'[r])
  <2>1. Good(IdleReq)
    BY DEF IdleReq
  <2>2. \A r \in Requests : ~DamageWrites => Good(req[r])
    BY <1>7, <1>8, <1>9
  <2>3. \A r \in Requests : Good(ToBump(r, FALSE))
    BY DEF ToBump, IdleReq
  <2>4. ASSUME NEW r \in Requests, \A w \in req[r].ws : HoldsNext(wdoc'.pos, w)
        PROVE Good(ToBump(r, TRUE))
    BY <2>4 DEF ToBump, IdleReq
  <2>5. ASSUME NEW rec, rec.pc = "writing" PROVE Good(rec)
    BY <2>5
  <2>6. ASSUME NEW r \in Requests,
               \/ \E c \in Colls, v \in VBs : Mutate(r, c, v)
               \/ NoteWrite(r) \/ PutSettings(r)
        PROVE Good(req'[r])
    <3>1. CASE \E c \in Colls, v \in VBs : Mutate(r, c, v)
      BY <1>1, <2>5, <3>1 DEF Mutate, Set, ReqState
    <3>2. CASE NoteWrite(r)
      <4>1. req'[r].pc = "writing"
        BY <1>1, <3>2 DEF NoteWrite, Set, ReqState
      <4> QED BY <2>5, <4>1
    <3>3. CASE PutSettings(r)
      BY <1>1, <2>5, <3>3 DEF PutSettings, Set, ReqState
    <3> QED BY <2>6, <3>1, <3>2, <3>3
  <2>7. ASSUME NEW r \in Requests, Abandon(r) \/ BumpEpoch(r) \/ BumpFails(r)
        PROVE Good(req'[r])
    <3>1. req'[r] = IdleReq
      BY <1>1, <2>7 DEF Abandon, BumpEpoch, BumpFails, Set
    <3> HIDE DEF Good
    <3> QED BY <2>1, <3>1
  <2>8. ASSUME NEW r \in Requests, BeginPublish(r) PROVE Good(req'[r])
    <3>1. wdoc' = wdoc
      BY <2>8 DEF BeginPublish, server
    <3>2. CASE tokens[PodOf[r]] = NoPositions
      <4>1. \A w \in req[r].ws : HoldsNext(NoPositions, w)
        BY <1>10, <3>2
      <4>2. DominatesNext(wdoc'.pos, NoPositions)
        BY <1>1 DEF DominatesNext, NoPositions, NoPos, Positions, Position
      <4>3. \A w \in req[r].ws : HoldsNext(wdoc'.pos, w)
        BY <1>1, <1>2, <1>5, <4>1, <4>2, NoPositionsType
      <4>4. req'[r] = ToBump(r, TRUE)
        BY <1>1, <2>8, <3>2 DEF BeginPublish, Set, ToBump, IdleReq
      <4> HIDE DEF Good
      <4> QED BY <2>4, <4>3, <4>4
    <3>3. CASE tokens[PodOf[r]] # NoPositions
      <4>1. /\ req'[r].pc = "read" /\ req'[r].ws = req[r].ws
            /\ req'[r].local = tokens[PodOf[r]]
        BY <1>1, <2>8, <3>3 DEF BeginPublish, Set, ReqState
      <4> QED BY <1>10, <4>1
    <3> QED BY <3>2, <3>3
  <2>9. ASSUME NEW r \in Requests, ReadWrites(r) PROVE Good(req'[r])
    <3> DEFINE merged == Fold(wdoc.pos, req[r].local)
    <3>1. wdoc' = wdoc /\ req[r].pc = "read"
      BY <2>9 DEF ReadWrites, server
    <3>2. Dominates(merged, wdoc.pos) /\ Dominates(merged, req[r].local)
      BY <1>1, <1>2, FoldDominates DEF PositionsInv
    <3>3. merged \in Positions
      BY <1>1, <1>2, FoldType
    <3>4. DominatesNext(merged, wdoc.pos) /\ DominatesNext(merged, req[r].local)
      BY <1>1, <1>2, <1>4, <3>2, <3>3
    <3>5. \A w \in req[r].ws : HoldsNext(req[r].local, w)
      BY <1>7, <3>1
    <3> HIDE DEF merged
    <3>6. CASE merged = wdoc.pos
      <4>1. req'[r] = ToBump(r, TRUE)
        BY <1>1, <2>9, <3>6 DEF ReadWrites, Set, ToBump, IdleReq, merged
      <4>2. \A w \in req[r].ws : HoldsNext(wdoc'.pos, w)
        BY <1>1, <1>2, <1>5, <3>1, <3>4, <3>5, <3>6
      <4> HIDE DEF Good
      <4> QED BY <2>4, <4>1, <4>2
    <3>7. CASE merged # wdoc.pos
      <4>1. req'[r] = [req[r] EXCEPT !.pc = "replace", !.read = merged, !.cas = wdoc.cas]
        BY <1>1, <2>9, <3>7 DEF ReadWrites, Set, merged
      <4>2. /\ req'[r].pc = "replace" /\ req'[r].ws = req[r].ws
            /\ req'[r].local = req[r].local /\ req'[r].read = merged
        BY <1>1, <4>1 DEF ReqState
      <4> QED BY <3>1, <3>4, <3>5, <4>2
    <3> QED BY <3>6, <3>7
  <2>10. ASSUME NEW r \in Requests, ReplaceWrites(r) PROVE Good(req'[r])
    <3>1. CASE wdoc.cas = req[r].cas
      <4>1. req[r].pc = "replace" /\ wdoc'.pos = req[r].read /\ req'[r] = ToBump(r, TRUE)
        BY <1>1, <2>10, <3>1 DEF ReplaceWrites, Set, ToBump, IdleReq
      <4>2. DominatesNext(wdoc'.pos, req[r].local)
        BY <1>8, <4>1
      <4>3. \A w \in req[r].ws : HoldsNext(wdoc'.pos, w)
        BY <1>1, <1>2, <1>5, <1>7, <4>1, <4>2
      <4> HIDE DEF Good
      <4> QED BY <2>4, <4>1, <4>3
    <3>2. CASE wdoc.cas # req[r].cas
      <4>1. /\ wdoc' = wdoc /\ req[r].pc = "replace"
            /\ \/ req'[r] = ToBump(r, FALSE)
               \/ \E n : req'[r] = [req[r] EXCEPT !.pc = "read", !.tries = n,
                                                 !.read = NoPositions, !.cas = 0]
        BY <1>1, <2>10, <3>2 DEF ReplaceWrites, Set
      <4>2. CASE req'[r] = ToBump(r, FALSE)
        <5> HIDE DEF Good
        <5> QED BY <2>3, <4>2
      <4>3. CASE \E n : req'[r] = [req[r] EXCEPT !.pc = "read", !.tries = n,
                                                 !.read = NoPositions, !.cas = 0]
        <5>1. /\ req'[r].pc = "read" /\ req'[r].ws = req[r].ws
              /\ req'[r].local = req[r].local
          BY <1>1, <4>3 DEF ReqState
        <5> QED BY <1>7, <4>1, <5>1
      <4> QED BY <4>1, <4>2, <4>3
    <3> QED BY <3>1, <3>2
  <2>11. ASSUME NEW r \in Requests, PublishFails(r) PROVE Good(req'[r])
    <3>1. req'[r] = ToBump(r, FALSE)
      BY <1>1, <2>11 DEF PublishFails, Set
    <3> HIDE DEF Good
    <3> QED BY <2>3, <3>1
  <2>12. CASE DamageWrites
    <3>1. ASSUME NEW r \in Requests
          PROVE /\ req'[r].pc = req[r].pc /\ req'[r].ws = req[r].ws /\ req'[r].cas = req[r].cas
                /\ req'[r].local = req[r].local /\ req'[r].read = req[r].read
                /\ req'[r].published = FALSE
      BY <1>1, <2>12 DEF DamageWrites, ReqState
    <3> QED BY <1>7, <1>8, <3>1
  <2>13. ASSUME NEW p \in Pods, Crash(p), NEW r \in Requests PROVE Good(req'[r])
    <3>1. req'[r] = IdleReq \/ req'[r] = req[r]
      BY <2>13 DEF Crash
    <3>2. ~DamageWrites
      BY <2>13 DEF Crash, DamageWrites, TypeOK, WritesDoc, server
    <3> HIDE DEF Good
    <3> QED BY <2>1, <2>2, <3>1, <3>2
  <2> HIDE DEF Good
  <2>14. \A r \in Requests : req'[r] = req[r] => DamageWrites \/ Good(req'[r])
    BY <2>2
  <2> QED BY <2>6, <2>7, <2>8, <2>9, <2>10, <2>11, <2>12, <2>13, <2>14, ReqChange
<1>12. \A a \in acct' : a.published => HoldsNext(wdoc'.pos, a.w)
  <2>1. \A a \in acct : a.published => HoldsNext(wdoc.pos, a.w)
    BY <1>1, <1>3, HoldsGrows DEF PublishInv
  <2>2. CASE DamageWrites
    <3>1. \A a \in acct : [a EXCEPT !.published = FALSE].published = FALSE
      BY DEF TypeOK, Accounted
    <3> QED BY <2>2, <3>1 DEF DamageWrites
  <2>3. ASSUME NEW r \in Requests, BumpEpoch(r), NEW a \in acct', a.published
        PROVE HoldsNext(wdoc'.pos, a.w)
    <3>1. ~DamageWrites /\ req[r].pc = "bump"
      BY <2>3 DEF BumpEpoch, DamageWrites, TypeOK, WritesDoc
    <3>2. a \in acct \/ (req[r].published /\ a.w \in req[r].ws)
      BY <2>3 DEF BumpEpoch
    <3> QED BY <1>3, <1>6, <1>9, <2>1, <2>3, <3>1, <3>2
  <2>4. ASSUME NEW p \in Pods, Crash(p), ~DamageWrites, NEW a \in acct', a.published
        PROVE HoldsNext(wdoc'.pos, a.w)
    <3>1. PICK b \in acct : a = [b EXCEPT !.pod = @ \ {p}]
      BY <2>4 DEF Crash
    <3>2. a.w = b.w /\ a.published = b.published
      BY <3>1 DEF TypeOK, Accounted
    <3> QED BY <1>3, <1>6, <2>1, <2>4, <3>2
  <2>5. CASE acct' = acct /\ ~DamageWrites
    BY <1>3, <1>6, <2>1, <2>5
  <2> QED BY <2>2, <2>3, <2>4, <2>5, AcctChange
<1> QED
  BY <1>11, <1>12 DEF PublishInv, Holds, HoldsNext, Dominates, DominatesNext, Stable, Visible

-----------------------------------------------------------------------------
(* What the history says of an epoch that has been read does not grow.       *)
LEMMA AcctOld ==
  ASSUME TypeOK, [Next]_vars, NEW a \in acct', a.epoch <= epoch
  PROVE  \E b \in acct : /\ b.epoch = a.epoch /\ b.w = a.w
                         /\ a.pod \subseteq b.pod
                         /\ a.published => b.published
<1>1. CASE acct' = acct
  BY <1>1
<1>2. ASSUME NEW r \in Requests, BumpEpoch(r) PROVE a \in acct
  BY <1>2 DEF BumpEpoch, TypeOK
<1>3. CASE DamageWrites
  <2>1. PICK b \in acct : a = [b EXCEPT !.published = FALSE]
    BY <1>3 DEF DamageWrites
  <2> QED BY <2>1 DEF TypeOK, Accounted
<1>4. ASSUME NEW p \in Pods, Crash(p)
      PROVE \E b \in acct : /\ b.epoch = a.epoch /\ b.w = a.w
                            /\ a.pod \subseteq b.pod
                            /\ a.published => b.published
  <2>1. PICK b \in acct : a = [b EXCEPT !.pod = @ \ {p}]
    BY <1>4 DEF Crash
  <2>2. a.epoch = b.epoch /\ a.w = b.w /\ a.pod = b.pod \ {p} /\ a.published = b.published
    BY <2>1 DEF TypeOK, Accounted
  <2> QED BY <2>2
<1> QED BY <1>1, <1>2, <1>3, <1>4, AcctChange

(* A load carries, and has read, all that its epoch accounts for. *)
LEMMA LoadStep ==
  ASSUME TypeOK, PositionsInv, EpochInv, NotedInv, PublishInv, LoadInv, [Next]_vars
  PROVE  LoadInv'
<1> DEFINE VisN(v) == IF UseRangeScan THEN vb'[v].disk ELSE vb'[v].mem
           Req(p, ld) ==
             /\ DominatesNext(ld.require, ld.local)
             /\ \A a \in acct' : a.epoch <= ld.epoch =>
                  /\ p \in a.pod => HoldsNext(ld.local, a.w)
                  /\ (ld.whole /\ a.published) => HoldsNext(ld.require, a.w)
           Got(p, ld, c, v) ==
             (vb'[v].uuid = 1 /\ ld.got[c][v] # NotScanned) =>
               /\ VisN(v) >= ld.local[v].seq
               /\ \A a \in acct' :
                    (a.epoch <= ld.epoch /\ a.w.vb = v
                     /\ (p \in a.pod \/ (ld.whole /\ ~ld.fallback[c] /\ a.published)))
                      => ld.got[c][v].seq >= a.w.pos.seq
           LI(p, ld) ==
             /\ ld.pc = "require" => ld.got = NoScan
             /\ ld.pc = "scan" => Req(p, ld) /\ \A c \in Colls, v \in VBs : Got(p, ld, c, v)
<1>1. /\ load \in [Pods -> LoadState] /\ epoch \in Nat /\ acct \subseteq Accounted
      /\ acct' \subseteq Accounted /\ vb \in [VBs -> Vbucket] /\ vb' \in [VBs -> Vbucket]
      /\ tokens \in [Pods -> Positions] /\ wdoc \in WritesDoc
  BY StepType DEF TypeOK
<1>2. \A p \in Pods : /\ load[p].local \in Positions /\ load[p].require \in Positions
                      /\ load[p].epoch \in Nat /\ load[p].epoch <= epoch
                      /\ load[p].got \in Scan
  BY <1>1 DEF LoadState, EpochInv
<1>3. \A a \in acct : a.w \in Write /\ a.epoch \in Nat /\ a.w.vb \in VBs /\ a.w.pos.seq \in Nat
  BY <1>1 DEF Accounted, Write, Position, NoPos
<1>4. ASSUME NEW q \in Positions, NEW n \in Positions, Dominates(q, n)
      PROVE  DominatesNext(q, n)
  BY <1>4, VbGrows DEF Dominates, DominatesNext, Stable
<1>5. ASSUME NEW p \in Pods, load[p].pc = "scan", NEW a \in acct', a.epoch <= load[p].epoch
      PROVE  \E b \in acct : /\ b.epoch = a.epoch /\ b.w = a.w
                             /\ a.pod \subseteq b.pod
                             /\ a.published => b.published
  <2>1. a.epoch <= epoch
    BY <1>1, <1>2, <1>5 DEF Accounted
  <2> QED BY <2>1, AcctOld
<1>6. \A p \in Pods : load[p].pc = "scan" => Req(p, load[p])
  <2> SUFFICES ASSUME NEW p \in Pods, load[p].pc = "scan" PROVE Req(p, load[p])
    OBVIOUS
  <2>1. DominatesNext(load[p].require, load[p].local)
    BY <1>2, <1>4 DEF LoadInv
  <2>2. ASSUME NEW a \in acct', a.epoch <= load[p].epoch
        PROVE /\ p \in a.pod => HoldsNext(load[p].local, a.w)
              /\ (load[p].whole /\ a.published) => HoldsNext(load[p].require, a.w)
    <3>1. PICK b \in acct : /\ b.epoch = a.epoch /\ b.w = a.w
                            /\ a.pod \subseteq b.pod
                            /\ a.published => b.published
      BY <1>5, <2>2
    <3>2. /\ p \in b.pod => Holds(load[p].local, b.w)
          /\ (load[p].whole /\ b.published) => Holds(load[p].require, b.w)
      BY <2>2, <3>1 DEF LoadInv
    <3> QED BY <1>2, <1>3, <3>1, <3>2, HoldsGrows
  <2> QED BY <2>1, <2>2
<1>7. \A p \in Pods, c \in Colls, v \in VBs : load[p].pc = "scan" => Got(p, load[p], c, v)
  <2> SUFFICES ASSUME NEW p \in Pods, NEW c \in Colls, NEW v \in VBs, load[p].pc = "scan",
                      vb'[v].uuid = 1, load[p].got[c][v] # NotScanned
               PROVE  /\ VisN(v) >= load[p].local[v].seq
                      /\ \A a \in acct' :
                           (a.epoch <= load[p].epoch /\ a.w.vb = v
                            /\ (p \in a.pod
                                \/ (load[p].whole /\ ~load[p].fallback[c] /\ a.published)))
                             => load[p].got[c][v].seq >= a.w.pos.seq
    OBVIOUS
  <2>1. Stable(v) /\ vb'[v].disk >= vb[v].disk /\ vb'[v].mem >= vb[v].mem
    BY VbGrows DEF Stable
  <2>2. Visible(v).seq >= load[p].local[v].seq
    BY <2>1 DEF LoadInv
  <2>3. /\ load[p].local[v].seq \in Nat
        /\ vb[v].disk \in Nat /\ vb[v].mem \in Nat
        /\ vb'[v].disk \in Nat /\ vb'[v].mem \in Nat
    <3>1. load[p].local[v] \in Position
      BY <1>2 DEF Positions
    <3> QED BY <1>1, <3>1 DEF Position, NoPos, Vbucket
  <2>4. VisN(v) >= load[p].local[v].seq
    BY <2>1, <2>2, <2>3 DEF Visible
  <2>5. ASSUME NEW a \in acct', a.epoch <= load[p].epoch, a.w.vb = v,
               p \in a.pod \/ (load[p].whole /\ ~load[p].fallback[c] /\ a.published)
        PROVE load[p].got[c][v].seq >= a.w.pos.seq
    <3>1. PICK b \in acct : /\ b.epoch = a.epoch /\ b.w = a.w
                            /\ a.pod \subseteq b.pod
                            /\ a.published => b.published
      BY <1>5, <2>5
    <3> QED BY <2>1, <2>5, <3>1 DEF LoadInv
  <2> QED BY <2>4, <2>5
<1>8. \A p \in Pods : LI(p, load[p])
  BY <1>6, <1>7 DEF LoadInv
<1>9. \A p \in Pods : LI(p, load'[p])
  <2> USE ConstantsAssumption
  <2>1. \A p \in Pods : LI(p, IdleLoad)
    BY DEF IdleLoad
  <2>2. \A p \in Pods, c \in Colls, v \in VBs : NoScan[c][v] = NotScanned
    BY DEF NoScan
  <2>3. ASSUME NEW p \in Pods, LoadEpoch(p) PROVE LI(p, load'[p])
    <3>1. load'[p].pc = "require" /\ load'[p].got = NoScan
      BY <1>1, <2>3 DEF LoadEpoch, SetLoad, IdleLoad
    <3> QED BY <3>1
  <2>4. ASSUME NEW p \in Pods, RequireFor(p) \/ RequireFails(p) PROVE LI(p, load'[p])
    <3> DEFINE ld == load'[p]
    <3>1. load[p].got = NoScan
      BY <2>4 DEF LoadInv, RequireFor, RequireFails
    <3>2. /\ vb' = vb /\ acct' = acct
      BY <2>4 DEF RequireFor, RequireFails, server
    <3> DEFINE rec(q, k, b) == [load[p] EXCEPT !.pc = "scan", !.local = tokens[p],
                                               !.require = q, !.cas = k, !.whole = b]
               folds == UseRangeScan /\ wdoc.cas # 0 /\ wdoc.ok /\ refused[p] # wdoc.cas
    <3>20. \/ ld = rec(Fold(wdoc.pos, tokens[p]), wdoc.cas, TRUE)
           \/ ld = rec(tokens[p], 0, TRUE) /\ (wdoc.cas = 0 \/ ~UseRangeScan)
           \/ ld = rec(tokens[p], 0, FALSE)
      <4>1. CASE RequireFor(p) /\ folds
        <5>1. load' = [load EXCEPT ![p] = rec(Fold(wdoc.pos, tokens[p]), wdoc.cas, TRUE)]
          BY <4>1 DEF RequireFor, SetLoad
        <5> HIDE DEF rec
        <5> QED BY <1>1, <5>1
      <4>2. CASE RequireFor(p) /\ ~folds
        <5>1. CASE wdoc.cas = 0 \/ ~UseRangeScan
          <6>1. load' = [load EXCEPT ![p] = rec(tokens[p], 0, TRUE)]
            BY <4>2, <5>1 DEF RequireFor, SetLoad
          <6> HIDE DEF rec
          <6> QED BY <1>1, <5>1, <6>1
        <5>2. CASE ~(wdoc.cas = 0 \/ ~UseRangeScan)
          <6>1. load' = [load EXCEPT ![p] = rec(tokens[p], 0, FALSE)]
            BY <4>2, <5>2 DEF RequireFor, SetLoad
          <6> HIDE DEF rec
          <6> QED BY <1>1, <6>1
        <5> QED BY <5>1, <5>2
      <4>3. CASE RequireFails(p)
        <5>1. load' = [load EXCEPT ![p] = rec(tokens[p], 0, FALSE)]
          BY <4>3 DEF RequireFails, SetLoad
        <5> HIDE DEF rec
        <5> QED BY <1>1, <5>1
      <4> QED BY <2>4, <4>1, <4>2, <4>3
    <3> HIDE DEF folds, ld
    <3>21. load[p] \in LoadState
      BY <1>1
    <3>22. \A q, k, b : rec(q, k, b) = ScanRec(load[p], tokens[p], q, k, b)
      BY DEF ScanRec
    <3> HIDE DEF rec
    <3>23. PICK q, k, b :
              /\ ld = ScanRec(load[p], tokens[p], q, k, b)
              /\ \/ q = tokens[p] /\ (b => wdoc.cas = 0 \/ ~UseRangeScan)
                 \/ q = Fold(wdoc.pos, tokens[p])
      BY <3>20, <3>22
    <3>24. /\ ld.pc = "scan" /\ ld.got = load[p].got /\ ld.local = tokens[p]
           /\ ld.epoch = load[p].epoch /\ ld.require = q /\ ld.whole = b
      BY <3>21, <3>23, ScanFields
    <3>3. /\ ld.pc = "scan" /\ ld.got = NoScan /\ ld.local = tokens[p]
          /\ ld.epoch = load[p].epoch
      BY <3>1, <3>24
    <3>4. \/ ld.require = tokens[p] /\ (ld.whole => wdoc.cas = 0 \/ ~UseRangeScan)
          \/ ld.require = Fold(wdoc.pos, tokens[p])
      BY <3>23, <3>24
    <3> HIDE DEF rec
    <3>5. tokens[p] \in Positions /\ wdoc.pos \in Positions
      BY <1>1 DEF WritesDoc
    <3>6. /\ DominatesNext(Fold(wdoc.pos, tokens[p]), wdoc.pos)
          /\ DominatesNext(Fold(wdoc.pos, tokens[p]), tokens[p])
          /\ Fold(wdoc.pos, tokens[p]) \in Positions
      BY <1>4, <3>5, FoldDominates, FoldType DEF PositionsInv
    <3>7. \A v \in VBs : tokens[p][v].seq \in Nat
      BY <3>5 DEF Positions, Position, NoPos
    <3>8. DominatesNext(tokens[p], tokens[p]) /\ DominatesNext(tokens[p], NoPositions)
      BY <3>7 DEF DominatesNext, NoPositions, NoPos
    <3>9. DominatesNext(ld.require, ld.local)
      BY <3>3, <3>4, <3>6, <3>8
    <3>10. ASSUME NEW a \in acct, p \in a.pod PROVE HoldsNext(tokens[p], a.w)
      BY <1>3, <3>5, <3>10, HoldsGrows DEF NotedInv
    <3>11. ASSUME NEW a \in acct, a.published, ld.whole PROVE HoldsNext(ld.require, a.w)
      <4>1. HoldsNext(wdoc.pos, a.w)
        BY <1>3, <3>5, <3>11, HoldsGrows DEF PublishInv
      <4>2. CASE ld.require = Fold(wdoc.pos, tokens[p])
        BY <1>3, <3>5, <3>6, <4>1, <4>2, HoldsNextMono DEF DominatesNext
      <4>3. CASE ld.require = tokens[p] /\ wdoc.cas = 0
        <5>1. wdoc.pos = NoPositions
          BY <4>3 DEF EpochInv
        <5> QED BY <1>3, <3>5, <3>8, <4>1, <4>3, <5>1, HoldsNextMono DEF DominatesNext
      <4>4. CASE ~UseRangeScan
        <5>1. vb[a.w.vb].uuid = 1 => a.w.pos.seq <= vb[a.w.vb].mem
          BY DEF PositionsInv, Placed, Stable
        <5>2. vb[a.w.vb].mem \in Nat /\ a.w.pos.seq \in Nat
          BY <1>1, <1>3 DEF Vbucket
        <5> QED BY <3>2, <4>4, <5>1, <5>2 DEF HoldsNext
      <4> QED BY <3>4, <3>11, <4>2, <4>3, <4>4
    <3>12. Req(p, ld)
      BY <3>2, <3>3, <3>9, <3>10, <3>11
    <3>13. \A c \in Colls, v \in VBs : Got(p, ld, c, v)
      BY <2>2, <3>3
    <3> HIDE DEF Req, Got
    <3>14. LI(p, ld)
      BY <3>3, <3>12, <3>13
    <3> QED BY <3>14 DEF ld
  <2>5. ASSUME NEW p \in Pods, NEW c \in Colls, NEW v \in VBs, ScanVb(p, c, v)
        PROVE LI(p, load'[p])
    <3> DEFINE ld == load'[p]
    <3>1. /\ vb' = vb /\ acct' = acct
          /\ load[p].pc = "scan"
          /\ Carries(p, c)[v] = NoPos \/ Covered(Carries(p, c)[v], Visible(v))
          /\ ld = [load[p] EXCEPT !.got[c][v] = Visible(v)]
      BY <1>1, <2>5 DEF ScanVb, SetLoad, server
    <3>2. /\ ld.pc = "scan" /\ ld.local = load[p].local /\ ld.require = load[p].require
          /\ ld.epoch = load[p].epoch /\ ld.whole = load[p].whole
          /\ ld.fallback = load[p].fallback
          /\ ld.got = [load[p].got EXCEPT ![c][v] = Visible(v)]
      BY <1>1, <3>1 DEF LoadState
    <3>3. /\ ld.got[c][v] = Visible(v)
          /\ \A d \in Colls, u \in VBs : <<d, u>> # <<c, v>> => ld.got[d][u] = load[p].got[d][u]
      BY <1>2, <3>2 DEF Scan
    <3> HIDE DEF ld
    <3>4. Visible(v).seq = VisN(v) /\ VisN(v) \in Nat
      BY <1>1, <3>1 DEF Visible, Vbucket
    <3>5. /\ load[p].local[v].seq \in Nat /\ load[p].require[v].seq \in Nat
      <4>1. load[p].local[v] \in Position /\ load[p].require[v] \in Position
        BY <1>2 DEF Positions
      <4> QED BY <4>1 DEF Position, NoPos
    <3>6. UseRangeScan => (IF load[p].fallback[c] THEN load[p].local[v].seq
                             ELSE load[p].require[v].seq) <= VisN(v)
      <4>1. UseRangeScan => Carries(p, c)[v].seq <= VisN(v)
        BY <3>1, <3>4 DEF Covered, NoPos
      <4> HIDE DEF VisN
      <4> QED BY <4>1 DEF Carries
    <3>7. ~UseRangeScan /\ vb'[v].uuid = 1 =>
             /\ load[p].local[v].seq <= VisN(v)
             /\ \A a \in acct : a.w.vb = v => a.w.pos.seq <= VisN(v)
      BY <3>1 DEF PositionsInv, AllPlaced, Placed, Stable
    <3>8. vb'[v].uuid = 1 => load[p].require[v].seq >= load[p].local[v].seq
      BY <3>1 DEF LoadInv, Dominates, Stable
    <3>9. ASSUME vb'[v].uuid = 1 PROVE VisN(v) >= load[p].local[v].seq
      <4> HIDE DEF VisN
      <4> QED BY <3>4, <3>5, <3>6, <3>7, <3>8, <3>9
    <3>10. ASSUME vb'[v].uuid = 1, NEW a \in acct, a.epoch <= load[p].epoch, a.w.vb = v,
                  p \in a.pod \/ (load[p].whole /\ ~load[p].fallback[c] /\ a.published)
           PROVE  VisN(v) >= a.w.pos.seq
      <4>1. a.w.pos.seq \in Nat
        BY <1>3
      <4>2. CASE p \in a.pod
        <5>1. Holds(load[p].local, a.w)
          BY <3>1, <3>10, <4>2 DEF LoadInv
        <5>2. load[p].local[v].seq >= a.w.pos.seq \/ VisN(v) >= a.w.pos.seq
          BY <3>1, <3>4, <3>10, <5>1 DEF Holds, Stable
        <5> HIDE DEF VisN
        <5> QED BY <3>4, <3>5, <3>9, <3>10, <4>1, <5>2
      <4>3. CASE load[p].whole /\ ~load[p].fallback[c] /\ a.published
        <5>1. Holds(load[p].require, a.w)
          BY <3>1, <3>10, <4>3 DEF LoadInv
        <5>2. load[p].require[v].seq >= a.w.pos.seq \/ VisN(v) >= a.w.pos.seq
          BY <3>1, <3>4, <3>10, <5>1 DEF Holds, Stable
        <5> HIDE DEF VisN
        <5> QED BY <3>4, <3>5, <3>6, <3>7, <3>10, <4>1, <4>3, <5>2
      <4> QED BY <3>10, <4>2, <4>3
    <3>11. Req(p, ld)
      BY <1>6, <3>1, <3>2
    <3>12. Got(p, ld, c, v)
      <4> HIDE DEF VisN
      <4> QED BY <3>1, <3>2, <3>3, <3>4, <3>9, <3>10
    <3>13. ASSUME NEW d \in Colls, NEW u \in VBs PROVE Got(p, ld, d, u)
      <4>1. CASE <<d, u>> = <<c, v>>
        <5> HIDE DEF Got
        <5> QED BY <3>12, <4>1
      <4>2. CASE <<d, u>> # <<c, v>>
        <5>1. Got(p, load[p], d, u)
          BY <1>7, <3>1
        <5>2. ld.got[d][u] = load[p].got[d][u]
          BY <3>3, <4>2
        <5> HIDE DEF VisN
        <5> QED BY <3>2, <5>1, <5>2
      <4> QED BY <4>1, <4>2
    <3> HIDE DEF Req, Got
    <3>14. LI(p, ld)
      BY <3>2, <3>11, <3>13
    <3> QED BY <3>14 DEF ld
  <2>6. ASSUME NEW p \in Pods, NEW c \in Colls, ScanOutdated(p, c) PROVE LI(p, load'[p])
    <3>1. load[p].pc = "scan"
          /\ \/ load'[p] = IdleLoad
             \/ load'[p] = [load[p] EXCEPT !.fallback[c] = TRUE, !.got[c] = NoScan[c]]
      BY <1>1, <2>6 DEF ScanOutdated, SetLoad
    <3>2. CASE load'[p] = IdleLoad
      <4> HIDE DEF LI
      <4> QED BY <2>1, <3>2
    <3>3. CASE load'[p] = [load[p] EXCEPT !.fallback[c] = TRUE, !.got[c] = NoScan[c]]
      <4> DEFINE ld == load'[p]
      <4>1. /\ ld.pc = "scan" /\ ld.local = load[p].local /\ ld.require = load[p].require
            /\ ld.epoch = load[p].epoch /\ ld.whole = load[p].whole
            /\ ld.fallback = [load[p].fallback EXCEPT ![c] = TRUE]
            /\ ld.got = [load[p].got EXCEPT ![c] = NoScan[c]]
        BY <1>1, <3>1, <3>3 DEF LoadState
      <4>2. /\ \A v \in VBs : ld.got[c][v] = NotScanned
            /\ \A d \in Colls \ {c} : /\ ld.got[d] = load[p].got[d]
                                      /\ ld.fallback[d] = load[p].fallback[d]
        <5>1. load[p].fallback \in [Colls -> BOOLEAN] /\ load[p].got \in [Colls -> [VBs -> [uuid : Nat, seq : Nat \cup {-1}]]]
          BY <1>1 DEF LoadState, Scan
        <5> QED BY <2>2, <4>1, <5>1
      <4> HIDE DEF ld
      <4>3. Req(p, ld)
        BY <1>6, <3>1, <4>1
      <4>4. ASSUME NEW d \in Colls, NEW v \in VBs PROVE Got(p, ld, d, v)
        <5>1. CASE d = c
          BY <4>2, <5>1
        <5>2. CASE d # c
          <6>1. Got(p, load[p], d, v)
            BY <1>7, <3>1
          <6>2. ld.got[d][v] = load[p].got[d][v] /\ ld.fallback[d] = load[p].fallback[d]
            BY <4>2, <5>2
          <6> HIDE DEF VisN
          <6> QED BY <4>1, <6>1, <6>2
        <5> QED BY <5>1, <5>2
      <4> HIDE DEF Req, Got
      <4>5. LI(p, ld)
        BY <4>1, <4>3, <4>4
      <4> QED BY <4>5 DEF ld
    <3> QED BY <3>1, <3>2, <3>3
  <2>7. ASSUME NEW p \in Pods, LoadDone(p) \/ LoadFails(p) \/ LoadUnused(p) \/ Crash(p) PROVE LI(p, load'[p])
    <3>1. load'[p] = IdleLoad
      BY <1>1, <2>7 DEF LoadDone, LoadFails, LoadUnused, Crash, SetLoad
    <3> HIDE DEF LI
    <3> QED BY <2>1, <3>1
  <2>8. ASSUME NEW p \in Pods,
               \/ LoadEpoch(p) \/ RequireFor(p) \/ RequireFails(p)
               \/ LoadDone(p) \/ LoadFails(p) \/ LoadUnused(p) \/ Crash(p)
               \/ \E c \in Colls : ScanOutdated(p, c) \/ \E v \in VBs : ScanVb(p, c, v)
        PROVE \A q \in Pods \ {p} : load'[q] = load[q]
    <3>1. \E rec : load' = [load EXCEPT ![p] = rec]
      BY <2>8, Zenon DEF LoadEpoch, RequireFor, RequireFails, LoadDone, LoadFails, LoadUnused, Crash,
         ScanOutdated, ScanVb, SetLoad
    <3> QED BY <1>1, <3>1
  <2> HIDE DEF LI
  <2>9. load' = load => \A p \in Pods : LI(p, load'[p])
    BY <1>8
  <2>10. ASSUME NEW p \in Pods,
               \/ LoadEpoch(p) \/ RequireFor(p) \/ RequireFails(p)
               \/ LoadDone(p) \/ LoadFails(p) \/ LoadUnused(p) \/ Crash(p)
               \/ \E c \in Colls : ScanOutdated(p, c) \/ \E v \in VBs : ScanVb(p, c, v)
        PROVE \A q \in Pods : LI(q, load'[q])
    <3>1. LI(p, load'[p])
      BY <2>3, <2>4, <2>5, <2>6, <2>7, <2>10
    <3>2. \A q \in Pods \ {p} : LI(q, load'[q])
      BY <1>8, <2>8, <2>10
    <3> QED BY <3>1, <3>2
  <2> QED BY <2>9, <2>10, LoadChange
<1>10. ASSUME NEW p \in Pods, load'[p].pc = "scan"
       PROVE  Req(p, load'[p]) /\ \A c \in Colls, v \in VBs : Got(p, load'[p], c, v)
  <2> HIDE DEF Req, Got
  <2> QED BY <1>9, <1>10
<1>11. ASSUME NEW p \in Pods, load'[p].pc = "scan"
       PROVE  Dominates(load[p].require, load[p].local)'
  BY <1>10, <1>11 DEF Dominates, DominatesNext, Stable
<1>12. ASSUME NEW p \in Pods, load'[p].pc = "scan", NEW a \in acct', a.epoch <= load'[p].epoch
       PROVE  /\ p \in a.pod => Holds(load[p].local, a.w)'
              /\ (load'[p].whole /\ a.published) => Holds(load[p].require, a.w)'
  <2>1. /\ p \in a.pod => HoldsNext(load'[p].local, a.w)
        /\ (load'[p].whole /\ a.published) => HoldsNext(load'[p].require, a.w)
    BY <1>10, <1>12
  <2> QED BY <2>1 DEF Holds, HoldsNext, Stable, Visible
<1>13. ASSUME NEW p \in Pods, load'[p].pc = "scan", NEW c \in Colls, NEW v \in VBs,
              Stable(v)', load'[p].got[c][v] # NotScanned
       PROVE  /\ Visible(v)'.seq >= load'[p].local[v].seq
              /\ \A a \in acct' :
                   (a.epoch <= load'[p].epoch /\ a.w.vb = v
                    /\ (p \in a.pod
                        \/ (load'[p].whole /\ ~load'[p].fallback[c] /\ a.published)))
                     => load'[p].got[c][v].seq >= a.w.pos.seq
  <2>1. vb'[v].uuid = 1 /\ Visible(v)'.seq = VisN(v)
    BY <1>13 DEF Stable, Visible
  <2>2. Got(p, load'[p], c, v)
    <3> HIDE DEF Got
    <3> QED BY <1>10, <1>13
  <2> QED BY <1>13, <2>1, <2>2
<1>14. ASSUME NEW p \in Pods, load'[p].pc = "require" PROVE load'[p].got = NoScan
  <2> HIDE DEF Req, Got
  <2> QED BY <1>9, <1>14
<1> HIDE DEF Req, Got, LI, VisN
<1> QED BY <1>11, <1>12, <1>13, <1>14 DEF LoadInv


-----------------------------------------------------------------------------
(* A completed load hands its guarantee to the snapshot it becomes.          *)
LEMMA SnapStep ==
  ASSUME TypeOK, EpochInv, LoadInv, OwnWritesSeen, PublishedWritesSeen, [Next]_vars
  PROVE  OwnWritesSeen' /\ PublishedWritesSeen'
<1> DEFINE SP(p, s) ==
             \A a \in acct' :
               (/\ vb'[a.w.vb].uuid = 1 /\ a.epoch <= s.epoch
                /\ p \in a.pod \/ (s.whole /\ a.published))
                 => s.seen[a.w.coll][a.w.vb].seq >= a.w.pos.seq
<1>1. /\ load \in [Pods -> LoadState] /\ snap \in [Pods -> SnapState] /\ epoch \in Nat
      /\ acct \subseteq Accounted /\ acct' \subseteq Accounted
  BY StepType DEF TypeOK
<1>2. \A a \in acct' : a.w \in Write /\ a.epoch \in Nat /\ a.w.vb \in VBs /\ a.w.coll \in Colls
  BY <1>1 DEF Accounted, Write
<1>3. \A p \in Pods : SP(p, snap[p])
  <2> SUFFICES ASSUME NEW p \in Pods, NEW a \in acct',
                      vb'[a.w.vb].uuid = 1, a.epoch <= snap[p].epoch,
                      p \in a.pod \/ (snap[p].whole /\ a.published)
               PROVE  Sees(p, a.w)
    BY DEF Sees
  <2>1. a.epoch <= epoch
    BY <1>1, <1>2 DEF EpochInv, SnapState
  <2>2. PICK b \in acct : /\ b.epoch = a.epoch /\ b.w = a.w
                          /\ a.pod \subseteq b.pod
                          /\ a.published => b.published
    BY <2>1, AcctOld
  <2>3. Stable(b.w.vb)
    BY <1>2, <2>2, VbGrows DEF Stable
  <2>4. CASE p \in a.pod
    BY <2>2, <2>3, <2>4 DEF OwnWritesSeen
  <2>5. CASE snap[p].whole /\ a.published
    BY <2>2, <2>3, <2>5 DEF PublishedWritesSeen
  <2> QED BY <2>4, <2>5
<1>4. \A p \in Pods : SP(p, NoSnap)
  BY <1>2 DEF NoSnap
<1>5. ASSUME NEW p \in Pods, LoadDone(p) PROVE SP(p, snap'[p])
  <2>1. /\ load[p].pc = "scan" /\ acct' = acct /\ vb' = vb
        /\ \A c \in Colls, v \in VBs : load[p].got[c][v] # NotScanned
    BY <1>5 DEF LoadDone, server
  <2>2. /\ snap'[p].epoch = load[p].epoch /\ snap'[p].seen = load[p].got
        /\ snap'[p].whole => load[p].whole /\ \A c \in Colls : ~load[p].fallback[c]
    <3> DEFINE whole == load[p].whole /\ \A c \in Colls : ~load[p].fallback[c]
    <3>1. snap' = [snap EXCEPT ![p] =
                [epoch |-> load[p].epoch, seen |-> load[p].got, whole |-> whole]]
      BY <1>5 DEF LoadDone
    <3>2. whole \in BOOLEAN /\ (whole => load[p].whole /\ \A c \in Colls : ~load[p].fallback[c])
      BY <1>1 DEF LoadState
    <3> HIDE DEF whole
    <3>3. snap'[p] = [epoch |-> load[p].epoch, seen |-> load[p].got, whole |-> whole]
      BY <1>1, <3>1
    <3>4. snap'[p].whole = whole
      BY <3>2, <3>3
    <3> QED BY <3>2, <3>3, <3>4
  <2> SUFFICES ASSUME NEW a \in acct,
                      vb[a.w.vb].uuid = 1, a.epoch <= load[p].epoch,
                      p \in a.pod \/ (snap'[p].whole /\ a.published)
               PROVE  load[p].got[a.w.coll][a.w.vb].seq >= a.w.pos.seq
    BY <2>1, <2>2
  <2>3. \/ p \in a.pod
        \/ load[p].whole /\ ~load[p].fallback[a.w.coll] /\ a.published
    BY <1>2, <2>1, <2>2
  <2> QED BY <1>2, <2>1, <2>3 DEF LoadInv, Stable
<1>6. \A p \in Pods : \/ snap'[p] = snap[p] \/ snap'[p] = NoSnap
                      \/ LoadDone(p)
  BY <1>1, SnapChange DEF LoadDone, Crash
<1>7. \A p \in Pods : SP(p, snap'[p])
  <2> HIDE DEF SP
  <2> QED BY <1>3, <1>4, <1>5, <1>6
<1> QED BY <1>7 DEF OwnWritesSeen, PublishedWritesSeen, Stable, Sees

-----------------------------------------------------------------------------
(* Nothing is written, read or outstanding when the cluster is empty.        *)
LEMMA InitInv == Init => IInv
<1> SUFFICES ASSUME Init PROVE IInv
  OBVIOUS
<1>1. TypeOK
  BY InitType
<1>2. \A v \in VBs : Placed(NoPos, v)
  BY DEF Init, Placed, NoPos
<1>3. AllPlaced(NoPositions)
  BY <1>2 DEF AllPlaced, NoPositions
<1>4. PositionsInv
  BY <1>3 DEF Init, PositionsInv, IdleLoad, IdleReq
<1>5. EpochInv
  BY DEF Init, EpochInv, IdleLoad, IdleReq, NoSnap
<1>6. NotedInv /\ PublishInv /\ LoadInv
  BY DEF Init, NotedInv, PublishInv, LoadInv, IdleReq, IdleLoad
<1>7. OwnWritesSeen /\ PublishedWritesSeen
  BY DEF Init, OwnWritesSeen, PublishedWritesSeen
<1> QED BY <1>1, <1>4, <1>5, <1>6, <1>7 DEF IInv

(* Each conjunct is kept by the lemma of its name, from those before it. *)
LEMMA StepInv == IInv /\ [Next]_vars => IInv'
BY StepType, PositionsStep, EpochStep, NotedStep, PublishStep, LoadStep, SnapStep DEF IInv

(* The invariant holds throughout. *)
LEMMA Inductive == Spec => []IInv
BY InitInv, StepInv, PTL DEF Spec

(* No process ever serves a snapshot stamped with an epoch that accounts for *)
(* one of its own writes without that write in it: what writeWatermark,       *)
(* observed and requireFor promise together.                                  *)
THEOREM OwnWritesAlwaysSeen == Spec => []OwnWritesSeen
<1>1. IInv => OwnWritesSeen
  BY DEF IInv
<1> QED BY <1>1, Inductive, PTL

(* No process ever serves a snapshot read under the whole requirement whose   *)
(* epoch accounts for a published write that is missing from it, whoever made *)
(* the write: what publishWrites before the increment, and the epoch read     *)
(* before requireFor, promise together.                                       *)
THEOREM PublishedWritesAlwaysSeen == Spec => []PublishedWritesSeen
<1>1. IInv => PublishedWritesSeen
  BY DEF IInv
<1> QED BY <1>1, Inductive, PTL

(* No round of publishWrites drops or weakens a position that meta::writes    *)
(* holds, whatever other publishers did between its read and its replace.     *)
THEOREM PublishedNeverWeakened == Spec => PublishedNeverWeakens
<1>1. IInv /\ [Next]_vars =>
        [\A v \in VBs : (Stable(v) /\ wdoc.ok /\ wdoc'.ok)
            => wdoc'.pos[v].seq >= wdoc.pos[v].seq]_vars
  <2> SUFFICES ASSUME IInv, [Next]_vars, NEW v \in VBs, Stable(v), wdoc.ok, wdoc'.ok
               PROVE  wdoc'.pos[v].seq >= wdoc.pos[v].seq
    OBVIOUS
  <2>0. wdoc \in WritesDoc
    BY DEF IInv, TypeOK
  <2>1. ~DamageWrites
    BY DEF DamageWrites
  <2>2. wdoc.pos[v].seq \in Nat
    BY <2>0 DEF WritesDoc, Positions, Position, NoPos
  <2>3. CASE wdoc' = wdoc
    BY <2>2, <2>3
  <2>4. ASSUME NEW r \in Requests, ReplaceWrites(r) \/ PublishFails(r), wdoc' # wdoc
        PROVE  wdoc'.pos[v].seq >= wdoc.pos[v].seq
    <3>1. /\ req[r].pc = "replace"
          /\ wdoc.cas = req[r].cas
          /\ wdoc' = [cas |-> wdoc.cas + 1, ok |-> TRUE, pos |-> req[r].read]
      BY <2>4, Zenon DEF ReplaceWrites, PublishFails
    <3>2. Dominates(req[r].read, wdoc.pos)
      BY <3>1 DEF IInv, PublishInv
    <3> QED BY <3>1, <3>2 DEF Dominates
  <2> QED BY <2>1, <2>3, <2>4, WdocChange
<1> QED BY <1>1, Inductive, PTL DEF Spec, PublishedNeverWeakens

-----------------------------------------------------------------------------
(* Views only move forward.                                                *)

\* Nothing of a scan is newer than what a bulk read can return now.
NotAhead(scan) ==
  \A c \in Colls, v \in VBs : Stable(v) => scan[c][v].seq <= Visible(v).seq

\* Whatever has been scanned of got is at least as new as it is in seen.
GotAhead(got, seen) ==
  \A c \in Colls, v \in VBs :
    (Stable(v) /\ got[c][v] # NotScanned) => seen[c][v].seq <= got[c][v].seq

\* A load under way was begun at the snapshot's epoch or a later one, and has
\* read nothing older than the snapshot has.
ForwardInv ==
  \A p \in Pods :
    /\ load[p].pc # "idle" => snap[p].epoch <= load[p].epoch
    /\ NotAhead(snap[p].seen) /\ NotAhead(load[p].got)
    /\ GotAhead(load[p].got, snap[p].seen)

(* What a bulk read returns never shrinks within a history. *)
LEMMA VisibleGrows ==
  ASSUME TypeOK, [Next]_vars
  PROVE  \A v \in VBs : Stable(v)' =>
           Stable(v) /\ Visible(v).seq <= Visible(v)'.seq
BY VbGrows DEF Stable, Visible, Vbucket

(* A step of a load keeps what was scanned of a vbucket, forgets it, or scans *)
(* the vbucket; the epoch it was begun at stays.                              *)
LEMMA GotChange ==
  ASSUME TypeOK, [Next]_vars, NEW p \in Pods
  PROVE  /\ \A c \in Colls, v \in VBs :
              load'[p].got[c][v] \in {load[p].got[c][v], NotScanned, Visible(v)}
         /\ load'[p].pc # "idle" =>
              \/ load[p].pc # "idle" /\ load'[p].epoch = load[p].epoch
              \/ load[p].pc = "idle" /\ load'[p].epoch = epoch
<1> DEFINE R(rec) ==
      /\ \A c \in Colls, v \in VBs :
              rec.got[c][v] \in {load[p].got[c][v], NotScanned, Visible(v)}
      /\ rec.pc # "idle" =>
              \/ load[p].pc # "idle" /\ rec.epoch = load[p].epoch
              \/ load[p].pc = "idle" /\ rec.epoch = epoch
<1>1. load \in [Pods -> LoadState] /\ load[p] \in LoadState
  BY DEF TypeOK
<1>2. R(load[p])
  OBVIOUS
<1>3. R(IdleLoad)
  BY DEF IdleLoad, NoScan
<1>4. ASSUME NEW q \in Pods, LoadDone(q) \/ LoadFails(q) \/ LoadUnused(q) \/ Crash(q)
      PROVE  load'[p] = load[p] \/ load'[p] = IdleLoad
  BY <1>1, <1>4 DEF LoadDone, LoadFails, LoadUnused, Crash, SetLoad
<1>5. ASSUME NEW q \in Pods, LoadEpoch(q) PROVE load'[p] = load[p] \/ R(load'[p])
  <2> DEFINE rec == [IdleLoad EXCEPT !.pc = "require", !.epoch = epoch]
  <2>1. rec.got = NoScan /\ rec.epoch = epoch
    BY DEF IdleLoad
  <2>2. load' = [load EXCEPT ![q] = rec] /\ load[q].pc = "idle"
    BY <1>5 DEF LoadEpoch, SetLoad
  <2> HIDE DEF rec
  <2>3. p # q => load'[p] = load[p]
    BY <1>1, <2>2
  <2>4. p = q => R(load'[p])
    BY <1>1, <2>1, <2>2 DEF NoScan
  <2> QED BY <2>3, <2>4
<1>6. ASSUME NEW q \in Pods, RequireFor(q) \/ RequireFails(q)
      PROVE  load'[p] = load[p] \/ R(load'[p])
  <2>1. PICK loc, rq, k, b : load' = [load EXCEPT ![q] =
           [load[q] EXCEPT !.pc = "scan", !.local = loc, !.require = rq,
                           !.cas = k, !.whole = b]]
    <3> DEFINE F(loc, rq, k, b) == load' = [load EXCEPT ![q] =
           [load[q] EXCEPT !.pc = "scan", !.local = loc, !.require = rq,
                           !.cas = k, !.whole = b]]
    <3>1. RequireFails(q) => F(tokens[q], tokens[q], 0, FALSE)
      BY DEF RequireFails, SetLoad
    <3>2. RequireFor(q) =>
            LET absent == wdoc.cas = 0
                folds  == UseRangeScan /\ ~absent /\ wdoc.ok /\ refused[q] # wdoc.cas
            IN F(tokens[q], IF folds THEN Fold(wdoc.pos, tokens[q]) ELSE tokens[q],
                 IF folds THEN wdoc.cas ELSE 0, folds \/ absent \/ ~UseRangeScan)
      BY DEF RequireFor, SetLoad
    <3> HIDE DEF F
    <3>3. \E loc, rq, k, b : F(loc, rq, k, b)
      BY <1>6, <3>1, <3>2
    <3> QED BY <3>3 DEF F
  <2>2. load[q].pc = "require"
    BY <1>6 DEF RequireFor, RequireFails
  <2>3. p # q => load'[p] = load[p]
    BY <1>1, <2>1
  <2>4. p = q => load'[p].got = load[p].got /\ load'[p].epoch = load[p].epoch
    BY <1>1, <2>1 DEF LoadState
  <2> QED BY <2>2, <2>3, <2>4
<1>7. ASSUME NEW q \in Pods, NEW c \in Colls, NEW v \in VBs, ScanVb(q, c, v)
      PROVE  load'[p] = load[p] \/ R(load'[p])
  <2> DEFINE rec == [load[q] EXCEPT !.got[c][v] = Visible(v)]
  <2>1. load' = [load EXCEPT ![q] = rec] /\ load[q].pc = "scan"
    BY <1>7 DEF ScanVb, SetLoad
  <2>2. p # q => load'[p] = load[p]
    BY <1>1, <2>1
  <2>3. load[q].got \in Scan
    BY <1>1 DEF LoadState, TypeOK
  <2>4. /\ rec.got = [load[q].got EXCEPT ![c][v] = Visible(v)]
        /\ rec.epoch = load[q].epoch
    BY <1>1 DEF LoadState
  <2>5. \A d \in Colls, u \in VBs :
          rec.got[d][u] \in {load[q].got[d][u], Visible(u)}
    BY <2>3, <2>4 DEF Scan
  <2> HIDE DEF rec
  <2>6. p = q => load'[p] = rec
    BY <1>1, <2>1
  <2>7. p = q => R(rec)
    BY <2>1, <2>4, <2>5
  <2> HIDE DEF R
  <2> QED BY <2>2, <2>6, <2>7
<1>8. ASSUME NEW q \in Pods, NEW c \in Colls, ScanOutdated(q, c)
      PROVE  load'[p] \in {load[p], IdleLoad} \/ R(load'[p])
  <2> DEFINE rec == [load[q] EXCEPT !.fallback[c] = TRUE, !.got[c] = NoScan[c]]
  <2>1. (load' = [load EXCEPT ![q] = rec] \/ load' = [load EXCEPT ![q] = IdleLoad])
    BY <1>8 DEF ScanOutdated, SetLoad
  <2>2. load[q].pc = "scan"
    BY <1>8 DEF ScanOutdated
  <2>3. load[q].got \in Scan
    BY <1>1 DEF LoadState, TypeOK
  <2>4. /\ rec.got = [load[q].got EXCEPT ![c] = NoScan[c]]
        /\ rec.epoch = load[q].epoch
    BY <1>1 DEF LoadState
  <2>5. \A d \in Colls, u \in VBs :
          rec.got[d][u] \in {load[q].got[d][u], NotScanned}
    BY <2>3, <2>4 DEF Scan, NoScan
  <2> HIDE DEF rec
  <2>6. load'[p] \in {load[p], IdleLoad} \/ (p = q /\ load'[p] = rec)
    BY <1>1, <2>1
  <2>7. p = q => R(rec)
    BY <2>2, <2>4, <2>5
  <2> HIDE DEF R
  <2> QED BY <2>6, <2>7
<1> HIDE DEF R
<1>9. R(load'[p])
  BY <1>2, <1>3, <1>4, <1>5, <1>6, <1>7, <1>8, LoadChange
<1> QED BY <1>9 DEF R

(* A snapshot stays, is lost with its process, or is the completed load's. *)
LEMMA ServedChange ==
  ASSUME TypeOK, [Next]_vars, NEW p \in Pods
  PROVE  \/ snap'[p] = snap[p]
         \/ snap'[p] = NoSnap /\ load'[p] = IdleLoad
         \/ /\ load'[p] = IdleLoad
            /\ load[p].pc = "scan"
            /\ snap'[p].epoch = load[p].epoch
            /\ snap'[p].seen = load[p].got
            /\ \A c \in Colls, v \in VBs : load[p].got[c][v] # NotScanned
<1>1. snap \in [Pods -> SnapState] /\ load \in [Pods -> LoadState]
  BY DEF TypeOK
<1>2. ASSUME NEW q \in Pods, Crash(q)
      PROVE  snap'[p] = snap[p] \/ (snap'[p] = NoSnap /\ load'[p] = IdleLoad)
  <2>1. snap' = [snap EXCEPT ![q] = NoSnap] /\ load' = [load EXCEPT ![q] = IdleLoad]
    BY <1>2 DEF Crash
  <2>2. p = q => snap'[p] = NoSnap /\ load'[p] = IdleLoad
    BY <1>1, <2>1
  <2>3. p # q => snap'[p] = snap[p]
    BY <1>1, <2>1
  <2> QED BY <2>2, <2>3
<1>3. ASSUME NEW q \in Pods, LoadDone(q), p # q PROVE snap'[p] = snap[p]
  BY <1>1, <1>3 DEF LoadDone
<1>4. ASSUME LoadDone(p)
      PROVE  /\ load'[p] = IdleLoad
             /\ load[p].pc = "scan"
             /\ snap'[p].epoch = load[p].epoch
             /\ snap'[p].seen = load[p].got
             /\ \A c \in Colls, v \in VBs : load[p].got[c][v] # NotScanned
  BY <1>1, <1>4 DEF LoadDone, SetLoad
<1> QED BY <1>2, <1>3, <1>4, SnapChange

(* A load starts at the epoch of the moment and reads what is visible then, *)
(* so a snapshot is replaced by one no older in any vbucket.                *)
LEMMA ForwardStep ==
  ASSUME TypeOK, EpochInv, ForwardInv, [Next]_vars
  PROVE  ForwardInv'
<1> SUFFICES ASSUME NEW p \in Pods
             PROVE  /\ load'[p].pc # "idle" => snap'[p].epoch <= load'[p].epoch
                    /\ NotAhead(snap[p].seen)' /\ NotAhead(load[p].got)'
                    /\ GotAhead(load[p].got, snap[p].seen)'
  BY DEF ForwardInv
<1>0. TypeOK'
  BY StepType
<1>1. /\ snap[p].epoch <= epoch
      /\ load[p].pc # "idle" => snap[p].epoch <= load[p].epoch
      /\ NotAhead(snap[p].seen) /\ NotAhead(load[p].got)
      /\ GotAhead(load[p].got, snap[p].seen)
  BY DEF ForwardInv, EpochInv
<1>2. /\ snap[p].epoch \in Int /\ load[p].epoch \in Int /\ epoch \in Int
      /\ snap[p].seen \in Scan /\ load[p].got \in Scan
  BY DEF TypeOK, SnapState, LoadState
<1>3. ASSUME NEW c \in Colls, NEW v \in VBs, Stable(v)'
      PROVE  /\ snap[p].seen[c][v].seq \in Int
             /\ load[p].got[c][v].seq \in Int
             /\ Visible(v).seq \in Int
             /\ Visible(v)'.seq \in Int
             /\ Visible(v).seq <= Visible(v)'.seq
             /\ Visible(v).seq >= 0
             /\ snap[p].seen[c][v].seq <= Visible(v).seq
             /\ load[p].got[c][v].seq <= Visible(v).seq
             /\ load[p].got[c][v] # NotScanned =>
                  snap[p].seen[c][v].seq <= load[p].got[c][v].seq
  <2>1. Stable(v) /\ Visible(v).seq <= Visible(v)'.seq
    BY <1>3, VisibleGrows
  <2>2. Visible(v).seq \in Nat
    BY DEF Visible, TypeOK, Vbucket
  <2>3. Visible(v)'.seq \in Nat
    BY <1>0 DEF Visible, TypeOK, Vbucket
  <2>4. snap[p].seen[c][v].seq \in Int /\ load[p].got[c][v].seq \in Int
    BY <1>2 DEF Scan
  <2>5. /\ snap[p].seen[c][v].seq <= Visible(v).seq
        /\ load[p].got[c][v].seq <= Visible(v).seq
    BY <1>1, <2>1 DEF NotAhead
  <2>6. load[p].got[c][v] # NotScanned =>
                  snap[p].seen[c][v].seq <= load[p].got[c][v].seq
    BY <1>1, <2>1 DEF GotAhead
  <2> QED BY <2>1, <2>2, <2>3, <2>4, <2>5, <2>6
<1>4. ASSUME NEW c \in Colls, NEW v \in VBs
      PROVE  load'[p].got[c][v] \in {load[p].got[c][v], NotScanned, Visible(v)}
  BY GotChange
<1>5. NotScanned.seq = -1 /\ NoSnap.seen = NoScan /\ IdleLoad.got = NoScan
      /\ NoSnap.epoch = -1 /\ IdleLoad.pc = "idle"
  BY DEF NotScanned, NoSnap, IdleLoad
<1>6. ASSUME NEW c \in Colls, NEW v \in VBs PROVE NoScan[c][v] = NotScanned
  BY DEF NoScan
<1>7. ASSUME NEW c \in Colls, NEW v \in VBs, Stable(v)'
      PROVE  load'[p].got[c][v].seq <= Visible(v)'.seq
  BY <1>3, <1>4, <1>5, <1>7
<1>8. ASSUME NEW c \in Colls, NEW v \in VBs, Stable(v)'
      PROVE  snap'[p].seen[c][v].seq <= Visible(v)'.seq
  BY <1>3, <1>5, <1>6, <1>8, ServedChange
<1>9. ASSUME NEW c \in Colls, NEW v \in VBs, Stable(v)', load'[p].got[c][v] # NotScanned
      PROVE  snap'[p].seen[c][v].seq <= load'[p].got[c][v].seq
  <2>1. CASE snap'[p] = snap[p]
    BY <1>3, <1>4, <1>9, <2>1
  <2>2. CASE load'[p] = IdleLoad
    BY <1>5, <1>6, <1>9, <2>2
  <2> QED BY <2>1, <2>2, ServedChange
<1>10. load'[p].pc # "idle" => snap'[p].epoch <= load'[p].epoch
  <2>1. CASE snap'[p] = snap[p]
    BY <1>1, <1>2, <2>1, GotChange
  <2>2. CASE load'[p] = IdleLoad
    BY <1>5, <2>2
  <2> QED BY <2>1, <2>2, ServedChange
<1>11. NotAhead(snap[p].seen)' /\ NotAhead(load[p].got)'
  BY <1>7, <1>8 DEF NotAhead
<1>12. GotAhead(load[p].got, snap[p].seen)'
  BY <1>9 DEF GotAhead
<1> QED BY <1>10, <1>11, <1>12

(* Nothing has been read or served when the cluster is empty. *)
LEMMA ForwardInit == Init => ForwardInv
<1> SUFFICES ASSUME Init PROVE ForwardInv
  OBVIOUS
<1>1. ASSUME NEW p \in Pods
      PROVE  snap[p].seen = NoScan /\ load[p].got = NoScan /\ load[p].pc = "idle"
  BY DEF Init, NoSnap, IdleLoad
<1>2. ASSUME NEW c \in Colls, NEW v \in VBs
      PROVE  NoScan[c][v] = NotScanned /\ NotScanned.seq = -1
  BY DEF NoScan, NotScanned
<1>3. ASSUME NEW v \in VBs PROVE Visible(v).seq = 0
  BY DEF Init, Visible
<1>4. NotAhead(NoScan) /\ GotAhead(NoScan, NoScan)
  BY <1>2, <1>3 DEF NotAhead, GotAhead
<1> QED BY <1>1, <1>4 DEF ForwardInv

(* The views of a live process only move forward. *)
LEMMA ForwardInductive == Spec => [](IInv /\ ForwardInv)
<1>1. Init => IInv /\ ForwardInv
  BY InitInv, ForwardInit
<1>2. IInv /\ ForwardInv /\ [Next]_vars => (IInv /\ ForwardInv)'
  <2>1. IInv => TypeOK /\ EpochInv
    BY DEF IInv
  <2> QED BY <2>1, StepInv, ForwardStep
<1> QED BY <1>1, <1>2, PTL DEF Spec

(* A reload of a live process never puts an older view in place of a newer    *)
(* one, in its epoch or in any vbucket of any collection: Builder.mu lets one *)
(* reload run at a time, it reads the epoch and scans after the one before it *)
(* was swapped in, and a failed one leaves the snapshot alone.                *)
THEOREM SnapshotOnlyAdvances == Spec => SnapshotNeverRegresses
<1>1. IInv /\ ForwardInv /\ [Next]_vars =>
        [\A p \in Pods : snap'[p] = NoSnap \/
           /\ snap'[p].epoch >= snap[p].epoch
           /\ \A c \in Colls, v \in VBs :
                Stable(v)' => snap'[p].seen[c][v].seq >= snap[p].seen[c][v].seq]_vars
  <2> SUFFICES ASSUME IInv, ForwardInv, [Next]_vars, NEW p \in Pods, snap'[p] # NoSnap
               PROVE  /\ snap'[p].epoch >= snap[p].epoch
                      /\ \A c \in Colls, v \in VBs :
                           Stable(v)' => snap'[p].seen[c][v].seq >= snap[p].seen[c][v].seq
    OBVIOUS
  <2>1. TypeOK
    BY DEF IInv
  <2>2. /\ snap[p].epoch \in Int /\ load[p].epoch \in Int
        /\ snap[p].seen \in Scan /\ load[p].got \in Scan
    BY <2>1 DEF TypeOK, SnapState, LoadState
  <2>3. ASSUME NEW c \in Colls, NEW v \in VBs
        PROVE  snap[p].seen[c][v].seq \in Int /\ load[p].got[c][v].seq \in Int
    BY <2>2 DEF Scan
  <2>4. CASE snap'[p] = snap[p]
    BY <2>2, <2>3, <2>4
  <2>5. CASE /\ load[p].pc = "scan"
             /\ snap'[p].epoch = load[p].epoch
             /\ snap'[p].seen = load[p].got
             /\ \A c \in Colls, v \in VBs : load[p].got[c][v] # NotScanned
    <3>1. snap[p].epoch <= load[p].epoch
      BY <2>5 DEF ForwardInv
    <3>2. ASSUME NEW c \in Colls, NEW v \in VBs, Stable(v)'
          PROVE  snap[p].seen[c][v].seq <= load[p].got[c][v].seq
      <4>1. Stable(v)
        BY <2>1, <3>2, VisibleGrows
      <4> QED BY <2>5, <4>1 DEF ForwardInv, GotAhead
    <3> QED BY <2>2, <2>3, <2>5, <3>1, <3>2
  <2> QED BY <2>1, <2>4, <2>5, ServedChange
<1> QED BY <1>1, ForwardInductive, PTL DEF Spec, SnapshotNeverRegresses
=============================================================================
