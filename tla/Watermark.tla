----------------------------- MODULE Watermark -----------------------------
(***************************************************************************)
(* The Couchbase driver's reload guarantee.                                *)
(*                                                                         *)
(* A bulk read (KV range scan) answers from what a vbucket has PERSISTED,   *)
(* so a write acknowledged from memory may be missing from it.  Three       *)
(* pieces of state close that window:                                      *)
(*                                                                         *)
(*   tokens[p]   this pod's own mutations no bulk read has yet been shown   *)
(*               to observe (writeWatermark);                              *)
(*   wdoc        meta::writes, the positions every pod published before it *)
(*               moved the epoch (publishedWrites), replaced under CAS;    *)
(*   epoch       meta::epoch, read by a reload BEFORE its requirement is    *)
(*               built and stamped on the snapshot.                        *)
(*                                                                         *)
(* Admin requests run concurrently on every pod; each goes through the     *)
(* driver's calls one store round trip at a time.  A pod runs one reload   *)
(* at a time (Builder.mu).                                                 *)
(*                                                                         *)
(* A mutation is identified by where it landed: its collection, its        *)
(* vbucket and its <<vbucket UUID, sequence number>>.  What the document   *)
(* holds is left to module Serving.                                        *)
(***************************************************************************)
EXTENDS Integers, FiniteSets

CONSTANTS
  Pods,            \* mockulus replicas
  VBs,             \* vbuckets of the bucket
  Colls,           \* collections a bulk read scans: mappings, files
  Requests,        \* admin requests that may be in flight at once
  PodOf,           \* [Requests -> Pods]: the pod that serves a request
  UseRangeScan,    \* TRUE: KV range scan; FALSE: the N1QL arm
  Resyncs,         \* TRUE: reloads also happen when the epoch has not moved
  PublishAttempts, \* rounds publishWrites tries before it gives up
  MaxSeq,          \* bound: mutations of one vbucket's history
  MaxEpoch,        \* bound: epoch increments
  MaxUuid,         \* bound: vbucket histories (failovers + 1)
  MaxFaults        \* bound: failed calls, crashes, damaged documents

ASSUME ConstantsAssumption ==
  /\ PodOf \in [Requests -> Pods]
  /\ UseRangeScan \in BOOLEAN /\ Resyncs \in BOOLEAN
  /\ PublishAttempts \in Nat \ {0}
  /\ Colls # {}
  /\ MaxSeq \in Nat /\ MaxEpoch \in Nat /\ MaxUuid \in Nat /\ MaxFaults \in Nat

VARIABLES
  vb,       \* the server's vbuckets: history UUID, newest and persisted seqno
  epoch,    \* meta::epoch
  wdoc,     \* meta::writes: its version, whether it decodes, its positions
  tokens,   \* per pod: writeWatermark.tokens
  refused,  \* per pod: publishedWatermark.refused
  snap,     \* per pod: the served snapshot's epoch and what its scans saw
  load,     \* per pod: the LoadAll in progress
  req,      \* per request: where it is between its store calls
  acct,     \* history: the writes each epoch increment accounted for
  faults    \* how many faults have happened

vars == <<vb, epoch, wdoc, tokens, refused, snap, load, req, acct, faults>>
server == <<vb, epoch, wdoc>>

-----------------------------------------------------------------------------
(* Positions and the operations on them.                                   *)

\* No position is held for a vbucket.  Real UUIDs and seqnos start at 1.
NoPos == [uuid |-> 0, seq |-> 0]

\* One position per vbucket, or none: tokens, meta::writes, a requirement.
NoPositions == [v \in VBs |-> NoPos]

\* A newly seen mutation replaces the one held for its vbucket.  Across two
\* histories the incoming one wins; NoPos is superseded by every mutation.
Supersedes(held, got) == held.uuid # got.uuid \/ got.seq > held.seq

\* A read that observed proven has also observed held.
Covered(held, proven) == held.uuid = proven.uuid /\ held.seq <= proven.seq

\* publishedWrites.fold: merge newer positions in.
Fold(w, newer) ==
  [v \in VBs |->
     IF newer[v] # NoPos /\ Supersedes(w[v], newer[v]) THEN newer[v] ELSE w[v]]

\* Mutant of Note: requires the position before the one just written.
NoteOffByOne(held, v, pos) ==
  IF Supersedes(held[v], pos) THEN [held EXCEPT ![v] = [pos EXCEPT !.seq = @ - 1]]
                              ELSE held

\* writeWatermark.note: record one mutation.
Note(held, v, pos) ==
  IF Supersedes(held[v], pos) THEN [held EXCEPT ![v] = pos] ELSE held

\* writeWatermark.observed: drop what a completed read has satisfied.
Observed(held, proven) ==
  [v \in VBs |->
     IF proven[v] # NoPos /\ Covered(held[v], proven[v]) THEN NoPos ELSE held[v]]

\* The newest position a bulk read of the vbucket can return: what is on disk
\* for a range scan, everything for a RequestPlus query.
Visible(v) == [uuid |-> vb[v].uuid,
               seq  |-> IF UseRangeScan THEN vb[v].disk ELSE vb[v].mem]

-----------------------------------------------------------------------------
NotScanned == [uuid |-> 0, seq |-> -1]

NoScan == [c \in Colls |-> [v \in VBs |-> NotScanned]]

IdleLoad == [pc |-> "idle", epoch |-> 0, local |-> NoPositions,
             require |-> NoPositions, cas |-> 0, whole |-> TRUE,
             fallback |-> [c \in Colls |-> FALSE], got |-> NoScan]

IdleReq == [pc |-> "idle", new |-> {}, ws |-> {}, local |-> NoPositions,
            read |-> NoPositions, cas |-> 0, tries |-> 0, published |-> FALSE]

\* The empty snapshot a process starts with; -1: no reload has completed.
NoSnap == [epoch |-> -1, whole |-> TRUE, seen |-> NoScan]

Init ==
  /\ vb = [v \in VBs |-> [uuid |-> 1, mem |-> 0, disk |-> 0]]
  /\ epoch = 0
  /\ wdoc = [cas |-> 0, ok |-> TRUE, pos |-> NoPositions]
  /\ tokens = [p \in Pods |-> NoPositions]
  /\ refused = [p \in Pods |-> 0]
  /\ snap = [p \in Pods |-> NoSnap]
  /\ load = [p \in Pods |-> IdleLoad]
  /\ req = [r \in Requests |-> IdleReq]
  /\ acct = {}
  /\ faults = 0

Fault == faults < MaxFaults /\ faults' = faults + 1

-----------------------------------------------------------------------------
(* The cluster (external).                                                 *)

\* The disk queue of a vbucket catches up.
Persist(v) ==
  /\ vb[v].disk < vb[v].mem
  /\ vb' = [vb EXCEPT ![v].disk = @ + 1]
  /\ UNCHANGED <<epoch, wdoc, tokens, refused, snap, load, req, acct, faults>>

\* A replica takes the vbucket over: a new history, of which an unknown part
\* of the old one is a prefix, and of which an unknown part is on disk.
Failover(v) ==
  /\ vb[v].uuid < MaxUuid
  /\ \E m \in 0 .. vb[v].mem : \E d \in 0 .. m :
       vb' = [vb EXCEPT ![v] = [uuid |-> vb[v].uuid + 1, mem |-> m, disk |-> d]]
  /\ UNCHANGED <<epoch, wdoc, tokens, refused, snap, load, req, acct, faults>>

\* Something other than mockulus leaves meta::writes undecodable.  Every
\* position it held is gone, so no write counts as published any longer.
DamageWrites ==
  /\ Fault
  /\ wdoc.cas > 0 /\ wdoc.ok
  /\ wdoc' = [cas |-> wdoc.cas + 1, ok |-> FALSE, pos |-> NoPositions]
  /\ acct' = {[a EXCEPT !.published = FALSE] : a \in acct}
  /\ req' = [r \in Requests |-> [req[r] EXCEPT !.published = FALSE]]
  /\ UNCHANGED <<vb, epoch, tokens, refused, snap, load>>

-----------------------------------------------------------------------------
(* Admin requests.                                                         *)

Set(r, rec) == req' = [req EXCEPT ![r] = rec]

\* publishWrites has returned; what is left of the request is the increment.
ToBump(r, published) ==
  [IdleReq EXCEPT !.pc = "bump", !.ws = req[r].ws, !.published = published]

\* PutStub, DeleteStub, PutFile, DeleteFile, and each key of a bulk removal,
\* import or save: the mutation lands in the vbucket's memory.  A bulk removal
\* has several workers, so more than one may have landed and not been noted.
Mutate(r, c, v) ==
  /\ req[r].pc \in {"idle", "writing"}
  /\ vb[v].mem < MaxSeq
  /\ vb' = [vb EXCEPT ![v].mem = @ + 1]
  /\ Set(r, [req[r] EXCEPT !.pc = "writing",
               !.new = @ \cup {[coll |-> c, vb |-> v,
                                pos |-> [uuid |-> vb[v].uuid, seq |-> vb[v].mem + 1]]}])
  /\ UNCHANGED <<epoch, wdoc, tokens, refused, snap, load, acct, faults>>

\* ... and its token is noted once the call has returned.
NoteWrite(r) ==
  /\ req[r].pc = "writing"
  /\ \E w \in req[r].new :
       /\ tokens' = [tokens EXCEPT ![PodOf[r]] = Note(@, w.vb, w.pos)]
       /\ Set(r, [req[r] EXCEPT !.new = @ \ {w}, !.ws = @ \cup {w}])
  /\ UNCHANGED <<vb, epoch, wdoc, refused, snap, load, acct, faults>>

\* PutSettings writes no scanned collection; only its BumpEpoch matters here.
PutSettings(r) ==
  /\ req[r].pc = "idle"
  /\ epoch < MaxEpoch
  /\ Set(r, [req[r] EXCEPT !.pc = "writing"])
  /\ UNCHANGED <<server, tokens, refused, snap, load, acct, faults>>

\* A store call of the request fails: the handler answers 503 and neither
\* publishes nor bumps.  What landed stays landed; a write that timed out after
\* it landed was never noted.
Abandon(r) ==
  /\ Fault
  /\ req[r].pc = "writing"
  /\ Set(r, IdleReq)
  /\ UNCHANGED <<server, tokens, refused, snap, load, acct>>

\* publishWrites: take this pod's outstanding positions.  With none there is
\* nothing to publish.
BeginPublish(r) ==
  /\ req[r].pc = "writing" /\ req[r].new = {}
  /\ epoch < MaxEpoch
  /\ LET local == tokens[PodOf[r]] IN
       Set(r, IF local = NoPositions
                THEN ToBump(r, TRUE)
                ELSE [req[r] EXCEPT !.pc = "read", !.local = local,
                                    !.tries = PublishAttempts])
  /\ UNCHANGED <<server, tokens, refused, snap, load, acct, faults>>

\* One round of publishWrites reads meta::writes.  An absent or undecodable
\* document counts as empty; if the fold moves nothing the work is done.
ReadWrites(r) ==
  /\ req[r].pc = "read"
  /\ LET merged == Fold(wdoc.pos, req[r].local)
     IN Set(r, IF merged = wdoc.pos
                 THEN ToBump(r, TRUE)
                 ELSE [req[r] EXCEPT !.pc = "replace", !.read = merged, !.cas = wdoc.cas])
  /\ UNCHANGED <<server, tokens, refused, snap, load, acct, faults>>

\* Mutant of ReplaceWrites: a plain upsert.
UpsertWrites(r) ==
  /\ req[r].pc = "replace"
  /\ wdoc' = [cas |-> wdoc.cas + 1, ok |-> TRUE, pos |-> req[r].read]
  /\ Set(r, ToBump(r, TRUE))
  /\ UNCHANGED <<vb, epoch, tokens, refused, snap, load, acct, faults>>

\* ... and inserts (cas 0) or replaces it at the version read.  A lost race
\* starts the next round, the last one gives up.
ReplaceWrites(r) ==
  /\ req[r].pc = "replace"
  /\ IF wdoc.cas = req[r].cas
       THEN /\ wdoc' = [cas |-> wdoc.cas + 1, ok |-> TRUE, pos |-> req[r].read]
            /\ Set(r, ToBump(r, TRUE))
       ELSE /\ Set(r, IF req[r].tries > 1
                        THEN [req[r] EXCEPT !.pc = "read", !.tries = @ - 1,
                                             !.read = NoPositions, !.cas = 0]
                        ELSE ToBump(r, FALSE))
            /\ UNCHANGED wdoc
  /\ UNCHANGED <<vb, epoch, tokens, refused, snap, load, acct, faults>>

\* Either call fails: BumpEpoch logs it and moves the epoch all the same.  A
\* replace that timed out may have landed.
PublishFails(r) ==
  /\ Fault
  /\ \/ /\ req[r].pc \in {"read", "replace"}
        /\ UNCHANGED wdoc
     \/ /\ req[r].pc = "replace" /\ wdoc.cas = req[r].cas
        /\ wdoc' = [cas |-> wdoc.cas + 1, ok |-> TRUE, pos |-> req[r].read]
  /\ Set(r, ToBump(r, FALSE))
  /\ UNCHANGED <<vb, epoch, tokens, refused, snap, load, acct>>

\* BumpEpoch increments the counter: from here the epoch accounts for the
\* request's writes.
BumpEpoch(r) ==
  /\ req[r].pc = "bump"
  /\ epoch < MaxEpoch
  /\ epoch' = epoch + 1
  /\ acct' = acct \cup {[epoch |-> epoch + 1, pod |-> {PodOf[r]}, w |-> w,
                         published |-> req[r].published] : w \in req[r].ws}
  /\ Set(r, IdleReq)
  /\ UNCHANGED <<vb, wdoc, tokens, refused, snap, load, faults>>

\* The increment fails: 503 after the write has landed and been published.
BumpFails(r) ==
  /\ Fault
  /\ req[r].pc = "bump"
  /\ Set(r, IdleReq)
  /\ UNCHANGED <<server, tokens, refused, snap, load, acct>>

-----------------------------------------------------------------------------
(* LoadAll, one reload of a pod.                                           *)

SetLoad(p, rec) == load' = [load EXCEPT ![p] = rec]

\* Mutant of LoadEpoch: the poller wants the epoch to have moved by two.
LoadEpochSkipsOne(p) ==
  /\ load[p].pc = "idle"
  /\ epoch > snap[p].epoch + 1
  /\ SetLoad(p, [IdleLoad EXCEPT !.pc = "require", !.epoch = epoch])
  /\ UNCHANGED <<server, tokens, refused, snap, req, acct, faults>>

\* The epoch is read first.  A reload is due when the epoch is not the
\* snapshot's (pollOnce; a boot too, which has no snapshot), and unconditionally
\* on a resync tick and in the admin handlers that rebuild.
LoadEpoch(p) ==
  /\ load[p].pc = "idle"
  /\ Resyncs \/ epoch # snap[p].epoch
  /\ SetLoad(p, [IdleLoad EXCEPT !.pc = "require", !.epoch = epoch])
  /\ UNCHANGED <<server, tokens, refused, snap, req, acct, faults>>

\* requireFor: this pod's own positions, and under range scan the published
\* ones with its own folded over them.  whole records that nothing published
\* was left out; an unreadable document or an untrusted version leaves it out.
RequireFor(p) ==
  /\ load[p].pc = "require"
  /\ LET local == tokens[p]
         absent == wdoc.cas = 0
         folds  == UseRangeScan /\ ~absent /\ wdoc.ok /\ refused[p] # wdoc.cas
     IN SetLoad(p, [load[p] EXCEPT
               !.pc = "scan", !.local = local,
               !.require = IF folds THEN Fold(wdoc.pos, local) ELSE local,
               !.cas = IF folds THEN wdoc.cas ELSE 0,
               !.whole = folds \/ absent \/ ~UseRangeScan])
  /\ UNCHANGED <<server, tokens, refused, snap, req, acct, faults>>

\* The read of meta::writes itself fails: local-only, and the reload goes on.
RequireFails(p) ==
  /\ Fault
  /\ UseRangeScan
  /\ load[p].pc = "require"
  /\ SetLoad(p, [load[p] EXCEPT !.pc = "scan", !.local = tokens[p],
                                !.require = tokens[p], !.cas = 0, !.whole = FALSE])
  /\ UNCHANGED <<server, tokens, refused, snap, req, acct>>

\* What the scan of one collection carries now.
Carries(p, c) ==
  IF ~UseRangeScan THEN NoPositions
  ELSE IF load[p].fallback[c] THEN load[p].local ELSE load[p].require

\* scanOnce reaches one vbucket: it waits for the requirement, then returns
\* what is visible.  The last vbucket of a fallback scan makes the fallback a
\* success, and the published version is refused from then on.
ScanVb(p, c, v) ==
  /\ load[p].pc = "scan"
  /\ load[p].got[c][v] = NotScanned
  /\ Carries(p, c)[v] = NoPos \/ Covered(Carries(p, c)[v], Visible(v))
  /\ SetLoad(p, [load[p] EXCEPT !.got[c][v] = Visible(v)])
  /\ refused' = IF /\ load[p].fallback[c]
                   /\ \A u \in VBs \ {v} : load[p].got[c][u] # NotScanned
                  THEN [refused EXCEPT ![p] = load[p].cas] ELSE refused
  /\ UNCHANGED <<server, tokens, snap, req, acct, faults>>

\* The server answers vb-uuid mismatch.  If published positions were carried
\* the collection is scanned again with the local ones only; otherwise, or if
\* that is refused too, the reload fails and the previous snapshot stays.
ScanOutdated(p, c) ==
  /\ load[p].pc = "scan"
  /\ \E v \in VBs : /\ load[p].got[c][v] = NotScanned
                    /\ Carries(p, c)[v] # NoPos
                    /\ Carries(p, c)[v].uuid # vb[v].uuid
  /\ SetLoad(p, IF load[p].cas # 0 /\ ~load[p].fallback[c]
                  THEN [load[p] EXCEPT !.fallback[c] = TRUE,
                                       !.got[c] = NoScan[c]]
                  ELSE IdleLoad)
  /\ UNCHANGED <<server, tokens, refused, snap, req, acct, faults>>

\* Mutant of LoadFails: a reload that failed half way is served.
LoadFailsServes(p) ==
  /\ Fault
  /\ load[p].pc = "scan"
  /\ snap' = [snap EXCEPT ![p] = [epoch |-> load[p].epoch, whole |-> FALSE,
                                  seen |-> load[p].got]]
  /\ SetLoad(p, IdleLoad)
  /\ UNCHANGED <<server, tokens, refused, req, acct>>

\* Any other failure of a reload, a scan timeout included: no fallback.
LoadFails(p) ==
  /\ Fault
  /\ load[p].pc # "idle"
  /\ SetLoad(p, IdleLoad)
  /\ UNCHANGED <<server, tokens, refused, snap, req, acct>>

\* Mutant of LoadDone: stamps the epoch as it is when the scans end.
LoadDoneStampsLate(p) ==
  /\ load[p].pc = "scan"
  /\ \A c \in Colls, v \in VBs : load[p].got[c][v] # NotScanned
  /\ tokens' = [tokens EXCEPT ![p] = Observed(@, load[p].local)]
  /\ snap' = [snap EXCEPT ![p] = [epoch |-> epoch, seen |-> load[p].got,
                                  whole |-> load[p].whole]]
  /\ SetLoad(p, IdleLoad)
  /\ UNCHANGED <<server, refused, req, acct, faults>>

\* Both collections are in: forget the local positions the read observed, and
\* rebuildOnce swaps the new snapshot in under the epoch read first.  The
\* swap touches nothing but the snapshot, so the two are one step.
LoadDone(p) ==
  /\ load[p].pc = "scan"
  /\ \A c \in Colls, v \in VBs : load[p].got[c][v] # NotScanned
  /\ tokens' = [tokens EXCEPT ![p] = Observed(@, load[p].local)]
  /\ snap' = [snap EXCEPT ![p] =
                [epoch |-> load[p].epoch, seen |-> load[p].got,
                 whole |-> load[p].whole /\ \A c \in Colls : ~load[p].fallback[c]]]
  /\ SetLoad(p, IdleLoad)
  /\ UNCHANGED <<server, refused, req, acct, faults>>

\* LoadAll has returned, and forgotten what its read observed, but nothing is
\* swapped in: the settings read that follows fails, or the load was an admin
\* handler's own (deleteStubsNotIn, metadataMatch).  Both count as faults here.
LoadUnused(p) ==
  /\ Fault
  /\ load[p].pc = "scan"
  /\ \A c \in Colls, v \in VBs : load[p].got[c][v] # NotScanned
  /\ tokens' = [tokens EXCEPT ![p] = Observed(@, load[p].local)]
  /\ SetLoad(p, IdleLoad)
  /\ UNCHANGED <<server, refused, snap, req, acct>>

\* The process dies and another takes its place: everything it held in memory
\* is gone, and the writes it accounted for are nobody's own any longer.
Crash(p) ==
  /\ Fault
  /\ tokens' = [tokens EXCEPT ![p] = NoPositions]
  /\ refused' = [refused EXCEPT ![p] = 0]
  /\ snap' = [snap EXCEPT ![p] = NoSnap]
  /\ load' = [load EXCEPT ![p] = IdleLoad]
  /\ req' = [r \in Requests |-> IF PodOf[r] = p THEN IdleReq ELSE req[r]]
  /\ acct' = {[a EXCEPT !.pod = @ \ {p}] : a \in acct}
  /\ UNCHANGED server

-----------------------------------------------------------------------------
Next ==
  \/ \E v \in VBs : Persist(v) \/ Failover(v)
  \/ DamageWrites
  \/ \E r \in Requests :
       \/ \E c \in Colls, v \in VBs : Mutate(r, c, v)
       \/ NoteWrite(r) \/ PutSettings(r) \/ Abandon(r)
       \/ BeginPublish(r) \/ ReadWrites(r) \/ ReplaceWrites(r) \/ PublishFails(r)
       \/ BumpEpoch(r) \/ BumpFails(r)
  \/ \E p \in Pods :
       \/ LoadEpoch(p) \/ RequireFor(p) \/ RequireFails(p)
       \/ \E c \in Colls : ScanOutdated(p, c) \/ \E v \in VBs : ScanVb(p, c, v)
       \/ LoadDone(p) \/ LoadUnused(p) \/ LoadFails(p) \/ Crash(p)

Spec == Init /\ [][Next]_vars

\* The store answers and the disk queue drains; a request that has begun is
\* carried through; the poller's ticker keeps coming back.  Faults and
\* failovers happen a bounded number of times and are not fair.
Fairness ==
  /\ \A v \in VBs : WF_vars(Persist(v))
  /\ \A r \in Requests : WF_vars(\/ NoteWrite(r) \/ BeginPublish(r) \/ ReadWrites(r)
                                  \/ ReplaceWrites(r) \/ BumpEpoch(r))
  /\ \A p \in Pods :
       /\ WF_vars(LoadEpoch(p) \/ RequireFor(p) \/ LoadDone(p))
       /\ \A c \in Colls : /\ WF_vars(ScanOutdated(p, c))
                           /\ \A v \in VBs : WF_vars(ScanVb(p, c, v))

FairSpec == Spec /\ Fairness

-----------------------------------------------------------------------------
Position == {NoPos} \cup [uuid : Nat \ {0}, seq : Nat \ {0}]
Positions == [VBs -> Position]
Write == [coll : Colls, vb : VBs, pos : Position \ {NoPos}]
Scan == [Colls -> [VBs -> [uuid : Nat, seq : Nat \cup {-1}]]]

Vbucket == [uuid : Nat \ {0}, mem : Nat, disk : Nat]
WritesDoc == [cas : Nat, ok : BOOLEAN, pos : Positions]
SnapState == [epoch : Nat \cup {-1}, whole : BOOLEAN, seen : Scan]
LoadState == [pc : {"idle", "require", "scan"}, epoch : Nat,
              local : Positions, require : Positions, cas : Nat,
              whole : BOOLEAN, fallback : [Colls -> BOOLEAN], got : Scan]
ReqState == [pc : {"idle", "writing", "read", "replace", "bump"},
             new : SUBSET Write, ws : SUBSET Write,
             local : Positions, read : Positions, cas : Nat,
             tries : Nat, published : BOOLEAN]
Accounted == [epoch : Nat, pod : SUBSET Pods, w : Write, published : BOOLEAN]

\* Every variable keeps its shape.
TypeOK ==
  /\ vb \in [VBs -> Vbucket]
  /\ epoch \in Nat
  /\ wdoc \in WritesDoc
  /\ tokens \in [Pods -> Positions]
  /\ refused \in [Pods -> Nat]
  /\ snap \in [Pods -> SnapState]
  /\ load \in [Pods -> LoadState]
  /\ req \in [Requests -> ReqState]
  /\ acct \subseteq Accounted
  /\ faults \in Nat

\* The vbucket still has the history it started with.
Stable(v) == vb[v].uuid = 1

\* The snapshot of pod p was read from a view that contains write w.
Sees(p, w) == snap[p].seen[w.coll][w.vb].seq >= w.pos.seq

\* The pod's own half (writeWatermark): a snapshot contains every write this
\* process made whose increment is at or below the snapshot's epoch, even when
\* the published half was unreadable, untrusted or refused.
OwnWritesSeen ==
  \A p \in Pods, a \in acct :
    (p \in a.pod /\ Stable(a.w.vb) /\ a.epoch <= snap[p].epoch) => Sees(p, a.w)

\* The peers' half (publishedWatermark): a snapshot read under the whole
\* requirement contains every published write, whoever made it, that its epoch
\* accounts for.  So "epochs are equal" does mean "converged" (SPEC 8).
PublishedWritesSeen ==
  \A p \in Pods, a \in acct :
    (snap[p].whole /\ a.published /\ Stable(a.w.vb) /\ a.epoch <= snap[p].epoch)
      => Sees(p, a.w)

\* publishWrites' compare-and-swap: no pod's round ever drops or weakens a
\* position another pod has published.
PublishedNeverWeakens ==
  [][\A v \in VBs : (Stable(v) /\ wdoc.ok /\ wdoc'.ok)
        => wdoc'.pos[v].seq >= wdoc.pos[v].seq]_vars

\* Convergence (SPEC 8): once the writes stop every pod ends up, and stays, on
\* a snapshot stamped with the store's epoch, however many calls failed and
\* pods restarted on the way.  It is also what "nothing wedges" means for a
\* cluster that fails over (publishedWatermark.refused).
Converges == \A p \in Pods : <>[](snap[p].epoch = epoch)

\* A pod that holds a pending token of a history its vbucket no longer has:
\* every scan it asks for is refused until it restarts (run wm_wedge).
Wedged(p) == \E v \in VBs : tokens[p][v] # NoPos /\ tokens[p][v].uuid # vb[v].uuid

\* The same with that one state set apart: whatever else failed, a pod that is
\* not wedged ends up on the store's epoch.
ConvergesUnlessWedged == \A p \in Pods : <>[](snap[p].epoch = epoch \/ Wedged(p))

\* A reload of a live process never reinstates an older view: neither the
\* epoch nor, per collection and vbucket, the position read goes backwards.
SnapshotNeverRegresses ==
  [][\A p \in Pods : snap'[p] = NoSnap \/
        /\ snap'[p].epoch >= snap[p].epoch
        /\ \A c \in Colls, v \in VBs :
             Stable(v)' => snap'[p].seen[c][v].seq >= snap[p].seen[c][v].seq]_vars
=============================================================================
