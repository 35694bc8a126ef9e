------------------------------ MODULE Serving ------------------------------
(***************************************************************************)
(* The snapshots the replicas serve from, kept by three writers: the       *)
(* poller's and the admin handlers' rebuilds, which read the whole store   *)
(* one document at a time, and the splices that put one acknowledged stub  *)
(* into the snapshot at hand.  They exclude each other by Builder.mu; none *)
(* of them excludes a write to the store.                                  *)
(*                                                                         *)
(* Composed with AdminWrites: a request that has incremented the epoch     *)
(* ("answer") splices or rebuilds here before it is answered.  Reads see   *)
(* the store as it is; how the Couchbase driver makes its bulk read at     *)
(* least as fresh as the epoch beside it is module Watermark.              *)
(***************************************************************************)
EXTENDS AdminWrites

CONSTANTS
  Pods,       \* replicas
  PodOf,      \* [Requests -> Pods]: the replica that handles a request
  FileTexts,  \* texts whose response body is the body file
  Resyncs     \* whether the resync interval elapses within a behaviour

ASSUME ServingAssumption ==
  /\ PodOf \in [Requests -> Pods]
  /\ FileTexts \subseteq Texts
  /\ Resyncs \in BOOLEAN

\* One request at a time, or clients whose requests are about their own stubs.
SplicesApart == OnlyOwn \/ \A q, r \in Requests : q = r

\* The body file stays what it is while a splice has read it: it is never
\* written, nobody serves it, or its writer is the one with the splice.
FilesApart == "file" \notin Ops \/ FileTexts = {} \/ \A q, r \in Requests : q = r

VARIABLES
  snap,   \* per pod: the snapshot it serves
  cache,  \* per pod: the compilation cache, a document per live id
  load,   \* per pod: the rebuild that holds Builder.mu, if any
  body,   \* per request: the body file as its splice read it
  misread, \* history, per pod: ids spliced without a body file that could not be read
  acked   \* history, per id: the pods that acknowledged what the store now holds

podVars == <<snap, cache, load, body, misread, acked>>
vars == <<adminVars, podVars>>
-----------------------------------------------------------------------------
\* Mutant of Serve: what a failed read left behind is served as it is.
ServeUnchecked(doc, contents) ==
  [text |-> doc.text, persistent |-> doc.persistent, seq |-> doc.seq,
   body |-> IF doc.text \in FileTexts THEN contents ELSE 0]

\* A file-backed stub serves the file, or an error if there is none (0) or it
\* could not be read.
Serve(doc, contents) ==
  [text |-> doc.text, persistent |-> doc.persistent, seq |-> doc.seq,
   body |-> IF doc.text \in FileTexts /\ contents > 0 THEN contents ELSE 0]

EmptySnapshot ==
  [epoch |-> 0, stubs |-> [id \in Ids |-> Serve(NoDoc, 0)], settings |-> 0]

Unread == -1
Unreadable == -2

NoLoad == [pc |-> "idle", for |-> {}, epoch |-> 0, unread |-> {},
           docs |-> Nothing, file |-> 0, settings |-> 0]

Init ==
  /\ AdminInit
  /\ snap = [p \in Pods |-> EmptySnapshot]
  /\ cache = [p \in Pods |-> Nothing]
  /\ load = [p \in Pods |-> NoLoad]
  /\ body = [r \in Requests |-> Unread]
  /\ misread = [p \in Pods |-> {}]
  /\ acked = [id \in Ids |-> {}]

MutexFree(p) == load[p].pc = "idle"

\* Requests whose replica is already at work on its own snapshot for them.
Updating(r) == body[r] # Unread \/ \E p \in Pods : r \in load[p].for

\* The write path goes on; a document that changes is no longer the one a pod
\* acknowledged, and neither is one whose body file changes.
WriteStore ==
  /\ AdminStep
  /\ \A r \in Requests : Updating(r) => req'[r] = req[r]
  /\ acked' = [id \in Ids |->
                 IF docs'[id] = docs[id] /\ (file' = file \/ docs[id].text \notin FileTexts)
                   THEN acked[id] ELSE {}]
  /\ UNCHANGED <<snap, cache, load, body, misread>>
-----------------------------------------------------------------------------
(* Rebuilds.                                                                *)

\* Takes the mutex and reads the epoch, before anything else is read.
BeginRebuild(p, for) ==
  /\ MutexFree(p)
  /\ load' = [load EXCEPT ![p] = [NoLoad EXCEPT !.pc = "scan", !.for = for,
                                                !.epoch = epoch, !.unread = Ids,
                                                !.file = Unread]]
  /\ UNCHANGED <<adminVars, snap, cache, body, misread, acked>>

Poll(p) == epoch # snap[p].epoch /\ BeginRebuild(p, {})

Resync(p) == Resyncs /\ BeginRebuild(p, {})

Rebuilders == {"reset", "deleteAll", "removeByMetadata", "save", "import",
               "file", "settings"}

AdminRebuild(r) ==
  /\ req[r].pc = "answer" /\ req[r].op \in Rebuilders
  /\ BeginRebuild(PodOf[r], {r})

\* The two scans of LoadAll run side by side.
ScanStub(p) ==
  /\ load[p].pc = "scan"
  /\ \E id \in load[p].unread :
       load' = [load EXCEPT ![p].unread = @ \ {id}, ![p].docs[id] = docs[id]]
  /\ UNCHANGED <<adminVars, snap, cache, body, misread, acked>>

ScanFile(p) ==
  /\ load[p].pc = "scan" /\ load[p].file = Unread
  /\ load' = [load EXCEPT ![p].file = file]
  /\ UNCHANGED <<adminVars, snap, cache, body, misread, acked>>

LoadSettings(p) ==
  /\ load[p].pc = "scan" /\ load[p].unread = {} /\ load[p].file # Unread
  /\ load' = [load EXCEPT ![p].pc = "swap", ![p].settings = settings]
  /\ UNCHANGED <<adminVars, snap, cache, body, misread, acked>>

\* A cached compilation is reused if the mapping's bytes are the same.  The
\* persistent flag is part of the mapping, the sequence is not.
Hit(p, doc, id) ==
  /\ doc # NoDoc
  /\ cache[p][id].text = doc.text /\ cache[p][id].persistent = doc.persistent

Compiled(p) ==
  [id \in Ids |-> LET doc == load[p].docs[id]
                  IN IF Hit(p, doc, id) THEN cache[p][id] ELSE doc]

\* The rebuild is over, and with it the request that asked for it.
Release(p) ==
  /\ load' = [load EXCEPT ![p] = NoLoad]
  /\ req' = [r \in Requests |-> IF r \in load[p].for THEN IdleReq ELSE req[r]]

\* Mutant of Swap: nothing is installed unless the epoch has moved.
SwapIfMoved(p) ==
  /\ load[p].pc = "swap"
  /\ cache' = [cache EXCEPT ![p] = Compiled(p)]
  /\ snap' = IF load[p].epoch = snap[p].epoch THEN snap
             ELSE [snap EXCEPT ![p] =
               [epoch |-> load[p].epoch,
                stubs |-> [id \in Ids |-> Serve(Compiled(p)[id], load[p].file)],
                settings |-> load[p].settings]]
  /\ Release(p)
  /\ misread' = [misread EXCEPT ![p] = {}]
  /\ UNCHANGED <<shared, begun, unsignalled, faults, body, acked>>

\* Compile, retain only what is live in the cache, swap.  Body files are
\* resolved afresh whether the compilation was cached or not.
Swap(p) ==
  /\ load[p].pc = "swap"
  /\ cache' = [cache EXCEPT ![p] = Compiled(p)]
  /\ snap' = [snap EXCEPT ![p] =
       [epoch |-> load[p].epoch,
        stubs |-> [id \in Ids |-> Serve(Compiled(p)[id], load[p].file)],
        settings |-> load[p].settings]]
  /\ Release(p)
  /\ misread' = [misread EXCEPT ![p] = {}]
  /\ UNCHANGED <<shared, begun, unsignalled, faults, body, acked>>

\* A read fails and the previous snapshot stands.  A handler only logs it: the
\* request is answered as a success.
RebuildFails(p) ==
  /\ Fault
  /\ load[p].pc # "idle"
  /\ Release(p)
  /\ UNCHANGED <<shared, begun, unsignalled, snap, cache, body, misread, acked>>
-----------------------------------------------------------------------------
(* Splices, the end of createMapping, updateMapping and deleteMapping.      *)

Splices(r, op) == req[r].pc = "answer" /\ req[r].op \in op /\ MutexFree(PodOf[r])

\* The body file is read before the mutex is taken, and may be unreadable.
SpliceBodyFile(r) ==
  /\ req[r].pc = "answer" /\ req[r].op \in {"create", "update"}
  /\ req[r].doc.text \in FileTexts /\ body[r] = Unread
  /\ \/ body' = [body EXCEPT ![r] = file] /\ UNCHANGED faults
     \/ body' = [body EXCEPT ![r] = Unreadable] /\ Fault
  /\ UNCHANGED <<shared, req, begun, unsignalled, snap, cache, load, misread, acked>>

\* A snapshot with one stub replaced, still under the epoch and the settings it
\* was loaded with; and the request answered.
Install(r, id, doc, contents) ==
  /\ snap' = [snap EXCEPT ![PodOf[r]].stubs[id] = Serve(doc, contents)]
  /\ misread' = [misread EXCEPT ![PodOf[r]] =
                   IF contents = Unreadable THEN @ \cup {id} ELSE @ \ {id}]
  /\ acked' = [acked EXCEPT ![id] = IF docs[id] = doc THEN @ \cup {PodOf[r]} ELSE @]
  /\ req' = [req EXCEPT ![r] = IdleReq]
  /\ body' = [body EXCEPT ![r] = Unread]
  /\ UNCHANGED <<shared, begun, unsignalled, faults, cache, load>>

\* Mutant of SpliceStub: a rebuild under way is not waited for.
SpliceUnlocked(r) ==
  /\ req[r].pc = "answer" /\ req[r].op \in {"create", "update"}
  /\ req[r].doc.text \in FileTexts => body[r] # Unread
  /\ \E id \in req[r].keys : Install(r, id, req[r].doc, body[r])

\* Mutant of SpliceStub: the new snapshot claims the store's epoch.
SpliceClaimsEpoch(r) ==
  /\ Splices(r, {"create", "update"})
  /\ req[r].doc.text \in FileTexts => body[r] # Unread
  /\ \E id \in req[r].keys :
       /\ snap' = [snap EXCEPT ![PodOf[r]].stubs[id] = Serve(req[r].doc, body[r]),
                               ![PodOf[r]].epoch = epoch]
       /\ acked' = [acked EXCEPT ![id] = @ \cup {PodOf[r]}]
       /\ misread' = [misread EXCEPT ![PodOf[r]] = @ \ {id}]
  /\ req' = [req EXCEPT ![r] = IdleReq]
  /\ body' = [body EXCEPT ![r] = Unread]
  /\ UNCHANGED <<shared, begun, unsignalled, faults, cache, load>>

SpliceStub(r) ==
  /\ Splices(r, {"create", "update"})
  /\ req[r].doc.text \in FileTexts => body[r] # Unread
  /\ \E id \in req[r].keys : Install(r, id, req[r].doc, body[r])

SpliceDelete(r) ==
  /\ Splices(r, {"delete"})
  /\ \E id \in req[r].keys : Install(r, id, NoDoc, 0)
-----------------------------------------------------------------------------
\* A replica dies with the requests it was handling, and starts again with an
\* empty snapshot and an unconditional rebuild.
Crash(p) ==
  /\ Fault
  /\ snap' = [snap EXCEPT ![p] = EmptySnapshot]
  /\ cache' = [cache EXCEPT ![p] = Nothing]
  /\ load' = [load EXCEPT ![p] = [NoLoad EXCEPT !.pc = "scan", !.epoch = epoch,
                                                !.unread = Ids, !.file = Unread]]
  /\ req' = [r \in Requests |-> IF PodOf[r] = p THEN IdleReq ELSE req[r]]
  /\ body' = [r \in Requests |-> IF PodOf[r] = p THEN Unread ELSE body[r]]
  /\ misread' = [misread EXCEPT ![p] = {}]
  /\ acked' = [id \in Ids |-> acked[id] \ {p}]
  /\ unsignalled' = TRUE
  /\ UNCHANGED <<shared, begun>>

Rebuild(p) == ScanStub(p) \/ ScanFile(p) \/ LoadSettings(p) \/ Swap(p)

Update(r) == SpliceBodyFile(r) \/ SpliceStub(r) \/ SpliceDelete(r) \/ AdminRebuild(r)

Next ==
  \/ WriteStore
  \/ \E p \in Pods : Poll(p) \/ Resync(p) \/ Rebuild(p) \/ RebuildFails(p) \/ Crash(p)
  \/ \E r \in Requests : Update(r)

Spec == Init /\ [][Next]_vars

\* Calls have timeouts and the poller loops for ever, so every step that can be
\* taken is.  The mutex is Go's, which hands over to whoever has waited longest.
FairSpec ==
  /\ Spec
  /\ \A p \in Pods : WF_vars(Poll(p)) /\ WF_vars(Resync(p)) /\ WF_vars(Rebuild(p))
  /\ \A r \in Requests :
       /\ WF_vars(WriteStore /\ StoreCall(r))
       /\ SF_vars(Update(r))
-----------------------------------------------------------------------------
Served == [text : Texts \cup {NoText}, persistent : BOOLEAN, seq : Nat, body : Contents]

\* Every variable keeps its shape.
TypeOK ==
  /\ AdminTypeOK
  /\ snap \in [Pods -> [epoch : Nat, stubs : [Ids -> Served], settings : Contents]]
  /\ cache \in [Pods -> [Ids -> Doc]]
  /\ load \in [Pods -> [pc : {"idle", "scan", "swap"}, for : SUBSET Requests,
                        epoch : Nat, unread : SUBSET Ids, docs : [Ids -> Doc],
                        file : Contents \cup {Unread}, settings : Contents]]
  /\ body \in [Requests -> Contents \cup {Unread, Unreadable}]
  /\ misread \in [Pods -> SUBSET Ids]
  /\ acked \in [Ids -> SUBSET Pods]

\* What a client gets from a pod, where two stubs do not compete.  The body of a
\* stub spliced while its file could not be read is excused.
Reflects(p, id) ==
  LET s == snap[p].stubs[id]
      d == Serve(docs[id], file)
  IN /\ s.text = d.text /\ s.persistent = d.persistent
     /\ s.body = d.body \/ id \in misread[p]

Agrees(p) == snap[p].settings = settings /\ \A id \in Ids : Reflects(p, id)

\* Nothing is under way that the pod will still hear of.
Quiet(p) ==
  /\ \A r \in Requests : req[r].pc = "idle"
  /\ MutexFree(p) /\ snap[p].epoch = epoch
  /\ ~unsignalled

\* A pod that would not reload, because its snapshot carries the store's epoch,
\* serves what the store holds: no splice, cached compilation or reload that
\* raced a write leaves a difference behind for a poll to miss (splice.go:28,
\* "reconciles concurrent writes").
Settled == \A p \in Pods : Quiet(p) => Agrees(p)

\* A pod that has answered a stub's write serves it for as long as the store
\* holds it, whatever its rebuilds had read by then ("the replica that handled
\* the admin write reflects it immediately", SPEC deviation 11).
ReadYourWrites == \A id \in Ids : \A p \in acked[id] : Reflects(p, id)

\* Of two stubs a settled pod prefers the one the store's sequences prefer, so
\* that a rebuild does not answer differently from the splice before it
\* (splice.go:32, SPEC 7.3).
OrderAgrees ==
  \A p \in Pods : Quiet(p) =>
    \A i, j \in Ids : (docs[i] # NoDoc /\ docs[j] # NoDoc) =>
      (snap[p].stubs[i].seq > snap[p].stubs[j].seq <=> docs[i].seq > docs[j].seq)

\* With resyncs every pod ends up serving what the store holds, whatever was
\* lost on the way: a stale splice, an expiry, a failed increment, a crash.
Converges == <>[](\A p \in Pods : Agrees(p))
=============================================================================
