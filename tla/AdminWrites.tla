---------------------------- MODULE AdminWrites ----------------------------
(***************************************************************************)
(* The admin API's write path down to the shared store.                    *)
(*                                                                         *)
(* Every handler is a sequence of independent store calls: it looks a stub *)
(* up, draws an insertion sequence, writes or removes documents one key at *)
(* a time, and increments the epoch.  Nothing ties the calls of a request  *)
(* together, so requests interleave between any two of them, on one        *)
(* replica or on several.  A call is atomic on its document.               *)
(*                                                                         *)
(* After the increment a request still has its own replica's snapshot to   *)
(* update before it answers ("answer"): that half is in module Serving.    *)
(***************************************************************************)
EXTENDS Integers, Sequences, FiniteSets

CONSTANTS
  Requests,     \* admin requests that may be in flight at once
  Ids,          \* stub ids
  IdsOf,        \* [Requests -> SUBSET Ids]: the ids a client names
  Texts,        \* mapping documents, up to their persistent flag
  Mappings,     \* the mappings clients submit: [text, persistent]
  NoText,       \* the text of no document
  Tagged,       \* the texts a remove-by-metadata request matches
  Contents,     \* contents of the body file and values of the settings; 0: none
  Batches,      \* import requests: [items, ignore, prune]
  Ops,          \* the operations clients use
  MaxRequests,  \* bound: requests begun
  MaxFaults     \* bound: failed calls

\* What an element of an import names.
Item == [id : Ids, text : Texts, persistent : BOOLEAN]

ASSUME AdminAssumption ==
  /\ IdsOf \in [Requests -> SUBSET Ids]
  /\ NoText \notin Texts
  /\ Mappings \subseteq [text : Texts, persistent : BOOLEAN]
  /\ Contents \subseteq Nat /\ 0 \in Contents
  /\ Batches \subseteq [items : Seq(Item), ignore : BOOLEAN, prune : BOOLEAN]
  /\ MaxRequests \in Nat /\ MaxFaults \in Nat

\* What keeps clients out of each other's way: each names stubs of its own, and
\* none empties, saves or prunes the collection.
ClientsApart == \A q, r \in Requests : q # r => IdsOf[q] \cap IdsOf[r] = {}

OnlyOwn ==
  /\ ClientsApart
  /\ Ops \cap {"reset", "deleteAll", "removeByMetadata", "save"} = {}
  /\ \A b \in Batches : ~b.prune

VARIABLES
  docs,        \* the mappings collection
  file,        \* the body file of the files collection
  settings,    \* meta::settings
  seq,         \* the insertion sequence counter
  epoch,       \* the change counter
  req,         \* per request: where it is between its store calls
  begun,       \* how many requests have begun
  unsignalled, \* history: a change may have been made with no increment after it
  faults       \* how many calls have failed

shared == <<docs, file, settings, seq, epoch>>
adminVars == <<docs, file, settings, seq, epoch, req, begun, unsignalled, faults>>

-----------------------------------------------------------------------------
\* An absent document.  Drawn sequences start at 1.
NoDoc == [text |-> NoText, persistent |-> FALSE, seq |-> 0]

StoredStub(m, s) == [text |-> m.text, persistent |-> m.persistent, seq |-> s]

Nothing == [id \in Ids |-> NoDoc]

IdleReq == [op |-> "none", pc |-> "idle", keys |-> {}, doc |-> NoDoc, value |-> 0,
            unread |-> {}, copy |-> Nothing, items |-> <<>>, batch |-> <<>>,
            ignore |-> FALSE, prune |-> FALSE, start |-> 0]

AdminInit ==
  /\ docs = Nothing
  /\ file = 0
  /\ settings = 0
  /\ seq = 0
  /\ epoch = 0
  /\ req = [r \in Requests |-> IdleReq]
  /\ begun = 0
  /\ unsignalled = FALSE
  /\ faults = 0

Fault == faults < MaxFaults /\ faults' = faults + 1

Step(r, rec) == req' = [req EXCEPT ![r] = rec]

-----------------------------------------------------------------------------
(* A request arrives.  One that is malformed or does not compile is refused *)
(* before it reaches the store.                                            *)

Begin(r, op, rec) ==
  /\ req[r].pc = "idle"
  /\ op \in Ops
  /\ begun < MaxRequests
  /\ begun' = begun + 1
  /\ Step(r, [rec EXCEPT !.op = op, !.start = seq])
  /\ UNCHANGED <<shared, unsignalled, faults>>

\* The id is free, or the server picks a fresh one; a taken id is refused.
CreateMapping(r) ==
  \E id \in IdsOf[r], m \in Mappings :
    /\ docs[id] = NoDoc
    /\ Begin(r, "create", [IdleReq EXCEPT !.pc = "seq", !.keys = {id},
                                          !.doc = StoredStub(m, 0)])

\* Mutant of UpdateMapping: an edit draws a sequence of its own.
UpdateDrawsSeq(r) ==
  \E id \in IdsOf[r], m \in Mappings :
    /\ docs[id] # NoDoc
    /\ Begin(r, "update", [IdleReq EXCEPT !.pc = "seq", !.keys = {id},
                                          !.doc = StoredStub(m, 0)])

\* PUT reads the stub it replaces and keeps its sequence.
UpdateMapping(r) ==
  \E id \in IdsOf[r], m \in Mappings :
    /\ docs[id] # NoDoc
    /\ Begin(r, "update", [IdleReq EXCEPT !.pc = "put", !.keys = {id},
                                          !.doc = StoredStub(m, docs[id].seq)])

DeleteMapping(r) ==
  \E id \in IdsOf[r] :
    /\ docs[id] # NoDoc
    /\ Begin(r, "delete", [IdleReq EXCEPT !.pc = "remove", !.keys = {id}])

\* resetMappings and resetAll, deleteAllMappings, removeByMetadata and
\* saveMappings begin with a bulk read of the collection.
BulkRequest(r) ==
  \E op \in {"reset", "deleteAll", "removeByMetadata", "save"} :
    Begin(r, op, [IdleReq EXCEPT !.pc = "list", !.unread = Ids])

\* The whole batch is validated, and every id looked up once, before anything
\* is written.
ImportMappings(r) ==
  \E b \in Batches :
    /\ \A i \in 1 .. Len(b.items) : b.items[i].id \in IdsOf[r]
    /\ Begin(r, "import",
             [IdleReq EXCEPT !.pc = "lookup", !.items = b.items, !.batch = b.items,
                             !.ignore = b.ignore, !.prune = b.prune,
                             !.unread = {b.items[i].id : i \in 1 .. Len(b.items)}])

\* putFile, deleteFile, putSettings.
PutOther(r) ==
  \E op \in {"file", "settings"}, c \in Contents :
    Begin(r, op, [IdleReq EXCEPT !.pc = "write", !.value = c])

-----------------------------------------------------------------------------
(* The store calls of a request, one at a time.                             *)

\* A read that looks a stub up, or the bulk read reaching its key.
ReadKey(r) ==
  /\ req[r].pc \in {"lookup", "list"}
  /\ \E id \in req[r].unread :
       Step(r, [req[r] EXCEPT !.unread = @ \ {id}, !.copy[id] = docs[id]])
  /\ UNCHANGED <<shared, begun, unsignalled, faults>>

\* Which of the documents read the request is about.
Selects(r, id) ==
  /\ req[r].copy[id] # NoDoc
  /\ CASE req[r].op \in {"reset", "save"}    -> ~req[r].copy[id].persistent
       [] req[r].op = "deleteAll"            -> TRUE
       [] req[r].op = "removeByMetadata"     -> req[r].copy[id].text \in Tagged
       [] OTHER -> \A i \in 1 .. Len(req[r].batch) : req[r].batch[i].id # id

\* The bulk read is complete.  A removal by metadata that matched nothing
\* answers without an increment.
Listed(r) ==
  /\ req[r].pc = "list" /\ req[r].unread = {}
  /\ LET keys == {id \in Ids : Selects(r, id)}
     IN Step(r, IF keys # {}
                  THEN [req[r] EXCEPT !.keys = keys,
                          !.pc = IF req[r].op = "save" THEN "save" ELSE "remove"]
                  ELSE IF req[r].op = "removeByMetadata" THEN IdleReq
                  ELSE [req[r] EXCEPT !.pc = "bump"])
  /\ UNCHANGED <<shared, begun, unsignalled, faults>>

\* The request with one of its keys done.
Done(r, id) ==
  [req[r] EXCEPT !.keys = @ \ {id},
                 !.pc = IF req[r].keys = {id} THEN "bump" ELSE @]

\* DeleteStub, and removeKeys' workers: by key, whatever is there by now.
RemoveKey(r) ==
  /\ req[r].pc = "remove"
  /\ \E id \in req[r].keys :
       /\ docs' = [docs EXCEPT ![id] = NoDoc]
       /\ Step(r, IF req[r].op = "delete" THEN [req[r] EXCEPT !.pc = "bump"]
                  ELSE Done(r, id))
  /\ UNCHANGED <<file, settings, seq, epoch, begun, unsignalled, faults>>

\* MarkAllPersistent writes back the document it read, flag set.
SaveKey(r) ==
  /\ req[r].pc = "save"
  /\ \E id \in req[r].keys :
       /\ docs' = [docs EXCEPT ![id] = [req[r].copy[id] EXCEPT !.persistent = TRUE]]
       /\ Step(r, Done(r, id))
  /\ UNCHANGED <<file, settings, seq, epoch, begun, unsignalled, faults>>

\* Mutant of NextSeq: read and written back, so another request's draw can be lost.
NextSeqLosesDraws(r) ==
  /\ req[r].pc = "seq"
  /\ Step(r, [req[r] EXCEPT !.pc = "put", !.doc.seq = seq + 1])
  /\ seq' \in {seq, seq + 1}
  /\ UNCHANGED <<docs, file, settings, epoch, begun, unsignalled, faults>>

NextSeq(r) ==
  /\ req[r].pc = "seq"
  /\ seq' = seq + 1
  /\ Step(r, [req[r] EXCEPT !.pc = "put", !.doc.seq = seq + 1])
  /\ UNCHANGED <<docs, file, settings, epoch, begun, unsignalled, faults>>

\* An upsert: whatever is there by now is replaced.  In an import the element
\* becomes what a repeated id collides with.
PutStub(r) ==
  /\ req[r].pc = "put"
  /\ \E id \in req[r].keys :
       /\ docs' = [docs EXCEPT ![id] = req[r].doc]
       /\ Step(r, IF req[r].op = "import"
                    THEN [req[r] EXCEPT !.pc = "apply", !.keys = {},
                                        !.copy[id] = req[r].doc]
                    ELSE [req[r] EXCEPT !.pc = "bump"])
  /\ UNCHANGED <<file, settings, seq, epoch, begun, unsignalled, faults>>

\* Mutant of ApplyItem: the batch is applied front to back.
ApplyForwards(r) ==
  /\ \/ req[r].pc = "apply"
     \/ req[r].pc = "lookup" /\ req[r].unread = {}
  /\ req[r].items # <<>>
  /\ LET item == req[r].items[1]
         held == req[r].copy[item.id]
         rest == [req[r] EXCEPT !.items = Tail(@), !.pc = "apply"]
     IN Step(r, IF held # NoDoc /\ req[r].ignore THEN rest
                ELSE [rest EXCEPT !.keys = {item.id}, !.doc = StoredStub(item, held.seq),
                                  !.pc = IF held # NoDoc THEN "put" ELSE "seq"])
  /\ UNCHANGED <<shared, begun, unsignalled, faults>>

\* Mutant of ApplyItem: an element is placed just before the stub it overwrites.
ApplyBefore(r) ==
  /\ \/ req[r].pc = "apply"
     \/ req[r].pc = "lookup" /\ req[r].unread = {}
  /\ req[r].items # <<>>
  /\ LET item == req[r].items[Len(req[r].items)]
         held == req[r].copy[item.id]
         rest == [req[r] EXCEPT !.items = SubSeq(@, 1, Len(@) - 1), !.pc = "apply"]
     IN Step(r, IF held # NoDoc /\ req[r].ignore THEN rest
                ELSE [rest EXCEPT !.keys = {item.id},
                                  !.doc = StoredStub(item, held.seq - 1),
                                  !.pc = IF held # NoDoc THEN "put" ELSE "seq"])
  /\ UNCHANGED <<shared, begun, unsignalled, faults>>

\* The batch is applied back to front.  An id that was there before the batch,
\* or that the batch has written, is skipped or overwritten in its place.
ApplyItem(r) ==
  /\ \/ req[r].pc = "apply"
     \/ req[r].pc = "lookup" /\ req[r].unread = {}
  /\ req[r].items # <<>>
  /\ LET item == req[r].items[Len(req[r].items)]
         held == req[r].copy[item.id]
         rest == [req[r] EXCEPT !.items = SubSeq(@, 1, Len(@) - 1), !.pc = "apply"]
     IN Step(r, IF held # NoDoc /\ req[r].ignore THEN rest
                ELSE [rest EXCEPT !.keys = {item.id}, !.doc = StoredStub(item, held.seq),
                                  !.pc = IF held # NoDoc THEN "put" ELSE "seq"])
  /\ UNCHANGED <<shared, begun, unsignalled, faults>>

\* The batch is in; deleteAllNotInImport lists the collection next.
Applied(r) ==
  /\ \/ req[r].pc = "apply"
     \/ req[r].pc = "lookup" /\ req[r].unread = {}
  /\ req[r].items = <<>>
  /\ Step(r, IF req[r].prune
               THEN [req[r] EXCEPT !.pc = "list", !.unread = Ids]
               ELSE [req[r] EXCEPT !.pc = "bump"])
  /\ UNCHANGED <<shared, begun, unsignalled, faults>>

\* PutFile, DeleteFile, PutSettings.
WriteOther(r) ==
  /\ req[r].pc = "write"
  /\ IF req[r].op = "file" THEN file' = req[r].value /\ UNCHANGED settings
                           ELSE settings' = req[r].value /\ UNCHANGED file
  /\ Step(r, [req[r] EXCEPT !.pc = "bump"])
  /\ UNCHANGED <<docs, seq, epoch, begun, unsignalled, faults>>

\* Whatever was changed before the increment is announced by it.
BumpEpoch(r) ==
  /\ req[r].pc = "bump"
  /\ epoch' = epoch + 1
  /\ unsignalled' = FALSE
  /\ Step(r, [req[r] EXCEPT !.pc = "answer"])
  /\ UNCHANGED <<docs, file, settings, seq, begun, faults>>

\* A store call fails: 503, and what has landed stays.  A call may land and be
\* reported failed, so a request may also stop after its increment.  Of a bulk
\* removal's keys the failed ones are taken last.
Abandon(r) ==
  /\ Fault
  /\ req[r].pc # "idle"
  /\ Step(r, IdleReq)
  /\ unsignalled' = TRUE
  /\ UNCHANGED <<shared, begun>>

\* The time to live of a stub that is not persistent runs out (external).  Each
\* write starts it anew, and it is longer than the rest of a request.
Expire(id) ==
  /\ "expire" \in Ops
  /\ \A r \in Requests : id \in req[r].keys => req[r].pc \notin {"bump", "answer"}
  /\ docs[id] # NoDoc /\ ~docs[id].persistent
  /\ docs' = [docs EXCEPT ![id] = NoDoc]
  /\ unsignalled' = TRUE
  /\ UNCHANGED <<file, settings, seq, epoch, req, begun, faults>>

-----------------------------------------------------------------------------
Arrive(r) ==
  \/ CreateMapping(r) \/ UpdateMapping(r) \/ DeleteMapping(r)
  \/ BulkRequest(r) \/ ImportMappings(r) \/ PutOther(r)

StoreCall(r) ==
  \/ ReadKey(r) \/ Listed(r) \/ RemoveKey(r) \/ SaveKey(r)
  \/ NextSeq(r) \/ PutStub(r) \/ ApplyItem(r) \/ Applied(r)
  \/ WriteOther(r) \/ BumpEpoch(r)

AdminStep ==
  \/ \E r \in Requests : Arrive(r) \/ StoreCall(r) \/ Abandon(r)
  \/ \E id \in Ids : Expire(id)

\* The request is answered; what the replica does first is left out here.
Answer(r) ==
  /\ req[r].pc = "answer"
  /\ Step(r, IdleReq)
  /\ UNCHANGED <<shared, begun, unsignalled, faults>>

AdminSpec == AdminInit /\ [][AdminStep \/ \E r \in Requests : Answer(r)]_adminVars
-----------------------------------------------------------------------------
Doc == [text : Texts \cup {NoText}, persistent : BOOLEAN, seq : Nat]

AdminReq == [op : {"none", "create", "update", "delete", "reset", "deleteAll",
                   "removeByMetadata", "save", "import", "file", "settings"},
             pc : {"idle", "seq", "put", "remove", "list", "save", "lookup",
                   "apply", "write", "bump", "answer"},
             keys : SUBSET Ids, doc : Doc, value : Contents,
             unread : SUBSET Ids, copy : [Ids -> Doc],
             items : Seq(Item), batch : Seq(Item),
             ignore : BOOLEAN, prune : BOOLEAN, start : Nat]

\* Every variable keeps its shape.
AdminTypeOK ==
  /\ docs \in [Ids -> Doc]
  /\ file \in Contents /\ settings \in Contents
  /\ seq \in Nat /\ epoch \in Nat
  /\ req \in [Requests -> AdminReq]
  /\ begun \in Nat /\ faults \in Nat
  /\ unsignalled \in BOOLEAN

\* Selection breaks equal priority on the sequence (SPEC 5.3), so it is a total
\* order only if no two stubs share one, however edits, imports, saves, removals
\* and re-creations of their ids interleave and whichever of their calls fail.
SeqsDistinct ==
  \A i, j \in Ids :
    (i # j /\ docs[i] # NoDoc /\ docs[j] # NoDoc) => docs[i].seq # docs[j].seq

\* Among clients that keep to their own ids, an edit or an import never changes
\* which of two stubs a request selects (updateMapping, importMappings).  A save
\* is nobody's: it can put back, old sequence and all, a stub removed meanwhile.
PrecedenceKept ==
  [][\A id \in Ids :
       (docs[id] # NoDoc /\ docs'[id] # NoDoc) => docs'[id].seq = docs[id].seq]_adminVars

Occurrences(r, id) == {i \in 1 .. Len(req[r].batch) : req[r].batch[i].id = id}

\* An import that has applied its batch: an id that was not there before holds
\* the last of its elements under IGNORE and the first under OVERWRITE; one that
\* was there is overwritten by the first or left alone; and of two new ids the
\* one listed first is selected first.
ImportOutcome ==
  \A r \in Requests :
    (req[r].op = "import" /\ req[r].pc \in {"bump", "answer"}) =>
      \A id \in {req[r].batch[i].id : i \in 1 .. Len(req[r].batch)} :
        LET occ == Occurrences(r, id)
            new == docs[id].seq > req[r].start
            i   == IF req[r].ignore THEN CHOOSE k \in occ : \A n \in occ : n <= k
                                    ELSE CHOOSE k \in occ : \A n \in occ : n >= k
        IN /\ docs[id] # NoDoc
           /\ (new \/ ~req[r].ignore) =>
                StoredStub(req[r].batch[i], docs[id].seq) = docs[id]
           /\ new => \A j \in Ids :
                (docs[j].seq > docs[id].seq /\ Occurrences(r, j) # {}) =>
                  \E k \in occ : \A n \in Occurrences(r, j) : n < k
=============================================================================
