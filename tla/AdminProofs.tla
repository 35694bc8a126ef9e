---------------------------- MODULE AdminProofs ----------------------------
(***************************************************************************)
(* Proofs about AdminWrites: its types, and that no two stubs ever share   *)
(* an insertion sequence, for any ids, batches and number of requests.     *)
(***************************************************************************)
EXTENDS AdminWrites, SequenceTheorems, TLAPS

LEMMA DocType == NoDoc \in Doc /\ Nothing \in [Ids -> Doc]
BY DEF NoDoc, Doc, Nothing

LEMMA IdleReqType == IdleReq \in AdminReq
<1>1. <<>> \in Seq(Item)
  OBVIOUS
<1>2. 0 \in Contents
  BY AdminAssumption
<1> QED BY <1>1, <1>2, DocType DEF IdleReq, AdminReq, Nothing

LEMMA InitType == AdminInit => AdminTypeOK
BY DocType, IdleReqType, AdminAssumption DEF AdminInit, AdminTypeOK

\* A step that replaces one request's record by another keeps the table's type.
LEMMA TableType ==
  ASSUME req \in [Requests -> AdminReq], NEW r \in Requests,
         NEW rec \in AdminReq, Step(r, rec)
  PROVE  req' \in [Requests -> AdminReq]
BY DEF Step

LEMMA StubType ==
  ASSUME NEW m, m.text \in Texts, m.persistent \in BOOLEAN, NEW s \in Nat
  PROVE  StoredStub(m, s) \in Doc
BY DEF StoredStub, Doc

\* A request that begins has the record it was given, with the operation's name
\* and the sequence counter as it stands.
LEMMA BeginType ==
  ASSUME AdminTypeOK, NEW r \in Requests, NEW rec \in AdminReq,
         NEW op \in {"create", "update", "delete", "reset", "deleteAll",
                     "removeByMetadata", "save", "import", "file", "settings"},
         Begin(r, op, rec)
  PROVE  AdminTypeOK'
<1>1. [rec EXCEPT !.op = op, !.start = seq] \in AdminReq
  BY DEF AdminReq, AdminTypeOK
<1>2. req' \in [Requests -> AdminReq]
  BY <1>1, TableType DEF Begin, AdminTypeOK
<1> QED BY <1>2 DEF Begin, AdminTypeOK, shared

\* The record a DELETE of one stub begins with.
LEMMA RemovalRec ==
  ASSUME NEW id \in Ids
  PROVE  LET rec == [IdleReq EXCEPT !.pc = "remove", !.keys = {id}]
         IN  /\ rec \in AdminReq /\ rec.pc = "remove" /\ rec.keys = {id}
             /\ rec.op = "none" /\ rec.copy = Nothing /\ rec.items = <<>> /\ ~rec.prune
<1> DEFINE rec == [IdleReq EXCEPT !.pc = "remove", !.keys = {id}]
<1>1. {id} \in SUBSET Ids
  OBVIOUS
<1>2. rec \in AdminReq
  BY <1>1, IdleReqType DEF AdminReq
<1>3. /\ rec.pc = "remove" /\ rec.keys = {id} /\ rec.op = "none" /\ rec.copy = Nothing
      /\ rec.items = <<>> /\ ~rec.prune
  BY DEF IdleReq
<1> QED BY <1>2, <1>3

LEMMA ArriveType ==
  ASSUME AdminTypeOK, NEW r \in Requests, Arrive(r)
  PROVE  AdminTypeOK'
<1> USE IdleReqType
<1>1. CASE CreateMapping(r)
  <2>1. PICK id \in IdsOf[r], m \in Mappings :
          Begin(r, "create", [IdleReq EXCEPT !.pc = "seq", !.keys = {id},
                                             !.doc = StoredStub(m, 0)])
    BY <1>1 DEF CreateMapping
  <2>2. id \in Ids /\ m.text \in Texts /\ m.persistent \in BOOLEAN
    BY AdminAssumption
  <2>3. StoredStub(m, 0) \in Doc
    BY <2>2, StubType
  <2>4. [IdleReq EXCEPT !.pc = "seq", !.keys = {id}, !.doc = StoredStub(m, 0)] \in AdminReq
    BY <2>2, <2>3 DEF AdminReq
  <2> QED BY <2>1, <2>4, BeginType
<1>2. CASE UpdateMapping(r)
  <2>1. PICK id \in IdsOf[r], m \in Mappings :
          Begin(r, "update", [IdleReq EXCEPT !.pc = "put", !.keys = {id},
                                             !.doc = StoredStub(m, docs[id].seq)])
    BY <1>2 DEF UpdateMapping
  <2>2. id \in Ids /\ m.text \in Texts /\ m.persistent \in BOOLEAN
    BY AdminAssumption
  <2>3. docs[id].seq \in Nat
    BY <2>2 DEF AdminTypeOK, Doc
  <2>4. StoredStub(m, docs[id].seq) \in Doc
    BY <2>2, <2>3, StubType
  <2>5. [IdleReq EXCEPT !.pc = "put", !.keys = {id},
                        !.doc = StoredStub(m, docs[id].seq)] \in AdminReq
    BY <2>2, <2>4 DEF AdminReq
  <2> QED BY <2>1, <2>5, BeginType
<1>3. CASE DeleteMapping(r)
  <2>1. PICK id \in IdsOf[r] :
          Begin(r, "delete", [IdleReq EXCEPT !.pc = "remove", !.keys = {id}])
    BY <1>3 DEF DeleteMapping
  <2>2. [IdleReq EXCEPT !.pc = "remove", !.keys = {id}] \in AdminReq
    <3>1. id \in Ids
      BY AdminAssumption
    <3> QED BY <3>1, RemovalRec
  <2> QED BY <2>1, <2>2, BeginType
<1>4. CASE BulkRequest(r)
  <2>1. PICK op \in {"reset", "deleteAll", "removeByMetadata", "save"} :
          Begin(r, op, [IdleReq EXCEPT !.pc = "list", !.unread = Ids])
    BY <1>4 DEF BulkRequest
  <2>2. [IdleReq EXCEPT !.pc = "list", !.unread = Ids] \in AdminReq
    BY DEF AdminReq
  <2> QED BY <2>1, <2>2, BeginType
<1>5. CASE ImportMappings(r)
  <2> DEFINE rec(b) ==
        [IdleReq EXCEPT !.pc = "lookup", !.items = b.items, !.batch = b.items,
                        !.ignore = b.ignore, !.prune = b.prune,
                        !.unread = {b.items[i].id : i \in 1 .. Len(b.items)}]
  <2>1. PICK b \in Batches : Begin(r, "import", rec(b))
    BY <1>5 DEF ImportMappings
  <2>2. b.items \in Seq(Item) /\ b.ignore \in BOOLEAN /\ b.prune \in BOOLEAN
    BY AdminAssumption
  <2>3. {b.items[i].id : i \in 1 .. Len(b.items)} \in SUBSET Ids
    <3>1. \A i \in 1 .. Len(b.items) : b.items[i] \in Item
      BY <2>2
    <3>2. \A i \in 1 .. Len(b.items) : b.items[i].id \in Ids
      BY <3>1 DEF Item
    <3> QED BY <3>2
  <2>4. rec(b) \in AdminReq
    BY <2>2, <2>3 DEF AdminReq
  <2> QED BY <2>1, <2>4, BeginType
<1>6. CASE PutOther(r)
  <2>1. PICK op \in {"file", "settings"}, c \in Contents :
          Begin(r, op, [IdleReq EXCEPT !.pc = "write", !.value = c])
    BY <1>6 DEF PutOther
  <2>2. [IdleReq EXCEPT !.pc = "write", !.value = c] \in AdminReq
    BY DEF AdminReq
  <2> QED BY <2>1, <2>2, BeginType
<1> QED BY <1>1, <1>2, <1>3, <1>4, <1>5, <1>6 DEF Arrive

LEMMA DoneType ==
  ASSUME AdminTypeOK, NEW r \in Requests, NEW id
  PROVE  Done(r, id) \in AdminReq
<1> DEFINE pc == IF req[r].keys = {id} THEN "bump" ELSE req[r].pc
           keys == req[r].keys \ {id}
<1>1. req[r] \in AdminReq
  BY DEF AdminTypeOK
<1>2. pc \in {"idle", "seq", "put", "remove", "list", "save", "lookup",
             "apply", "write", "bump", "answer"}
  BY <1>1 DEF AdminReq
<1>3. keys \in SUBSET Ids
  BY <1>1 DEF AdminReq
<1>4. Done(r, id) = [req[r] EXCEPT !.keys = keys, !.pc = pc]
  BY <1>1 DEF Done, AdminReq
<1> HIDE DEF pc, keys
<1> QED BY ZenonT(40), <1>1, <1>2, <1>3, <1>4 DEF AdminReq

\* What the batch still holds after its last element has been taken.
LEMMA FrontType ==
  ASSUME NEW s \in Seq(Item), s # <<>>
  PROVE  /\ s[Len(s)] \in Item
         /\ SubSeq(s, 1, Len(s) - 1) \in Seq(Item)
<1>1. Len(s) \in Nat /\ Len(s) >= 1
  BY EmptySeq, LenProperties
<1>2. \A i \in 1 .. Len(s) - 1 : s[i] \in Item
  BY <1>1, ElementOfSeq
<1> QED BY <1>1, <1>2, ElementOfSeq, SubSeqProperties

LEMMA StoreCallType ==
  ASSUME AdminTypeOK, NEW r \in Requests, StoreCall(r)
  PROVE  AdminTypeOK'
<1> USE IdleReqType, DocType
<1>t. req \in [Requests -> AdminReq] /\ req[r] \in AdminReq
  BY DEF AdminTypeOK
<1>1. CASE ReadKey(r)
  <2>1. PICK id \in req[r].unread :
          Step(r, [req[r] EXCEPT !.unread = @ \ {id}, !.copy[id] = docs[id]])
    BY <1>1 DEF ReadKey
  <2>2. id \in Ids /\ docs[id] \in Doc
    BY <1>t DEF AdminTypeOK, AdminReq
  <2>3. [req[r] EXCEPT !.unread = @ \ {id}, !.copy[id] = docs[id]] \in AdminReq
    BY <1>t, <2>2 DEF AdminReq
  <2>4. req' \in [Requests -> AdminReq]
    BY <1>t, <2>1, <2>3, TableType
  <2> QED BY <1>1, <2>4 DEF ReadKey, AdminTypeOK, shared
<1>2. CASE Listed(r)
  <2> DEFINE keys == {id \in Ids : Selects(r, id)}
             rec == IF keys # {}
                      THEN [req[r] EXCEPT !.keys = keys,
                              !.pc = IF req[r].op = "save" THEN "save" ELSE "remove"]
                      ELSE IF req[r].op = "removeByMetadata" THEN IdleReq
                      ELSE [req[r] EXCEPT !.pc = "bump"]
  <2>1. Step(r, rec)
    BY <1>2 DEF Listed
  <2>2. keys \in SUBSET Ids
    OBVIOUS
  <2> HIDE DEF keys
  <2>3. rec \in AdminReq
    <3>1. /\ [req[r] EXCEPT !.keys = keys, !.pc = "save"] \in AdminReq
          /\ [req[r] EXCEPT !.keys = keys, !.pc = "remove"] \in AdminReq
          /\ [req[r] EXCEPT !.pc = "bump"] \in AdminReq
      BY <1>t, <2>2 DEF AdminReq
    <3> QED BY <3>1
  <2> HIDE DEF rec
  <2>4. req' \in [Requests -> AdminReq]
    BY <1>t, <2>1, <2>3, TableType
  <2> QED BY <1>2, <2>4 DEF Listed, AdminTypeOK, shared
<1>3. CASE RemoveKey(r)
  <2>1. PICK id \in req[r].keys :
          /\ docs' = [docs EXCEPT ![id] = NoDoc]
          /\ Step(r, IF req[r].op = "delete" THEN [req[r] EXCEPT !.pc = "bump"]
                     ELSE Done(r, id))
    BY <1>3 DEF RemoveKey
  <2>2. [req[r] EXCEPT !.pc = "bump"] \in AdminReq /\ Done(r, id) \in AdminReq
    BY <1>t, DoneType DEF AdminReq
  <2>3. req' \in [Requests -> AdminReq]
    BY <1>t, <2>1, <2>2, TableType
  <2>4. docs' \in [Ids -> Doc]
    BY <2>1 DEF AdminTypeOK
  <2> QED BY <1>3, <2>3, <2>4 DEF RemoveKey, AdminTypeOK
<1>4. CASE SaveKey(r)
  <2>1. PICK id \in req[r].keys :
          /\ docs' = [docs EXCEPT ![id] = [req[r].copy[id] EXCEPT !.persistent = TRUE]]
          /\ Step(r, Done(r, id))
    BY <1>4 DEF SaveKey
  <2>2. Done(r, id) \in AdminReq
    BY DoneType
  <2>3. req' \in [Requests -> AdminReq]
    BY <1>t, <2>1, <2>2, TableType
  <2>4. req[r].copy[id] \in Doc
    BY <1>t DEF AdminReq
  <2>5. [req[r].copy[id] EXCEPT !.persistent = TRUE] \in Doc
    BY <2>4 DEF Doc
  <2>6. docs' \in [Ids -> Doc]
    BY <2>1, <2>5 DEF AdminTypeOK
  <2> QED BY <1>4, <2>3, <2>6 DEF SaveKey, AdminTypeOK
<1>5. CASE NextSeq(r)
  <2>1. seq + 1 \in Nat
    BY DEF AdminTypeOK
  <2>2. req[r].doc \in Doc
    BY <1>t DEF AdminReq
  <2>3. [req[r].doc EXCEPT !.seq = seq + 1] \in Doc
    BY <2>1, <2>2 DEF Doc
  <2>4. [req[r] EXCEPT !.pc = "put", !.doc = [req[r].doc EXCEPT !.seq = seq + 1]] \in AdminReq
    BY <1>t, <2>3 DEF AdminReq
  <2>5. [req[r] EXCEPT !.pc = "put", !.doc.seq = seq + 1]
          = [req[r] EXCEPT !.pc = "put", !.doc = [req[r].doc EXCEPT !.seq = seq + 1]]
    BY <1>t DEF AdminReq
  <2>6. req' \in [Requests -> AdminReq]
    BY <1>5, <1>t, <2>4, <2>5, TableType DEF NextSeq
  <2> QED BY <1>5, <2>1, <2>6 DEF NextSeq, AdminTypeOK
<1>6. CASE PutStub(r)
  <2>1. PICK id \in req[r].keys :
          /\ docs' = [docs EXCEPT ![id] = req[r].doc]
          /\ Step(r, IF req[r].op = "import"
                       THEN [req[r] EXCEPT !.pc = "apply", !.keys = {},
                                           !.copy[id] = req[r].doc]
                       ELSE [req[r] EXCEPT !.pc = "bump"])
    BY <1>6 DEF PutStub
  <2>2. req[r].doc \in Doc
    BY <1>t DEF AdminReq
  <2>3. [req[r] EXCEPT !.pc = "apply", !.keys = {}, !.copy[id] = req[r].doc] \in AdminReq
    BY <1>t, <2>2 DEF AdminReq
  <2>4. [req[r] EXCEPT !.pc = "bump"] \in AdminReq
    BY <1>t DEF AdminReq
  <2>5. req' \in [Requests -> AdminReq]
    BY <1>t, <2>1, <2>3, <2>4, TableType
  <2>6. docs' \in [Ids -> Doc]
    BY <2>1, <2>2 DEF AdminTypeOK
  <2> QED BY <1>6, <2>5, <2>6 DEF PutStub, AdminTypeOK
<1>7. CASE ApplyItem(r)
  <2> DEFINE item == req[r].items[Len(req[r].items)]
             held == req[r].copy[item.id]
             rest == [req[r] EXCEPT !.items = SubSeq(@, 1, Len(@) - 1), !.pc = "apply"]
             doc == StoredStub(item, held.seq)
             next == [rest EXCEPT !.keys = {item.id}, !.doc = doc,
                                  !.pc = IF held # NoDoc THEN "put" ELSE "seq"]
  <2>1. Step(r, IF held # NoDoc /\ req[r].ignore THEN rest ELSE next)
    BY <1>7 DEF ApplyItem
  <2>2. req[r].items \in Seq(Item) /\ req[r].items # <<>>
    BY <1>7, <1>t DEF ApplyItem, AdminReq
  <2>3. item \in Item /\ SubSeq(req[r].items, 1, Len(req[r].items) - 1) \in Seq(Item)
    BY <2>2, FrontType
  <2>4. item.id \in Ids /\ item.text \in Texts /\ item.persistent \in BOOLEAN
    BY <2>3 DEF Item
  <2>5. held.seq \in Nat
    BY <1>t, <2>4 DEF AdminReq, Doc
  <2>6. doc \in Doc
    BY <2>4, <2>5, StubType
  <2>7. rest \in AdminReq
    BY <1>t, <2>3 DEF AdminReq
  <2> HIDE DEF item, doc, held, rest
  <2>8. next \in AdminReq
    BY <2>4, <2>6, <2>7 DEF AdminReq
  <2> HIDE DEF next
  <2>9. req' \in [Requests -> AdminReq]
    BY <1>t, <2>1, <2>7, <2>8, TableType
  <2> QED BY <1>7, <2>9 DEF ApplyItem, AdminTypeOK, shared
<1>8. CASE Applied(r)
  <2>1. /\ [req[r] EXCEPT !.pc = "list", !.unread = Ids] \in AdminReq
        /\ [req[r] EXCEPT !.pc = "bump"] \in AdminReq
    BY <1>t DEF AdminReq
  <2>2. req' \in [Requests -> AdminReq]
    BY <1>8, <1>t, <2>1, TableType DEF Applied
  <2> QED BY <1>8, <2>2 DEF Applied, AdminTypeOK, shared
<1>9. CASE WriteOther(r)
  <2>1. [req[r] EXCEPT !.pc = "bump"] \in AdminReq /\ req[r].value \in Contents
    BY <1>t DEF AdminReq
  <2>2. req' \in [Requests -> AdminReq]
    BY <1>9, <1>t, <2>1, TableType DEF WriteOther
  <2> QED BY <1>9, <2>1, <2>2 DEF WriteOther, AdminTypeOK
<1>10. CASE BumpEpoch(r)
  <2>1. [req[r] EXCEPT !.pc = "answer"] \in AdminReq
    BY <1>t DEF AdminReq
  <2>2. req' \in [Requests -> AdminReq]
    BY <1>10, <1>t, <2>1, TableType DEF BumpEpoch
  <2>3. unsignalled' \in BOOLEAN
    BY <1>10 DEF BumpEpoch
  <2>4. epoch' \in Nat
    BY <1>10 DEF BumpEpoch, AdminTypeOK
  <2> QED BY <1>10, <2>2, <2>3, <2>4 DEF BumpEpoch, AdminTypeOK
<1> QED BY <1>1, <1>2, <1>3, <1>4, <1>5, <1>6, <1>7, <1>8, <1>9, <1>10 DEF StoreCall

\* The steps that are not a request's own calls.
LEMMA OtherType ==
  ASSUME AdminTypeOK,
         \/ \E r \in Requests : Abandon(r) \/ Answer(r)
         \/ \E id \in Ids : Expire(id)
         \/ UNCHANGED adminVars
  PROVE  AdminTypeOK'
<1> USE IdleReqType, DocType
<1>t. req \in [Requests -> AdminReq]
  BY DEF AdminTypeOK
<1>1. ASSUME NEW r \in Requests, Abandon(r) PROVE AdminTypeOK'
  <2>1. req' \in [Requests -> AdminReq]
    BY <1>1, <1>t, TableType DEF Abandon
  <2> QED BY <1>1, <2>1 DEF Abandon, Fault, AdminTypeOK, shared
<1>2. ASSUME NEW r \in Requests, Answer(r) PROVE AdminTypeOK'
  <2>1. req' \in [Requests -> AdminReq]
    BY <1>2, <1>t, TableType DEF Answer
  <2> QED BY <1>2, <2>1 DEF Answer, AdminTypeOK, shared
<1>3. ASSUME NEW id \in Ids, Expire(id) PROVE AdminTypeOK'
  BY <1>3 DEF Expire, AdminTypeOK
<1>4. CASE UNCHANGED adminVars
  BY <1>4 DEF adminVars, AdminTypeOK
<1> QED BY <1>1, <1>2, <1>3, <1>4

AdminNext == AdminStep \/ \E r \in Requests : Answer(r)

LEMMA NextType == AdminTypeOK /\ [AdminNext]_adminVars => AdminTypeOK'
BY ArriveType, StoreCallType, OtherType DEF AdminNext, AdminStep

\* Every variable of the write path keeps its shape, whatever requests
\* interleave and fail.
THEOREM AdminTypeCorrect == AdminSpec => []AdminTypeOK
BY InitType, NextType, PTL DEF AdminSpec, AdminNext

-----------------------------------------------------------------------------
(* No two stubs share a sequence.  A sequence lives on outside the          *)
(* collection too: in what a request has read, and in what it is about to   *)
(* write.  Counting those as held, a sequence is only ever held for one id, *)
(* and none above the counter is held at all.                               *)

Held(i, s) ==
  \/ docs[i].seq = s
  \/ \E r \in Requests : req[r].copy[i].seq = s
  \/ \E r \in Requests : req[r].pc = "put" /\ i \in req[r].keys /\ req[r].doc.seq = s

\* No document, or one whose sequence is already held for the id.
Fits(i, d) == d = NoDoc \/ (d.seq > 0 /\ Held(i, d.seq))

\* A request's record agrees with what is held: what it read, what it is about
\* to write, the one key it draws a sequence for and the stubs it saves.
RecordFits(rec) ==
  /\ \A i \in Ids : Fits(i, rec.copy[i])
  /\ rec.pc = "put" => rec.doc.seq > 0 /\ \A i \in rec.keys : Held(i, rec.doc.seq)
  /\ rec.pc = "seq" => \E id \in Ids : rec.keys = {id}
  /\ rec.pc = "save" => \A id \in rec.keys : rec.copy[id] # NoDoc

DrawnInv == \A i \in Ids, s \in Nat : Held(i, s) => s <= seq

OwnerInv == \A i, j \in Ids, s \in Nat : (Held(i, s) /\ Held(j, s) /\ s > 0) => i = j

DocsInv == \A i \in Ids : docs[i] # NoDoc => docs[i].seq > 0

RecordsInv == \A r \in Requests : RecordFits(req[r])

SeqInv == AdminTypeOK /\ DrawnInv /\ OwnerInv /\ DocsInv /\ RecordsInv

LEMMA InitSeqInv == AdminInit => SeqInv
<1> SUFFICES ASSUME AdminInit PROVE SeqInv
  OBVIOUS
<1>1. AdminTypeOK
  BY InitType
<1>2. \A i \in Ids : docs[i] = NoDoc
  BY DEF AdminInit, Nothing
<1>3. \A r \in Requests : /\ req[r].pc = "idle"
                          /\ \A i \in Ids : req[r].copy[i] = NoDoc
  BY DEF AdminInit, IdleReq, Nothing
<1>4. \A i \in Ids, s \in Nat : Held(i, s) => s = 0
  BY <1>2, <1>3 DEF Held, NoDoc
<1>5. DrawnInv /\ OwnerInv
  BY <1>4 DEF DrawnInv, OwnerInv, AdminInit
<1>6. DocsInv
  BY <1>2 DEF DocsInv
<1>7. RecordsInv
  BY <1>3 DEF RecordsInv, RecordFits, Fits
<1> QED BY <1>1, <1>5, <1>6, <1>7 DEF SeqInv

\* A step that holds nothing new keeps the first two parts.
LEMMA NothingNew ==
  ASSUME SeqInv, seq' = seq,
         \A i \in Ids, s \in Nat : Held(i, s)' => Held(i, s) \/ s = 0
  PROVE  DrawnInv' /\ OwnerInv'
<1>1. seq \in Nat
  BY DEF SeqInv, AdminTypeOK
<1>2. DrawnInv'
  BY <1>1 DEF DrawnInv, SeqInv
<1>3. OwnerInv'
  <2> SUFFICES ASSUME NEW i \in Ids, NEW j \in Ids, NEW s \in Nat,
                      Held(i, s)', Held(j, s)', s > 0
               PROVE  i = j
    BY DEF OwnerInv
  <2> QED BY DEF SeqInv, OwnerInv
<1> QED BY <1>2, <1>3

\* A request moves on to a record that agrees with what is held, and writes no
\* document that does not.
LEMMA Keeps ==
  ASSUME SeqInv, AdminTypeOK', NEW r \in Requests, NEW rec, Step(r, rec), seq' = seq,
         \A i \in Ids : docs'[i] = docs[i] \/ Fits(i, docs'[i]),
         RecordFits(rec)
  PROVE  SeqInv'
<1>t. req \in [Requests -> AdminReq]
  BY DEF SeqInv, AdminTypeOK
<1>r. \A q \in Requests : req'[q] = req[q] \/ req'[q] = rec
  BY <1>t DEF Step
<1>f. \A q \in Requests : RecordFits(req'[q])
  BY <1>r DEF SeqInv, RecordsInv
<1>1. \A i \in Ids, s \in Nat : Held(i, s)' => Held(i, s) \/ s = 0
  <2> SUFFICES ASSUME NEW i \in Ids, NEW s \in Nat, Held(i, s)'
               PROVE  Held(i, s) \/ s = 0
    OBVIOUS
  <2>1. CASE docs'[i].seq = s
    <3>1. CASE docs'[i] = docs[i]
      BY <2>1, <3>1 DEF Held
    <3>2. CASE docs'[i] = NoDoc
      BY <2>1, <3>2 DEF NoDoc
    <3>3. CASE Held(i, docs'[i].seq)
      BY <2>1, <3>3
    <3> QED BY <3>1, <3>2, <3>3 DEF Fits
  <2>2. ASSUME NEW q \in Requests, req'[q].copy[i].seq = s
        PROVE  Held(i, s) \/ s = 0
    <3>1. Fits(i, req'[q].copy[i])
      BY <1>f DEF RecordFits
    <3>2. CASE req'[q].copy[i] = NoDoc
      BY <2>2, <3>2 DEF NoDoc
    <3>3. CASE Held(i, req'[q].copy[i].seq)
      BY <2>2, <3>3
    <3> QED BY <3>1, <3>2, <3>3 DEF Fits
  <2>3. ASSUME NEW q \in Requests, req'[q].pc = "put", i \in req'[q].keys,
               req'[q].doc.seq = s
        PROVE  Held(i, s)
    BY <1>f, <2>3 DEF RecordFits
  <2>4. \/ docs'[i].seq = s
        \/ \E q \in Requests : req'[q].copy[i].seq = s
        \/ \E q \in Requests : req'[q].pc = "put" /\ i \in req'[q].keys /\ req'[q].doc.seq = s
    BY DEF Held
  <2> QED BY <2>1, <2>2, <2>3, <2>4
<1>2. DrawnInv' /\ OwnerInv'
  BY <1>1, NothingNew
<1>3. DocsInv'
  BY DEF SeqInv, DocsInv, Fits
<1>4. ASSUME NEW q \in Requests PROVE RecordFits(req[q])'
  <2>1. \A i \in Ids : Held(i, req[q].copy[i].seq)'
    BY DEF Held
  <2>2. req'[q].pc = "put" => \A i \in req'[q].keys : Held(i, req[q].doc.seq)'
    BY DEF Held
  <2>3. RecordFits(req'[q])
    BY <1>f
  <2>4. \A i \in Ids : Fits(i, req[q].copy[i])'
    BY <2>1, <2>3 DEF RecordFits, Fits
  <2> QED BY <2>2, <2>3, <2>4 DEF RecordFits
<1>5. RecordsInv'
  BY <1>4 DEF RecordsInv
<1> QED BY <1>2, <1>3, <1>5 DEF SeqInv

\* What a request has read, and what it is about to write, is held for it.
LEMMA HeldFits ==
  ASSUME SeqInv
  PROVE  /\ \A i \in Ids : Fits(i, docs[i])
         /\ \A q \in Requests : RecordFits(req[q])
         /\ \A i \in Ids : Fits(i, NoDoc)
BY DEF SeqInv, DocsInv, RecordsInv, Fits, Held

\* A request that begins has read nothing.
LEMMA BeginKeeps ==
  ASSUME SeqInv, AdminTypeOK', NEW r \in Requests, NEW op, NEW rec \in AdminReq,
         Begin(r, op, rec), rec.copy = Nothing, rec.pc # "save",
         rec.pc = "put" => rec.doc.seq > 0 /\ \A i \in rec.keys : Held(i, rec.doc.seq),
         rec.pc = "seq" => \E id \in Ids : rec.keys = {id}
  PROVE  SeqInv'
<1> DEFINE new == [rec EXCEPT !.op = op, !.start = seq]
<1>1. /\ new.copy = Nothing /\ new.pc = rec.pc /\ new.keys = rec.keys
      /\ new.doc = rec.doc
  BY DEF AdminReq
<1>2. Step(r, new) /\ seq' = seq /\ docs' = docs
  BY DEF Begin, shared
<1> HIDE DEF new
<1>3. RecordFits(new)
  BY <1>1 DEF RecordFits, Fits, Nothing
<1> QED BY <1>2, <1>3, Keeps

LEMMA ArriveKeeps ==
  ASSUME SeqInv, AdminTypeOK', NEW r \in Requests, Arrive(r)
  PROVE  SeqInv'
<1> USE IdleReqType
<1>0. IdleReq.copy = Nothing /\ IdleReq.pc = "idle"
  BY DEF IdleReq
<1>d. docs \in [Ids -> Doc]
  BY DEF SeqInv, AdminTypeOK
<1>1. CASE CreateMapping(r)
  <2> DEFINE rec(id, m) == [IdleReq EXCEPT !.pc = "seq", !.keys = {id}, !.doc = StoredStub(m, 0)]
  <2>1. PICK id \in IdsOf[r], m \in Mappings : Begin(r, "create", rec(id, m))
    BY <1>1 DEF CreateMapping
  <2>2. id \in Ids /\ StoredStub(m, 0) \in Doc
    BY AdminAssumption, StubType
  <2>3. /\ rec(id, m) \in AdminReq /\ rec(id, m).copy = Nothing
        /\ rec(id, m).pc = "seq" /\ rec(id, m).keys = {id}
    BY <1>0, <2>2 DEF AdminReq
  <2> HIDE DEF rec
  <2> QED BY <2>1, <2>2, <2>3, BeginKeeps
<1>2. CASE UpdateMapping(r)
  <2> DEFINE rec(id, m) == [IdleReq EXCEPT !.pc = "put", !.keys = {id},
                                           !.doc = StoredStub(m, docs[id].seq)]
  <2>1. PICK id \in IdsOf[r], m \in Mappings :
          docs[id] # NoDoc /\ Begin(r, "update", rec(id, m))
    BY <1>2 DEF UpdateMapping
  <2>2. id \in Ids /\ docs[id].seq \in Nat
    BY <1>d, AdminAssumption DEF Doc
  <2>3. StoredStub(m, docs[id].seq) \in Doc /\ StoredStub(m, docs[id].seq).seq = docs[id].seq
    BY <2>2, AdminAssumption, StubType DEF StoredStub
  <2>4. /\ rec(id, m) \in AdminReq /\ rec(id, m).copy = Nothing
        /\ rec(id, m).pc = "put" /\ rec(id, m).keys = {id}
        /\ rec(id, m).doc.seq = docs[id].seq
    BY <1>0, <2>2, <2>3 DEF AdminReq
  <2>5. docs[id].seq > 0 /\ Held(id, docs[id].seq)
    BY <2>1, <2>2 DEF SeqInv, DocsInv, Held
  <2> HIDE DEF rec
  <2> QED BY <2>1, <2>4, <2>5, BeginKeeps
<1>3. CASE DeleteMapping(r)
  <2> DEFINE rec(id) == [IdleReq EXCEPT !.pc = "remove", !.keys = {id}]
  <2>1. PICK id \in IdsOf[r] : Begin(r, "delete", rec(id))
    BY <1>3 DEF DeleteMapping
  <2>2. rec(id) \in AdminReq /\ rec(id).copy = Nothing /\ rec(id).pc = "remove"
    <3>1. id \in Ids
      BY AdminAssumption
    <3> QED BY <3>1, RemovalRec
  <2> HIDE DEF rec
  <2> QED BY <2>1, <2>2, BeginKeeps
<1>4. CASE BulkRequest(r)
  <2> DEFINE rec == [IdleReq EXCEPT !.pc = "list", !.unread = Ids]
  <2>1. PICK op \in {"reset", "deleteAll", "removeByMetadata", "save"} : Begin(r, op, rec)
    BY <1>4 DEF BulkRequest
  <2>2. rec \in AdminReq /\ rec.copy = Nothing /\ rec.pc = "list"
    BY <1>0 DEF AdminReq
  <2> HIDE DEF rec
  <2> QED BY <2>1, <2>2, BeginKeeps
<1>5. CASE ImportMappings(r)
  <2> DEFINE ids(b) == {b.items[i].id : i \in 1 .. Len(b.items)}
             rec(b) ==
        [IdleReq EXCEPT !.pc = "lookup", !.items = b.items, !.batch = b.items,
                        !.ignore = b.ignore, !.prune = b.prune, !.unread = ids(b)]
  <2>1. PICK b \in Batches : Begin(r, "import", rec(b))
    BY <1>5 DEF ImportMappings
  <2>2. b.items \in Seq(Item) /\ b.ignore \in BOOLEAN /\ b.prune \in BOOLEAN
    BY AdminAssumption
  <2>3. ids(b) \in SUBSET Ids
    <3>1. \A i \in 1 .. Len(b.items) : b.items[i] \in Item
      BY <2>2
    <3>2. \A i \in 1 .. Len(b.items) : b.items[i].id \in Ids
      BY <3>1 DEF Item
    <3> QED BY <3>2
  <2> HIDE DEF ids
  <2>4. rec(b) \in AdminReq /\ rec(b).copy = Nothing /\ rec(b).pc = "lookup"
    BY <1>0, <2>2, <2>3 DEF AdminReq
  <2> HIDE DEF rec
  <2> QED BY <2>1, <2>4, BeginKeeps
<1>6. CASE PutOther(r)
  <2> DEFINE rec(c) == [IdleReq EXCEPT !.pc = "write", !.value = c]
  <2>1. PICK op \in {"file", "settings"}, c \in Contents : Begin(r, op, rec(c))
    BY <1>6 DEF PutOther
  <2>2. rec(c) \in AdminReq /\ rec(c).copy = Nothing /\ rec(c).pc = "write"
    BY <1>0 DEF AdminReq
  <2> HIDE DEF rec
  <2> QED BY <2>1, <2>2, BeginKeeps
<1> QED BY <1>1, <1>2, <1>3, <1>4, <1>5, <1>6 DEF Arrive

\* The counter's next value is held by nobody, so the request that draws it
\* becomes its only holder, for the one id it is about.
LEMMA NextSeqKeeps ==
  ASSUME SeqInv, AdminTypeOK', NEW r \in Requests, NextSeq(r)
  PROVE  SeqInv'
<1>t. req \in [Requests -> AdminReq] /\ req[r] \in AdminReq /\ seq \in Nat
  BY DEF SeqInv, AdminTypeOK
<1>k. PICK id \in Ids : req[r].keys = {id}
  BY DEF NextSeq, SeqInv, RecordsInv, RecordFits
<1>1. /\ req'[r].copy = req[r].copy /\ req'[r].keys = {id} /\ req'[r].pc = "put"
      /\ req'[r].doc.seq = seq + 1 /\ docs' = docs /\ seq' = seq + 1
      /\ \A q \in Requests \ {r} : req'[q] = req[q]
  BY <1>t, <1>k DEF NextSeq, Step, AdminReq, Doc
<1>2. \A i \in Ids, s \in Nat : Held(i, s)' => Held(i, s) \/ (i = id /\ s = seq + 1)
  <2> SUFFICES ASSUME NEW i \in Ids, NEW s \in Nat, Held(i, s)'
               PROVE  Held(i, s) \/ (i = id /\ s = seq + 1)
    OBVIOUS
  <2>1. CASE docs'[i].seq = s
    BY <1>1, <2>1 DEF Held
  <2>2. ASSUME NEW q \in Requests, req'[q].copy[i].seq = s PROVE Held(i, s)
    BY <1>1, <2>2 DEF Held
  <2>3. ASSUME NEW q \in Requests, req'[q].pc = "put", i \in req'[q].keys,
               req'[q].doc.seq = s
        PROVE  Held(i, s) \/ (i = id /\ s = seq + 1)
    <3>1. CASE q = r
      BY <1>1, <2>3, <3>1
    <3>2. CASE q # r
      BY <1>1, <2>3, <3>2 DEF Held
    <3> QED BY <3>1, <3>2
  <2> QED BY <2>1, <2>2, <2>3 DEF Held
<1>3. DrawnInv'
  BY <1>t, <1>1, <1>2 DEF SeqInv, DrawnInv
<1>4. OwnerInv'
  <2> SUFFICES ASSUME NEW i \in Ids, NEW j \in Ids, NEW s \in Nat,
                      Held(i, s)', Held(j, s)', s > 0
               PROVE  i = j
    BY DEF OwnerInv
  <2>1. CASE s = seq + 1
    <3>1. ~Held(i, s) /\ ~Held(j, s)
      BY <1>t, <2>1 DEF SeqInv, DrawnInv
    <3> QED BY <1>2, <3>1
  <2>2. CASE s # seq + 1
    BY <1>2, <2>2 DEF SeqInv, OwnerInv
  <2> QED BY <2>1, <2>2
<1>5. DocsInv'
  BY <1>1 DEF SeqInv, DocsInv
<1>6. ASSUME NEW q \in Requests PROVE RecordFits(req[q])'
  <2>1. RecordFits(req[q])
    BY DEF SeqInv, RecordsInv
  <2>2. req'[q].copy = req[q].copy
    BY <1>1
  <2>3. \A i \in Ids : Held(i, req[q].copy[i].seq)'
    BY DEF Held
  <2>4. \A i \in Ids : Fits(i, req[q].copy[i])'
    BY <2>1, <2>2, <2>3 DEF RecordFits, Fits
  <2>5. req'[q].pc = "put" => \A i \in req'[q].keys : Held(i, req[q].doc.seq)'
    BY DEF Held
  <2>6. CASE q = r
    BY <1>t, <1>1, <2>4, <2>5, <2>6 DEF RecordFits
  <2>7. CASE q # r
    BY <1>1, <2>1, <2>4, <2>5, <2>7 DEF RecordFits
  <2> QED BY <2>6, <2>7
<1>7. RecordsInv'
  BY <1>6 DEF RecordsInv
<1> QED BY <1>3, <1>4, <1>5, <1>7 DEF SeqInv

\* A record that differs only in what the invariant does not look at.
LEMMA SameFits ==
  ASSUME NEW old, RecordFits(old), NEW rec, rec.copy = old.copy,
         rec.pc \notin {"put", "seq", "save"}
  PROVE  RecordFits(rec)
BY DEF RecordFits

LEMMA DoneFits ==
  ASSUME SeqInv, NEW r \in Requests, req[r].pc \in {"remove", "save"}, NEW id
  PROVE  RecordFits(Done(r, id))
<1>1. req[r] \in AdminReq /\ RecordFits(req[r])
  BY HeldFits DEF SeqInv, AdminTypeOK
<1>2. /\ Done(r, id).copy = req[r].copy
      /\ Done(r, id).keys = req[r].keys \ {id}
      /\ Done(r, id).pc \in {"bump", req[r].pc}
  BY <1>1 DEF Done, AdminReq
<1> HIDE DEF Done
<1> QED BY <1>1, <1>2 DEF RecordFits

LEMMA StoreCallKeeps ==
  ASSUME SeqInv, AdminTypeOK', NEW r \in Requests, StoreCall(r)
  PROVE  SeqInv'
<1> USE IdleReqType
<1>t. /\ req \in [Requests -> AdminReq] /\ req[r] \in AdminReq
      /\ docs \in [Ids -> Doc]
  BY DEF SeqInv, AdminTypeOK
<1>f. /\ RecordFits(req[r]) /\ RecordFits(IdleReq)
      /\ \A i \in Ids : Fits(i, docs[i]) /\ Fits(i, NoDoc)
  <2>1. IdleReq.pc = "idle" /\ IdleReq.copy = Nothing
    BY DEF IdleReq
  <2>2. RecordFits(IdleReq)
    BY <2>1, HeldFits DEF RecordFits, Nothing
  <2> QED BY <2>2, HeldFits
<1>1. CASE ReadKey(r)
  <2> DEFINE rec(id) == [req[r] EXCEPT !.unread = @ \ {id}, !.copy[id] = docs[id]]
  <2>1. PICK id \in req[r].unread : Step(r, rec(id))
    BY <1>1 DEF ReadKey
  <2>2. id \in Ids /\ req[r].copy \in [Ids -> Doc]
    BY <1>t DEF AdminReq
  <2>3. /\ rec(id).copy = [req[r].copy EXCEPT ![id] = docs[id]]
        /\ rec(id).pc = req[r].pc
    BY <1>t DEF AdminReq
  <2>4. docs' = docs /\ seq' = seq /\ req[r].pc \in {"lookup", "list"}
    BY <1>1 DEF ReadKey, shared
  <2> HIDE DEF rec
  <2>5. \A i \in Ids : Fits(i, rec(id).copy[i])
    <3>1. \A i \in Ids : rec(id).copy[i] = docs[i] \/ rec(id).copy[i] = req[r].copy[i]
      BY <2>2, <2>3
    <3> QED BY <1>f, <3>1 DEF RecordFits
  <2>6. RecordFits(rec(id))
    BY <2>3, <2>4, <2>5 DEF RecordFits
  <2> QED BY <2>1, <2>4, <2>6, Keeps
<1>2. CASE Listed(r)
  <2> DEFINE keys == {id \in Ids : Selects(r, id)}
             save == [req[r] EXCEPT !.keys = keys, !.pc = "save"]
             remove == [req[r] EXCEPT !.keys = keys, !.pc = "remove"]
             bump == [req[r] EXCEPT !.pc = "bump"]
  <2>1. docs' = docs /\ seq' = seq
    BY <1>2 DEF Listed, shared
  <2>2. Step(r, save) \/ Step(r, remove) \/ Step(r, IdleReq) \/ Step(r, bump)
    <3>1. CASE req[r].op = "save"
      BY <1>2, <3>1 DEF Listed
    <3>2. CASE req[r].op # "save"
      BY <1>2, <3>2 DEF Listed
    <3> QED BY <3>1, <3>2
  <2>3. /\ save.copy = req[r].copy /\ save.pc = "save" /\ save.keys = keys
        /\ remove.copy = req[r].copy /\ remove.pc = "remove"
        /\ bump.copy = req[r].copy /\ bump.pc = "bump"
    BY <1>t DEF AdminReq
  <2>4. \A id \in keys : req[r].copy[id] # NoDoc
    BY DEF Selects
  <2> HIDE DEF keys, save, remove, bump
  <2>5. RecordFits(save) /\ RecordFits(remove) /\ RecordFits(bump)
    BY <1>f, <2>3, <2>4, SameFits DEF RecordFits
  <2> QED BY <1>f, <2>1, <2>2, <2>5, Keeps
<1>3. CASE RemoveKey(r)
  <2> DEFINE bump == [req[r] EXCEPT !.pc = "bump"]
  <2>1. PICK id \in req[r].keys :
          /\ docs' = [docs EXCEPT ![id] = NoDoc]
          /\ Step(r, IF req[r].op = "delete" THEN bump ELSE Done(r, id))
    BY <1>3 DEF RemoveKey
  <2>2. bump.copy = req[r].copy /\ bump.pc = "bump"
    BY <1>t DEF AdminReq
  <2>3. seq' = seq /\ req[r].pc = "remove"
    BY <1>3 DEF RemoveKey
  <2>4. RecordFits(Done(r, id))
    BY <2>3, DoneFits
  <2> HIDE DEF bump
  <2>5. RecordFits(bump)
    BY <1>f, <2>2, SameFits
  <2>6. \A i \in Ids : docs'[i] = docs[i] \/ Fits(i, docs'[i])
    BY <1>t, <1>f, <2>1
  <2>7. Step(r, bump) \/ Step(r, Done(r, id))
    BY <2>1
  <2> QED BY <2>3, <2>4, <2>5, <2>6, <2>7, Keeps
<1>4. CASE SaveKey(r)
  <2>1. PICK id \in req[r].keys :
          /\ docs' = [docs EXCEPT ![id] = [req[r].copy[id] EXCEPT !.persistent = TRUE]]
          /\ Step(r, Done(r, id))
    BY <1>4 DEF SaveKey
  <2>2. seq' = seq /\ req[r].pc = "save" /\ id \in Ids
    BY <1>4, <1>t DEF SaveKey, AdminReq
  <2>3. RecordFits(Done(r, id))
    BY <2>2, DoneFits
  <2>4. /\ req[r].copy[id] \in Doc /\ req[r].copy[id] # NoDoc
        /\ Fits(id, req[r].copy[id])
    BY <1>t, <1>f, <2>1, <2>2 DEF RecordFits, AdminReq
  <2>5. [req[r].copy[id] EXCEPT !.persistent = TRUE].seq = req[r].copy[id].seq
    BY <2>4 DEF Doc
  <2>6. Fits(id, [req[r].copy[id] EXCEPT !.persistent = TRUE])
    BY <2>4, <2>5 DEF Fits
  <2>7. \A i \in Ids : docs'[i] = docs[i] \/ Fits(i, docs'[i])
    BY <1>t, <2>1, <2>2, <2>6
  <2> QED BY <2>1, <2>2, <2>3, <2>7, Keeps
<1>5. CASE NextSeq(r)
  BY <1>5, NextSeqKeeps
<1>6. CASE PutStub(r)
  <2> DEFINE apply(id) == [req[r] EXCEPT !.pc = "apply", !.keys = {}, !.copy[id] = req[r].doc]
             bump == [req[r] EXCEPT !.pc = "bump"]
  <2>1. PICK id \in req[r].keys :
          /\ docs' = [docs EXCEPT ![id] = req[r].doc]
          /\ Step(r, IF req[r].op = "import" THEN apply(id) ELSE bump)
    BY <1>6 DEF PutStub
  <2>2. seq' = seq /\ req[r].pc = "put" /\ id \in Ids /\ req[r].copy \in [Ids -> Doc]
    BY <1>6, <1>t DEF PutStub, AdminReq
  <2>3. /\ apply(id).copy = [req[r].copy EXCEPT ![id] = req[r].doc]
        /\ apply(id).pc = "apply"
        /\ bump.copy = req[r].copy /\ bump.pc = "bump"
    BY <1>t DEF AdminReq
  <2>4. Fits(id, req[r].doc)
    BY <1>f, <2>1, <2>2 DEF RecordFits, Fits
  <2> HIDE DEF apply, bump
  <2>5. \A i \in Ids : docs'[i] = docs[i] \/ Fits(i, docs'[i])
    BY <1>t, <2>1, <2>2, <2>4
  <2>6. \A i \in Ids : Fits(i, apply(id).copy[i])
    <3>1. \A i \in Ids : apply(id).copy[i] = req[r].copy[i] \/ i = id
      BY <2>2, <2>3
    <3>2. apply(id).copy[id] = req[r].doc
      BY <2>2, <2>3
    <3> QED BY <1>f, <2>4, <3>1, <3>2 DEF RecordFits
  <2>7. RecordFits(apply(id)) /\ RecordFits(bump)
    BY <1>f, <2>3, <2>6, SameFits DEF RecordFits
  <2>8. Step(r, apply(id)) \/ Step(r, bump)
    BY <2>1
  <2> QED BY <2>2, <2>5, <2>7, <2>8, Keeps
<1>7. CASE ApplyItem(r)
  <2> DEFINE item == req[r].items[Len(req[r].items)]
             held == req[r].copy[item.id]
             rest == [req[r] EXCEPT !.items = SubSeq(@, 1, Len(@) - 1), !.pc = "apply"]
             doc == StoredStub(item, held.seq)
             put == [rest EXCEPT !.keys = {item.id}, !.doc = doc, !.pc = "put"]
             draw == [rest EXCEPT !.keys = {item.id}, !.doc = doc, !.pc = "seq"]
  <2>1. /\ Step(r, rest) \/ (held # NoDoc /\ Step(r, put)) \/ Step(r, draw)
        /\ docs' = docs /\ seq' = seq
    <3>1. CASE held # NoDoc
      BY <1>7, <3>1 DEF ApplyItem, shared
    <3>2. CASE held = NoDoc
      BY <1>7, <3>2 DEF ApplyItem, shared
    <3> QED BY <3>1, <3>2
  <2>2. req[r].items \in Seq(Item) /\ req[r].items # <<>>
    BY <1>7, <1>t DEF ApplyItem, AdminReq
  <2>3. item \in Item /\ SubSeq(req[r].items, 1, Len(req[r].items) - 1) \in Seq(Item)
    BY <2>2, FrontType
  <2>4. item.id \in Ids
    BY <2>3 DEF Item
  <2>5. rest \in AdminReq /\ rest.copy = req[r].copy /\ rest.pc = "apply"
    BY <1>t, <2>3 DEF AdminReq
  <2>6. doc.seq = held.seq
    BY DEF StoredStub
  <2>7. Fits(item.id, held)
    BY <1>f, <2>4 DEF RecordFits
  <2> HIDE DEF item, held, doc, rest
  <2>8. /\ put.copy = req[r].copy /\ put.pc = "put" /\ put.keys = {item.id}
        /\ put.doc = doc
        /\ draw.copy = req[r].copy /\ draw.pc = "seq" /\ draw.keys = {item.id}
    BY <2>5 DEF AdminReq
  <2> HIDE DEF put, draw
  <2>9. RecordFits(rest) /\ RecordFits(draw)
    BY <1>f, <2>4, <2>5, <2>8, SameFits DEF RecordFits
  <2>10. held # NoDoc => RecordFits(put)
    BY <1>f, <2>6, <2>7, <2>8 DEF RecordFits, Fits
  <2> QED BY <2>1, <2>9, <2>10, Keeps
<1>8. CASE Applied(r)
  <2> DEFINE list == [req[r] EXCEPT !.pc = "list", !.unread = Ids]
             bump == [req[r] EXCEPT !.pc = "bump"]
  <2>1. (Step(r, list) \/ Step(r, bump)) /\ docs' = docs /\ seq' = seq
    BY <1>8 DEF Applied, shared
  <2>2. /\ list.copy = req[r].copy /\ list.pc = "list"
        /\ bump.copy = req[r].copy /\ bump.pc = "bump"
    BY <1>t DEF AdminReq
  <2> HIDE DEF list, bump
  <2>3. RecordFits(list) /\ RecordFits(bump)
    BY <1>f, <2>2, SameFits
  <2> QED BY <2>1, <2>3, Keeps
<1>9. CASE WriteOther(r)
  <2> DEFINE bump == [req[r] EXCEPT !.pc = "bump"]
  <2>1. Step(r, bump) /\ docs' = docs /\ seq' = seq
    BY <1>9 DEF WriteOther
  <2>2. bump.copy = req[r].copy /\ bump.pc = "bump"
    BY <1>t DEF AdminReq
  <2> HIDE DEF bump
  <2> QED BY <1>f, <2>1, <2>2, SameFits, Keeps
<1>10. CASE BumpEpoch(r)
  <2> DEFINE answer == [req[r] EXCEPT !.pc = "answer"]
  <2>1. Step(r, answer) /\ docs' = docs /\ seq' = seq
    BY <1>10 DEF BumpEpoch
  <2>2. answer.copy = req[r].copy /\ answer.pc = "answer"
    BY <1>t DEF AdminReq
  <2> HIDE DEF answer
  <2> QED BY <1>f, <2>1, <2>2, SameFits, Keeps
<1> QED BY <1>1, <1>2, <1>3, <1>4, <1>5, <1>6, <1>7, <1>8, <1>9, <1>10 DEF StoreCall

LEMMA OtherKeeps ==
  ASSUME SeqInv, AdminTypeOK',
         \/ \E r \in Requests : Abandon(r) \/ Answer(r)
         \/ \E id \in Ids : Expire(id)
         \/ UNCHANGED adminVars
  PROVE  SeqInv'
<1>f. RecordFits(IdleReq) /\ \A i \in Ids : Fits(i, NoDoc)
  <2>1. IdleReq.pc = "idle" /\ IdleReq.copy = Nothing
    BY DEF IdleReq
  <2> QED BY <2>1, HeldFits DEF RecordFits, Nothing
<1>1. ASSUME NEW r \in Requests, Abandon(r) \/ Answer(r) PROVE SeqInv'
  <2>1. Step(r, IdleReq) /\ docs' = docs /\ seq' = seq
    BY <1>1 DEF Abandon, Answer, shared
  <2> QED BY <1>f, <2>1, Keeps
<1>2. ASSUME NEW id \in Ids, Expire(id) PROVE SeqInv'
  <2>1. docs' = [docs EXCEPT ![id] = NoDoc] /\ seq' = seq /\ req' = req
    BY <1>2 DEF Expire
  <2>2. docs \in [Ids -> Doc] /\ seq \in Nat
    BY DEF SeqInv, AdminTypeOK
  <2>3. \A i \in Ids : docs'[i] = docs[i] \/ docs'[i] = NoDoc
    BY <2>1, <2>2
  <2>4. \A i \in Ids, s \in Nat : Held(i, s)' => Held(i, s) \/ s = 0
    BY <2>1, <2>3 DEF Held, NoDoc
  <2>5. DrawnInv' /\ OwnerInv'
    BY <2>1, <2>4, NothingNew
  <2>6. DocsInv'
    BY <2>3 DEF SeqInv, DocsInv
  <2>7. ASSUME NEW q \in Requests PROVE RecordFits(req[q])'
    <3>1. RecordFits(req[q]) /\ req'[q] = req[q]
      BY <2>1, HeldFits
    <3>2. \A i \in Ids : Held(i, req[q].copy[i].seq)'
      BY DEF Held
    <3>3. req'[q].pc = "put" => \A i \in req'[q].keys : Held(i, req[q].doc.seq)'
      BY DEF Held
    <3>4. \A i \in Ids : Fits(i, req[q].copy[i])'
      BY <3>1, <3>2 DEF RecordFits, Fits
    <3> QED BY <3>1, <3>3, <3>4 DEF RecordFits
  <2> QED BY <2>5, <2>6, <2>7 DEF SeqInv, RecordsInv
<1>3. CASE UNCHANGED adminVars
  BY <1>3 DEF adminVars, SeqInv, DrawnInv, OwnerInv, DocsInv, RecordsInv,
              RecordFits, Fits, Held
<1> QED BY <1>1, <1>2, <1>3

\* The invariant is inductive.
LEMMA SeqInductive == AdminSpec => []SeqInv
<1>1. SeqInv /\ [AdminNext]_adminVars => SeqInv'
  <2> SUFFICES ASSUME SeqInv, [AdminNext]_adminVars PROVE SeqInv'
    OBVIOUS
  <2>1. AdminTypeOK'
    BY NextType DEF SeqInv
  <2> QED BY <2>1, ArriveKeeps, StoreCallKeeps, OtherKeeps DEF AdminNext, AdminStep
<1> QED BY <1>1, InitSeqInv, PTL DEF AdminSpec, AdminNext

\* No two stubs share an insertion sequence, so selection is a total order, for
\* any number of concurrent admin requests, imports and failures.
THEOREM SequencesDistinct == AdminSpec => []SeqsDistinct
<1>1. SeqInv => SeqsDistinct
  <2> SUFFICES ASSUME SeqInv, NEW i \in Ids, NEW j \in Ids, i # j,
                      docs[i] # NoDoc, docs[j] # NoDoc
               PROVE  docs[i].seq # docs[j].seq
    BY DEF SeqsDistinct
  <2>1. docs[i].seq \in Nat /\ docs[i].seq > 0
    BY DEF SeqInv, DocsInv, AdminTypeOK, Doc
  <2>2. Held(i, docs[i].seq) /\ Held(j, docs[j].seq)
    BY DEF Held
  <2> QED BY <2>1, <2>2 DEF SeqInv, OwnerInv
<1> QED BY <1>1, SeqInductive, PTL

-----------------------------------------------------------------------------
(* An edit or an import leaves a stub where it is in the order.  The        *)
(* sequence a request is about to write was read some calls ago; it is      *)
(* still the stub's because whatever another request does to the stub in    *)
(* the meantime removes it.                                                 *)

\* What a request knows of an id of its own: nothing yet, or the sequence of
\* the stub that is there.
Knows(rec, d, id) ==
  id \in rec.unread \/ d[id] = NoDoc \/ (rec.copy[id] # NoDoc /\ rec.copy[id].seq = d[id].seq)

\* A request's record, where d is the collection.
OrderFits(r, rec, d) ==
  /\ rec.op # "save" /\ rec.pc # "save"
  /\ rec.pc \in {"seq", "put"} => rec.keys \subseteq IdsOf[r]
  /\ rec.pc = "seq" => \A id \in rec.keys : d[id] = NoDoc
  /\ rec.pc = "put" => \A id \in rec.keys : d[id] = NoDoc \/ d[id].seq = rec.doc.seq
  /\ \A i \in 1 .. Len(rec.items) : /\ rec.items[i].id \in IdsOf[r]
                                    /\ Knows(rec, d, rec.items[i].id)
  /\ (rec.items # <<>> /\ rec.pc # "lookup") => rec.unread = {}

\* Only an import has a batch to apply.
BatchFits(rec) == rec.items # <<>> => rec.op = "import"

OrderInv == \A r \in Requests : OrderFits(r, req[r], docs) /\ BatchFits(req[r])

\* Removals by others disturb nothing.
LEMMA RemovalsFit ==
  ASSUME NEW r \in Requests, NEW rec \in AdminReq, NEW d, NEW e, OrderFits(r, rec, d),
         \A id \in IdsOf[r] : e[id] = d[id] \/ e[id] = NoDoc
  PROVE  OrderFits(r, rec, e)
BY DEF OrderFits, Knows

\* A request moves on to a record that fits, and writes no stub but its own.
LEMMA OrderKeeps ==
  ASSUME ClientsApart, AdminTypeOK, OrderInv, NEW r \in Requests, NEW rec, Step(r, rec),
         \A id \in Ids : docs'[id] = docs[id] \/ docs'[id] = NoDoc \/ id \in IdsOf[r],
         OrderFits(r, rec, docs'), BatchFits(rec)
  PROVE  OrderInv'
<1> SUFFICES ASSUME NEW q \in Requests
             PROVE  OrderFits(q, req'[q], docs') /\ BatchFits(req'[q])
  BY DEF OrderInv, BatchFits
<1>t. req \in [Requests -> AdminReq] /\ IdsOf[q] \subseteq Ids
  BY AdminAssumption DEF AdminTypeOK
<1>1. CASE q = r
  BY <1>t, <1>1 DEF Step
<1>2. CASE q # r
  <2>1. req'[q] = req[q] /\ req[q] \in AdminReq
    BY <1>t, <1>2 DEF Step
  <2>2. \A id \in IdsOf[q] : id \in Ids /\ id \notin IdsOf[r]
    BY <1>t, <1>2 DEF ClientsApart
  <2>3. \A id \in IdsOf[q] : docs'[id] = docs[id] \/ docs'[id] = NoDoc
    BY <2>2
  <2> QED BY <2>1, <2>3, RemovalsFit DEF OrderInv
<1> QED BY <1>1, <1>2

LEMMA InitOrder == AdminInit => OrderInv
<1>1. Len(<<>>) = 0
  OBVIOUS
<1> QED BY <1>1 DEF AdminInit, OrderInv, OrderFits, BatchFits, Knows, IdleReq

LEMMA IdleFits == BatchFits(IdleReq) /\ \A r \in Requests : \A d : OrderFits(r, IdleReq, d)
<1>1. Len(<<>>) = 0
  OBVIOUS
<1> QED BY <1>1 DEF OrderFits, BatchFits, Knows, IdleReq

\* A request that begins is no save.
LEMMA BeginOrder ==
  ASSUME ClientsApart, "save" \notin Ops, SeqInv, OrderInv, NEW r \in Requests, NEW op,
         NEW rec \in AdminReq, Begin(r, op, rec), OrderFits(r, rec, docs),
         rec.items = <<>> \/ op = "import"
  PROVE  OrderInv'
<1> DEFINE new == [rec EXCEPT !.op = op, !.start = seq]
<1>1. /\ new.copy = rec.copy /\ new.pc = rec.pc /\ new.keys = rec.keys /\ new.op = op
      /\ new.doc = rec.doc /\ new.items = rec.items /\ new.unread = rec.unread
  BY DEF AdminReq
<1>2. Step(r, new) /\ docs' = docs /\ op \in Ops
  BY DEF Begin, shared
<1> HIDE DEF new
<1>3. op # "save"
  BY <1>2
<1>4. OrderFits(r, new, docs) /\ BatchFits(new)
  BY <1>1, <1>3 DEF OrderFits, BatchFits, Knows
<1>5. \A id \in Ids : docs'[id] = docs[id]
  BY <1>2
<1> QED BY <1>2, <1>4, <1>5, OrderKeeps DEF SeqInv

LEMMA ArriveOrder ==
  ASSUME ClientsApart, "save" \notin Ops, SeqInv, OrderInv, NEW r \in Requests, Arrive(r)
  PROVE  OrderInv'
<1> USE IdleReqType
<1>0. /\ IdleReq.items = <<>> /\ Len(<<>>) = 0 /\ IdleReq.pc = "idle" /\ IdleReq.op = "none"
      /\ IdleReq.unread = {}
  BY DEF IdleReq
<1>d. docs \in [Ids -> Doc]
  BY DEF SeqInv, AdminTypeOK
<1>1. CASE CreateMapping(r)
  <2> DEFINE rec(id, m) == [IdleReq EXCEPT !.pc = "seq", !.keys = {id}, !.doc = StoredStub(m, 0)]
  <2>1. PICK id \in IdsOf[r], m \in Mappings :
          docs[id] = NoDoc /\ Begin(r, "create", rec(id, m))
    BY <1>1 DEF CreateMapping
  <2>2. id \in Ids /\ StoredStub(m, 0) \in Doc
    BY AdminAssumption, StubType
  <2>3. /\ rec(id, m) \in AdminReq /\ rec(id, m).items = <<>> /\ rec(id, m).op = "none"
        /\ rec(id, m).pc = "seq" /\ rec(id, m).keys = {id}
    BY <1>0, <2>2 DEF AdminReq
  <2> HIDE DEF rec
  <2>4. OrderFits(r, rec(id, m), docs)
    BY <1>0, <2>1, <2>3 DEF OrderFits
  <2> QED BY <2>1, <2>3, <2>4, BeginOrder
<1>2. CASE UpdateMapping(r)
  <2> DEFINE rec(id, m) == [IdleReq EXCEPT !.pc = "put", !.keys = {id},
                                           !.doc = StoredStub(m, docs[id].seq)]
  <2>1. PICK id \in IdsOf[r], m \in Mappings : Begin(r, "update", rec(id, m))
    BY <1>2 DEF UpdateMapping
  <2>2. id \in Ids /\ docs[id].seq \in Nat
    BY <1>d, AdminAssumption DEF Doc
  <2>3. StoredStub(m, docs[id].seq) \in Doc /\ StoredStub(m, docs[id].seq).seq = docs[id].seq
    BY <2>2, AdminAssumption, StubType DEF StoredStub
  <2>4. /\ rec(id, m) \in AdminReq /\ rec(id, m).items = <<>> /\ rec(id, m).op = "none"
        /\ rec(id, m).pc = "put" /\ rec(id, m).keys = {id}
        /\ rec(id, m).doc.seq = docs[id].seq
    BY <1>0, <2>2, <2>3 DEF AdminReq
  <2> HIDE DEF rec
  <2>5. OrderFits(r, rec(id, m), docs)
    BY <1>0, <2>4 DEF OrderFits
  <2> QED BY <2>1, <2>4, <2>5, BeginOrder
<1>3. CASE DeleteMapping(r)
  <2> DEFINE rec(id) == [IdleReq EXCEPT !.pc = "remove", !.keys = {id}]
  <2>1. PICK id \in IdsOf[r] : Begin(r, "delete", rec(id))
    BY <1>3 DEF DeleteMapping
  <2>2. /\ rec(id) \in AdminReq /\ rec(id).items = <<>> /\ rec(id).pc = "remove"
        /\ rec(id).op = "none"
    <3>1. id \in Ids
      BY AdminAssumption
    <3> QED BY <3>1, RemovalRec
  <2> HIDE DEF rec
  <2>3. OrderFits(r, rec(id), docs)
    BY <1>0, <2>2 DEF OrderFits
  <2> QED BY <2>1, <2>2, <2>3, BeginOrder
<1>4. CASE BulkRequest(r)
  <2> DEFINE rec == [IdleReq EXCEPT !.pc = "list", !.unread = Ids]
  <2>1. PICK op \in {"reset", "deleteAll", "removeByMetadata", "save"} : Begin(r, op, rec)
    BY <1>4 DEF BulkRequest
  <2>2. rec \in AdminReq /\ rec.items = <<>> /\ rec.pc = "list" /\ rec.op = "none"
    BY <1>0 DEF AdminReq
  <2> HIDE DEF rec
  <2>3. OrderFits(r, rec, docs)
    BY <1>0, <2>2 DEF OrderFits
  <2> QED BY <2>1, <2>2, <2>3, BeginOrder
<1>5. CASE ImportMappings(r)
  <2> DEFINE ids(b) == {b.items[i].id : i \in 1 .. Len(b.items)}
             rec(b) ==
        [IdleReq EXCEPT !.pc = "lookup", !.items = b.items, !.batch = b.items,
                        !.ignore = b.ignore, !.prune = b.prune, !.unread = ids(b)]
  <2>1. PICK b \in Batches : /\ \A i \in 1 .. Len(b.items) : b.items[i].id \in IdsOf[r]
                             /\ Begin(r, "import", rec(b))
    BY <1>5 DEF ImportMappings
  <2>2. b.items \in Seq(Item) /\ b.ignore \in BOOLEAN /\ b.prune \in BOOLEAN
    BY AdminAssumption
  <2>3. ids(b) \in SUBSET Ids /\ \A i \in 1 .. Len(b.items) : b.items[i].id \in ids(b)
    BY <2>1, AdminAssumption
  <2> HIDE DEF ids
  <2>4. /\ rec(b) \in AdminReq /\ rec(b).items = b.items /\ rec(b).pc = "lookup"
        /\ rec(b).op = "none" /\ rec(b).unread = ids(b)
    BY <1>0, <2>2, <2>3 DEF AdminReq
  <2> HIDE DEF rec
  <2>5. OrderFits(r, rec(b), docs)
    BY <2>1, <2>3, <2>4 DEF OrderFits, Knows
  <2> QED BY <2>1, <2>4, <2>5, BeginOrder
<1>6. CASE PutOther(r)
  <2> DEFINE rec(c) == [IdleReq EXCEPT !.pc = "write", !.value = c]
  <2>1. PICK op \in {"file", "settings"}, c \in Contents : Begin(r, op, rec(c))
    BY <1>6 DEF PutOther
  <2>2. rec(c) \in AdminReq /\ rec(c).items = <<>> /\ rec(c).pc = "write" /\ rec(c).op = "none"
    BY <1>0 DEF AdminReq
  <2> HIDE DEF rec
  <2>3. OrderFits(r, rec(c), docs)
    BY <1>0, <2>2 DEF OrderFits
  <2> QED BY <2>1, <2>2, <2>3, BeginOrder
<1> QED BY <1>1, <1>2, <1>3, <1>4, <1>5, <1>6 DEF Arrive

\* A record with the same batch, that writes nothing.
LEMMA SameOrder ==
  ASSUME NEW r \in Requests, NEW old \in AdminReq, NEW rec, NEW d, NEW e, OrderFits(r, old, d),
         rec.copy = old.copy, rec.items = old.items, rec.unread = old.unread,
         rec.op = old.op, rec.pc \in {"remove", "bump", "answer", "list", "write"},
         BatchFits(old), old.pc # "lookup" \/ rec.items = <<>>,
         \A id \in IdsOf[r] : e[id] = d[id] \/ e[id] = NoDoc
  PROVE  OrderFits(r, rec, e) /\ BatchFits(rec)
<1>1. OrderFits(r, old, e)
  BY RemovalsFit
<1>2. \A id : Knows(rec, e, id) <=> Knows(old, e, id)
  BY DEF Knows
<1> QED BY <1>1, <1>2 DEF OrderFits, BatchFits

LEMMA StoreCallOrder ==
  ASSUME ClientsApart, SeqInv, OrderInv, NEW r \in Requests, StoreCall(r)
  PROVE  OrderInv'
<1>t. /\ req \in [Requests -> AdminReq] /\ req[r] \in AdminReq
      /\ docs \in [Ids -> Doc] /\ AdminTypeOK /\ IdsOf[r] \subseteq Ids
  BY AdminAssumption DEF SeqInv, AdminTypeOK
<1>f. OrderFits(r, req[r], docs) /\ BatchFits(req[r]) /\ RecordFits(req[r])
  BY DEF OrderInv, SeqInv, RecordsInv
<1>1. CASE ReadKey(r)
  <2> DEFINE rec(id) == [req[r] EXCEPT !.unread = @ \ {id}, !.copy[id] = docs[id]]
  <2>1. PICK id \in req[r].unread : Step(r, rec(id))
    BY <1>1 DEF ReadKey
  <2>2. id \in Ids /\ req[r].copy \in [Ids -> Doc] /\ docs' = docs
    BY <1>1, <1>t DEF AdminReq, ReadKey, shared
  <2>3. /\ rec(id).copy = [req[r].copy EXCEPT ![id] = docs[id]]
        /\ rec(id).pc = req[r].pc /\ rec(id).op = req[r].op /\ rec(id).keys = req[r].keys
        /\ rec(id).doc = req[r].doc /\ rec(id).items = req[r].items
        /\ rec(id).unread = req[r].unread \ {id}
    BY <1>t DEF AdminReq
  <2> HIDE DEF rec
  <2>4. \A j \in IdsOf[r] : Knows(req[r], docs, j) => Knows(rec(id), docs, j)
    BY <1>t, <2>2, <2>3 DEF Knows
  <2>5. OrderFits(r, rec(id), docs') /\ BatchFits(rec(id))
    BY <1>f, <2>2, <2>3, <2>4 DEF OrderFits, BatchFits
  <2> QED BY <1>t, <2>1, <2>2, <2>5, OrderKeeps
<1>2. CASE Listed(r)
  <2> DEFINE keys == {id \in Ids : Selects(r, id)}
             remove == [req[r] EXCEPT !.keys = keys, !.pc = "remove"]
             bump == [req[r] EXCEPT !.pc = "bump"]
  <2>1. docs' = docs /\ req[r].pc = "list" /\ req[r].op # "save"
    BY <1>2, <1>f DEF Listed, shared, OrderFits
  <2>2. Step(r, remove) \/ Step(r, IdleReq) \/ Step(r, bump)
    BY <1>2, <2>1 DEF Listed
  <2>3. /\ remove.copy = req[r].copy /\ remove.items = req[r].items
        /\ remove.unread = req[r].unread /\ remove.op = req[r].op /\ remove.pc = "remove"
        /\ bump.copy = req[r].copy /\ bump.items = req[r].items
        /\ bump.unread = req[r].unread /\ bump.op = req[r].op /\ bump.pc = "bump"
    BY <1>t DEF AdminReq
  <2> HIDE DEF keys, remove, bump
  <2>4. /\ OrderFits(r, remove, docs') /\ BatchFits(remove)
        /\ OrderFits(r, bump, docs') /\ BatchFits(bump)
        /\ OrderFits(r, IdleReq, docs') /\ BatchFits(IdleReq)
    BY <1>t, <1>f, <2>1, <2>3, SameOrder, IdleFits
  <2>5. \A id \in Ids : docs'[id] = docs[id]
    BY <2>1
  <2> QED BY <1>t, <2>2, <2>4, <2>5, OrderKeeps
<1>3. CASE RemoveKey(r)
  <2> DEFINE bump == [req[r] EXCEPT !.pc = "bump"]
  <2>1. PICK id \in req[r].keys :
          /\ docs' = [docs EXCEPT ![id] = NoDoc]
          /\ Step(r, IF req[r].op = "delete" THEN bump ELSE Done(r, id))
    BY <1>3 DEF RemoveKey
  <2>2. req[r].pc = "remove"
    BY <1>3 DEF RemoveKey
  <2>3. /\ bump.copy = req[r].copy /\ bump.items = req[r].items
        /\ bump.unread = req[r].unread /\ bump.op = req[r].op /\ bump.pc = "bump"
        /\ Done(r, id).copy = req[r].copy /\ Done(r, id).items = req[r].items
        /\ Done(r, id).unread = req[r].unread /\ Done(r, id).op = req[r].op
        /\ Done(r, id).pc \in {"bump", "remove"}
    BY <1>t, <2>2 DEF AdminReq, Done
  <2>4. \A i \in Ids : docs'[i] = docs[i] \/ docs'[i] = NoDoc
    BY <1>t, <2>1
  <2> HIDE DEF bump
  <2>5. /\ OrderFits(r, bump, docs') /\ BatchFits(bump)
        /\ OrderFits(r, Done(r, id), docs') /\ BatchFits(Done(r, id))
    <3>1. \A i \in IdsOf[r] : docs'[i] = docs[i] \/ docs'[i] = NoDoc
      BY <1>t, <2>4
    <3>2. PICK old, done : old = req[r] /\ done = Done(r, id)
      OBVIOUS
    <3>3. OrderFits(r, bump, docs') /\ BatchFits(bump)
      BY <1>t, <1>f, <2>2, <2>3, <3>1, SameOrder
    <3>4. /\ done.copy = old.copy /\ done.items = old.items /\ done.unread = old.unread
          /\ done.op = old.op /\ done.pc \in {"bump", "remove"}
          /\ old \in AdminReq /\ OrderFits(r, old, docs) /\ BatchFits(old) /\ old.pc = "remove"
      BY <1>t, <1>f, <2>2, <2>3, <3>2
    <3>5. OrderFits(r, done, docs') /\ BatchFits(done)
      BY <3>1, <3>4, SameOrder
    <3> QED BY <3>2, <3>3, <3>5
  <2>6. Step(r, bump) \/ Step(r, Done(r, id))
    BY <2>1
  <2> QED BY <1>t, <2>4, <2>5, <2>6, OrderKeeps
<1>4. CASE SaveKey(r)
  BY <1>4, <1>f DEF SaveKey, OrderFits
<1>5. CASE NextSeq(r)
  <2> DEFINE rec == [req[r] EXCEPT !.pc = "put", !.doc.seq = seq + 1]
  <2>1. Step(r, rec) /\ docs' = docs /\ req[r].pc = "seq"
    BY <1>5 DEF NextSeq
  <2>2. /\ rec.copy = req[r].copy /\ rec.pc = "put" /\ rec.op = req[r].op
        /\ rec.keys = req[r].keys /\ rec.items = req[r].items /\ rec.unread = req[r].unread
    BY <1>t DEF AdminReq
  <2> HIDE DEF rec
  <2>3. OrderFits(r, rec, docs') /\ BatchFits(rec)
    BY SMTT(20), <1>f, <2>1, <2>2 DEF OrderFits, BatchFits, Knows
  <2> QED BY <1>t, <2>1, <2>3, OrderKeeps
<1>6. CASE PutStub(r)
  <2> DEFINE apply(id) == [req[r] EXCEPT !.pc = "apply", !.keys = {}, !.copy[id] = req[r].doc]
             bump == [req[r] EXCEPT !.pc = "bump"]
  <2>1. PICK id \in req[r].keys :
          /\ docs' = [docs EXCEPT ![id] = req[r].doc]
          /\ Step(r, IF req[r].op = "import" THEN apply(id) ELSE bump)
    BY <1>6 DEF PutStub
  <2>2. req[r].pc = "put" /\ id \in IdsOf[r] /\ id \in Ids /\ req[r].copy \in [Ids -> Doc]
    BY <1>6, <1>f, <1>t DEF PutStub, AdminReq, OrderFits
  <2>3. req[r].doc # NoDoc
    BY <1>t, <1>f, <2>2 DEF RecordFits, NoDoc
  <2>4. /\ apply(id).copy = [req[r].copy EXCEPT ![id] = req[r].doc] /\ apply(id).pc = "apply"
        /\ apply(id).op = req[r].op /\ apply(id).items = req[r].items
        /\ apply(id).unread = req[r].unread /\ apply(id).keys = {}
        /\ bump.copy = req[r].copy /\ bump.items = req[r].items /\ bump.pc = "bump"
        /\ bump.unread = req[r].unread /\ bump.op = req[r].op /\ bump.keys = req[r].keys
    BY <1>t DEF AdminReq
  <2> HIDE DEF apply, bump
  <2>5. \A i \in Ids : docs'[i] = IF i = id THEN req[r].doc ELSE docs[i]
    BY <1>t, <2>1, <2>2
  <2>6. OrderFits(r, apply(id), docs') /\ BatchFits(apply(id))
    <3>1. \A j \in IdsOf[r] : Knows(req[r], docs, j) => Knows(apply(id), docs', j)
      BY <1>t, <2>2, <2>3, <2>4, <2>5 DEF Knows
    <3> QED BY <1>f, <2>2, <2>4, <3>1 DEF OrderFits, BatchFits
  <2>7. req[r].op # "import" => OrderFits(r, bump, docs') /\ BatchFits(bump)
    <3>1. Len(<<>>) = 0
      OBVIOUS
    <3> QED BY <1>f, <2>2, <2>4, <2>5, <3>1 DEF OrderFits, BatchFits
  <2>8. (Step(r, apply(id)) \/ (req[r].op # "import" /\ Step(r, bump)))
    BY <2>1
  <2>9. \A i \in Ids : docs'[i] = docs[i] \/ i \in IdsOf[r]
    BY <2>2, <2>5
  <2> QED BY <1>t, <2>6, <2>7, <2>8, <2>9, OrderKeeps

<1>7. CASE ApplyItem(r)
  <2> DEFINE item == req[r].items[Len(req[r].items)]
             held == req[r].copy[item.id]
             front == SubSeq(req[r].items, 1, Len(req[r].items) - 1)
             rest == [req[r] EXCEPT !.items = front, !.pc = "apply"]
             doc == StoredStub(item, held.seq)
             put == [rest EXCEPT !.keys = {item.id}, !.doc = doc, !.pc = "put"]
             draw == [rest EXCEPT !.keys = {item.id}, !.doc = doc, !.pc = "seq"]
  <2>1. /\ Step(r, rest) \/ (held # NoDoc /\ Step(r, put)) \/ (held = NoDoc /\ Step(r, draw))
        /\ docs' = docs
    <3>1. CASE held # NoDoc
      BY <1>7, <3>1 DEF ApplyItem, shared
    <3>2. CASE held = NoDoc
      BY <1>7, <3>2 DEF ApplyItem, shared
    <3> QED BY <3>1, <3>2
  <2>2. /\ req[r].items \in Seq(Item) /\ req[r].items # <<>> /\ Len(req[r].items) \in Nat
        /\ Len(req[r].items) >= 1
    <3>1. req[r].items \in Seq(Item)
      BY <1>t DEF AdminReq
    <3>2. req[r].items # <<>>
      BY <1>7 DEF ApplyItem
    <3>3. Len(req[r].items) \in Nat /\ (Len(req[r].items) = 0 => req[r].items = <<>>)
      BY <3>1, EmptySeq, LenProperties
    <3> QED BY <3>1, <3>2, <3>3
  <2>3. front \in Seq(Item)
    BY <2>2, FrontType
  <2>4. /\ Len(front) = Len(req[r].items) - 1
        /\ \A i \in 1 .. Len(front) : front[i] = req[r].items[i]
    BY <2>2
  <2>5. item.id \in IdsOf[r] /\ Knows(req[r], docs, item.id) /\ req[r].unread = {}
    <3>1. OrderFits(r, req[r], docs) /\ Len(req[r].items) \in 1 .. Len(req[r].items)
      BY <1>f, <2>2
    <3>2. item.id \in IdsOf[r] /\ Knows(req[r], docs, item.id)
      BY <3>1 DEF OrderFits
    <3>3. req[r].pc # "lookup" \/ req[r].unread = {}
      BY <1>7 DEF ApplyItem
    <3>4. req[r].unread = {}
      BY <2>2, <3>1, <3>3 DEF OrderFits
    <3> QED BY <3>2, <3>4
  <2>6. doc.seq = held.seq /\ doc \in Doc
    <3>1. item \in Item /\ req[r].copy \in [Ids -> Doc]
      BY <1>t, <2>2, FrontType DEF AdminReq
    <3>2. held.seq \in Nat /\ item.text \in Texts /\ item.persistent \in BOOLEAN
      BY <3>1 DEF Item, Doc
    <3> QED BY <3>2, StubType DEF StoredStub
  <2>7. /\ rest \in AdminReq /\ rest.copy = req[r].copy /\ rest.pc = "apply"
        /\ rest.items = front /\ rest.op = req[r].op /\ rest.unread = req[r].unread
    BY <1>t, <2>3 DEF AdminReq
  <2>8. /\ put.copy = rest.copy /\ put.pc = "put" /\ put.keys = {item.id} /\ put.doc = doc
        /\ put.items = rest.items /\ put.op = rest.op /\ put.unread = rest.unread
        /\ draw.copy = rest.copy /\ draw.pc = "seq" /\ draw.keys = {item.id}
        /\ draw.items = rest.items /\ draw.op = rest.op /\ draw.unread = rest.unread
    BY <2>7 DEF AdminReq
  <2>9. held = req[r].copy[item.id]
    OBVIOUS
  <2> HIDE DEF item, held, doc, rest, put, draw, front
  <2>10. \A id : /\ Knows(rest, docs, id) <=> Knows(req[r], docs, id)
                 /\ Knows(put, docs, id) <=> Knows(req[r], docs, id)
                 /\ Knows(draw, docs, id) <=> Knows(req[r], docs, id)
    BY <2>7, <2>8 DEF Knows
  <2>11. req[r].op = "import" /\ req[r].op # "save"
    BY <1>f, <2>2 DEF BatchFits
  <2>12. \A i \in 1 .. Len(front) : front[i].id \in IdsOf[r] /\ Knows(req[r], docs, front[i].id)
    BY SMTT(20), <1>f, <2>2, <2>4 DEF OrderFits
  <2>13. OrderFits(r, rest, docs') /\ BatchFits(rest)
    BY <2>1, <2>5, <2>7, <2>10, <2>11, <2>12 DEF OrderFits, BatchFits
  <2>14. held # NoDoc => OrderFits(r, put, docs') /\ BatchFits(put)
    <3>1. docs[item.id] = NoDoc \/ docs[item.id].seq = doc.seq
      BY <2>5, <2>6, <2>9 DEF Knows
    <3> QED BY <2>1, <2>5, <2>7, <2>8, <2>10, <2>11, <2>12, <3>1 DEF OrderFits, BatchFits
  <2>15. held = NoDoc => OrderFits(r, draw, docs') /\ BatchFits(draw)
    <3>1. held = NoDoc => docs[item.id] = NoDoc
      BY <2>5, <2>9 DEF Knows
    <3> QED BY <2>1, <2>5, <2>7, <2>8, <2>10, <2>11, <2>12, <3>1 DEF OrderFits, BatchFits
  <2>16. \A i \in Ids : docs'[i] = docs[i]
    BY <2>1
  <2> QED BY <1>t, <2>1, <2>13, <2>14, <2>15, <2>16, OrderKeeps
<1>8. CASE Applied(r)
  <2> DEFINE list == [req[r] EXCEPT !.pc = "list", !.unread = Ids]
             bump == [req[r] EXCEPT !.pc = "bump"]
  <2>1. (Step(r, list) \/ Step(r, bump)) /\ docs' = docs /\ req[r].items = <<>>
    BY <1>8 DEF Applied, shared
  <2>2. /\ list.copy = req[r].copy /\ list.pc = "list" /\ list.items = <<>> /\ list.op = req[r].op
        /\ bump.copy = req[r].copy /\ bump.pc = "bump" /\ bump.items = <<>>
        /\ bump.op = req[r].op
    BY <1>t, <2>1 DEF AdminReq
  <2>3. Len(<<>>) = 0
    OBVIOUS
  <2> HIDE DEF list, bump
  <2>4. /\ OrderFits(r, list, docs') /\ BatchFits(list)
        /\ OrderFits(r, bump, docs') /\ BatchFits(bump)
    BY <1>f, <2>1, <2>2, <2>3 DEF OrderFits, BatchFits
  <2>5. \A i \in Ids : docs'[i] = docs[i]
    BY <2>1
  <2> QED BY <1>t, <2>1, <2>4, <2>5, OrderKeeps
<1>9. CASE WriteOther(r) \/ BumpEpoch(r)
  <2> DEFINE bump == [req[r] EXCEPT !.pc = "bump"]
             answer == [req[r] EXCEPT !.pc = "answer"]
  <2>1. /\ Step(r, bump) \/ Step(r, answer)
        /\ docs' = docs /\ req[r].pc \in {"write", "bump"}
    BY <1>9 DEF WriteOther, BumpEpoch
  <2>2. /\ bump.copy = req[r].copy /\ bump.items = req[r].items /\ bump.pc = "bump"
        /\ bump.unread = req[r].unread /\ bump.op = req[r].op
        /\ answer.copy = req[r].copy /\ answer.items = req[r].items /\ answer.pc = "answer"
        /\ answer.unread = req[r].unread /\ answer.op = req[r].op
    BY <1>t DEF AdminReq
  <2> HIDE DEF bump, answer
  <2>3. \A i \in Ids : docs'[i] = docs[i]
    BY <2>1
  <2>4. /\ OrderFits(r, bump, docs') /\ BatchFits(bump)
        /\ OrderFits(r, answer, docs') /\ BatchFits(answer)
    BY <1>t, <1>f, <2>1, <2>2, SameOrder
  <2> QED BY <1>t, <2>1, <2>3, <2>4, OrderKeeps
<1> QED BY <1>1, <1>2, <1>3, <1>4, <1>5, <1>6, <1>7, <1>8, <1>9 DEF StoreCall

LEMMA OtherOrder ==
  ASSUME ClientsApart, SeqInv, OrderInv,
         \/ \E r \in Requests : Abandon(r) \/ Answer(r)
         \/ \E id \in Ids : Expire(id)
         \/ UNCHANGED adminVars
  PROVE  OrderInv'
<1>1. ASSUME NEW r \in Requests, Abandon(r) \/ Answer(r) PROVE OrderInv'
  <2>1. Step(r, IdleReq) /\ docs' = docs
    BY <1>1 DEF Abandon, Answer, shared
  <2>2. \A i \in Ids : docs'[i] = docs[i]
    BY <2>1
  <2> QED BY <2>1, <2>2, IdleFits, OrderKeeps DEF SeqInv
<1>2. ASSUME NEW id \in Ids, Expire(id) PROVE OrderInv'
  <2>1. /\ req' = req /\ docs \in [Ids -> Doc]
        /\ \A r \in Requests : req[r] \in AdminReq /\ IdsOf[r] \subseteq Ids
    BY <1>2, AdminAssumption DEF Expire, SeqInv, AdminTypeOK
  <2>2. \A i \in Ids : docs'[i] = docs[i] \/ docs'[i] = NoDoc
    BY <1>2, <2>1 DEF Expire
  <2>3. ASSUME NEW r \in Requests PROVE OrderFits(r, req'[r], docs') /\ BatchFits(req'[r])
    <3>1. \A i \in IdsOf[r] : docs'[i] = docs[i] \/ docs'[i] = NoDoc
      BY <2>1, <2>2
    <3> QED BY <2>1, <3>1, RemovalsFit DEF OrderInv
  <2> QED BY <2>3 DEF OrderInv, BatchFits
<1>3. CASE UNCHANGED adminVars
  BY SMTT(20), <1>3 DEF adminVars, OrderInv, OrderFits, BatchFits, Knows
<1> QED BY <1>1, <1>2, <1>3

LEMMA OrderInductive ==
  ASSUME ClientsApart, "save" \notin Ops
  PROVE  AdminSpec => [](SeqInv /\ OrderInv)
<1>1. AdminInit => SeqInv /\ OrderInv
  BY InitSeqInv, InitOrder
<1>2. SeqInv /\ OrderInv /\ [AdminNext]_adminVars => SeqInv' /\ OrderInv'
  <2> SUFFICES ASSUME SeqInv, OrderInv, [AdminNext]_adminVars PROVE SeqInv' /\ OrderInv'
    OBVIOUS
  <2>1. SeqInv'
    BY NextType, ArriveKeeps, StoreCallKeeps, OtherKeeps DEF AdminNext, AdminStep, SeqInv
  <2>2. OrderInv'
    BY ArriveOrder, StoreCallOrder, OtherOrder DEF AdminNext, AdminStep
  <2> QED BY <2>1, <2>2
<1> QED BY <1>1, <1>2, PTL DEF AdminSpec, AdminNext

\* An edit or an import never changes which of two stubs a request selects
\* (updateMapping, importMappings), if clients keep to their own ids and none
\* puts back by a save what another removed; removals of any kind, expiry and
\* failures may come in between.
THEOREM EditsKeepPrecedence ==
  ASSUME ClientsApart, "save" \notin Ops
  PROVE  AdminSpec => PrecedenceKept
<1> DEFINE Kept == \A id \in Ids :
                     (docs[id] # NoDoc /\ docs'[id] # NoDoc) => docs'[id].seq = docs[id].seq
<1>1. SeqInv /\ OrderInv /\ [AdminNext]_adminVars => [Kept]_adminVars
  <2> SUFFICES ASSUME SeqInv, OrderInv, AdminNext, NEW id \in Ids,
                      docs[id] # NoDoc, docs'[id] # NoDoc
               PROVE  docs'[id].seq = docs[id].seq
    OBVIOUS
  <2>t. docs \in [Ids -> Doc]
    BY DEF SeqInv, AdminTypeOK
  <2>1. CASE docs' = docs
    BY <2>1
  <2>2. ASSUME NEW r \in Requests, RemoveKey(r) PROVE docs'[id] = docs[id]
    <3>1. PICK k \in req[r].keys : docs' = [docs EXCEPT ![k] = NoDoc]
      BY <2>2 DEF RemoveKey
    <3> QED BY <2>t, <3>1
  <2>3. ASSUME NEW r \in Requests, PutStub(r) PROVE docs'[id].seq = docs[id].seq
    <3>1. PICK k \in req[r].keys : docs' = [docs EXCEPT ![k] = req[r].doc]
      BY <2>3 DEF PutStub
    <3>2. req[r].pc = "put" /\ OrderFits(r, req[r], docs)
      BY <2>3 DEF PutStub, OrderInv
    <3> QED BY <2>t, <3>1, <3>2 DEF OrderFits
  <2>4. ASSUME NEW r \in Requests, SaveKey(r) PROVE FALSE
    BY <2>4 DEF SaveKey, OrderInv, OrderFits
  <2>5. ASSUME NEW k \in Ids, Expire(k) PROVE docs'[id] = docs[id]
    BY <2>5, <2>t DEF Expire
  <2>6. ASSUME NEW r \in Requests, Arrive(r) PROVE docs' = docs
    BY <2>6 DEF Arrive, Begin, CreateMapping, UpdateMapping, DeleteMapping, BulkRequest,
                ImportMappings, PutOther, shared
  <2>7. ASSUME NEW r \in Requests, StoreCall(r)
        PROVE  docs' = docs \/ RemoveKey(r) \/ PutStub(r) \/ SaveKey(r)
    BY <2>7 DEF StoreCall, ReadKey, Listed, NextSeq, ApplyItem, Applied, WriteOther,
                BumpEpoch, shared
  <2>8. ASSUME NEW r \in Requests, Answer(r) \/ Abandon(r) PROVE docs' = docs
    BY <2>8 DEF Answer, Abandon, shared
  <2> QED BY <2>1, <2>2, <2>3, <2>4, <2>5, <2>6, <2>7, <2>8 DEF AdminNext, AdminStep
<1> QED BY <1>1, OrderInductive, PTL DEF AdminSpec, AdminNext, PrecedenceKept

-----------------------------------------------------------------------------
(* What a step of a request does to the store and to its own record.        *)

SpliceOps == {"create", "update", "delete"}

\* What a request that ends in a splice puts into the snapshot.
Target(rec) == IF rec.op = "delete" THEN NoDoc ELSE rec.doc

\* Such a request is about one stub of its client.
KeyFits(r, rec) ==
  /\ rec.op \in Ops \cup {"none"}
  /\ rec.op \in SpliceOps => \E id \in IdsOf[r] : rec.keys = {id}
  /\ rec.op \in {"create", "update"} => rec.pc \in {"seq", "put", "bump", "answer"}
  /\ rec.op = "delete" => rec.pc \in {"remove", "bump", "answer"}
  /\ rec.pc \in {"lookup", "apply"} => rec.op = "import"

\* Then a request is about stubs of its own client only.
OwnFits(r, rec) ==
  /\ rec.pc \notin {"list", "save"} /\ ~rec.prune
  /\ rec.pc = "remove" => rec.op = "delete"
  /\ rec.pc \in {"seq", "put"} => rec.keys \subseteq IdsOf[r]
  /\ \A i \in 1 .. Len(rec.items) : rec.items[i].id \in IdsOf[r]

\* The request may have changed something it has not announced.
Pending(rec) ==
  /\ rec.pc \notin {"idle", "answer"}
  /\ ~(rec.pc = "list" /\ rec.op = "removeByMetadata")

\* What a step of request r does.
Effect(r) ==
  /\ \A q \in Requests : q # r => req'[q] = req[q]
  /\ KeyFits(r, req'[r]) /\ (OnlyOwn => OwnFits(r, req'[r]))
  /\ (epoch' = epoch /\ (unsignalled => unsignalled')) \/ epoch' = epoch + 1
  /\ epoch' # epoch \/ unsignalled' \/ (Pending(req[r]) => Pending(req'[r]))
  /\ (docs' = docs /\ settings' = settings /\ file' = file) \/ Pending(req'[r])
  /\ file' = file \/ (req[r].op = "file" /\ req[r].pc = "write")
  /\ OnlyOwn => \A id \in Ids : docs'[id] = docs[id] \/ id \in IdsOf[r]
  /\ (req'[r].pc \in {"bump", "answer"} /\ req'[r].op \in SpliceOps) =>
       \/ /\ req[r].pc \in {"bump", "answer"} /\ req[r].op = req'[r].op
          /\ req[r].keys = req'[r].keys /\ req[r].doc = req'[r].doc /\ docs' = docs
       \/ \A id \in req'[r].keys : docs'[id] = Target(req'[r])

LEMMA StepIs ==
  ASSUME req \in [Requests -> AdminReq], NEW r \in Requests, NEW rec, Step(r, rec)
  PROVE  req'[r] = rec /\ \A q \in Requests : q # r => req'[q] = req[q]
BY DEF Step

LEMMA IdleReqFits ==
  /\ IdleReq.pc = "idle" /\ IdleReq.op = "none" /\ ~Pending(IdleReq)
  /\ \A r \in Requests : KeyFits(r, IdleReq) /\ OwnFits(r, IdleReq)
<1>1. Len(<<>>) = 0
  OBVIOUS
<1> QED BY <1>1 DEF IdleReq, Pending, KeyFits, OwnFits, SpliceOps

\* A request that arrives changes nothing yet.
LEMMA BeginEffect ==
  ASSUME AdminTypeOK, NEW r \in Requests, NEW op, NEW rec \in AdminReq, Begin(r, op, rec),
         rec.pc \notin {"bump", "answer"},
         op \in SpliceOps => \E id \in IdsOf[r] : rec.keys = {id},
         op \in {"create", "update"} => rec.pc \in {"seq", "put"},
         op = "delete" => rec.pc = "remove",
         rec.pc \in {"lookup", "apply"} => op = "import",
         OnlyOwn => OwnFits(r, rec) /\ (rec.pc = "remove" => op = "delete")
  PROVE  Effect(r)
<1> DEFINE new == [rec EXCEPT !.op = op, !.start = seq]
<1>1. /\ new.pc = rec.pc /\ new.keys = rec.keys /\ new.op = op /\ new.doc = rec.doc
      /\ new.items = rec.items /\ new.prune = rec.prune
  BY DEF AdminReq
<1>2. /\ Step(r, new) /\ docs' = docs /\ settings' = settings /\ file' = file
      /\ epoch' = epoch /\ unsignalled' = unsignalled /\ op \in Ops /\ req[r].pc = "idle"
  BY DEF Begin, shared
<1> HIDE DEF new
<1>3. req'[r] = new /\ \A q \in Requests : q # r => req'[q] = req[q]
  BY <1>2, StepIs DEF AdminTypeOK
<1>4. KeyFits(r, new) /\ (OnlyOwn => OwnFits(r, new))
  BY <1>1, <1>2 DEF KeyFits, OwnFits
<1>5. ~Pending(req[r])
  BY <1>2 DEF Pending
<1> QED BY <1>1, <1>2, <1>3, <1>4, <1>5 DEF Effect

LEMMA ArriveEffect ==
  ASSUME AdminTypeOK, NEW r \in Requests, Arrive(r)
  PROVE  Effect(r)
<1> USE IdleReqType
<1>0. /\ IdleReq.items = <<>> /\ Len(<<>>) = 0 /\ ~IdleReq.prune
  BY DEF IdleReq
<1>d. docs \in [Ids -> Doc]
  BY DEF AdminTypeOK
<1>1. CASE CreateMapping(r)
  <2> DEFINE rec(id, m) == [IdleReq EXCEPT !.pc = "seq", !.keys = {id}, !.doc = StoredStub(m, 0)]
  <2>1. PICK id \in IdsOf[r], m \in Mappings : Begin(r, "create", rec(id, m))
    BY <1>1 DEF CreateMapping
  <2>2. id \in Ids /\ StoredStub(m, 0) \in Doc
    BY AdminAssumption, StubType
  <2>3. /\ rec(id, m) \in AdminReq /\ rec(id, m).items = <<>> /\ rec(id, m).pc = "seq"
        /\ rec(id, m).keys = {id} /\ ~rec(id, m).prune
    BY <1>0, <2>2 DEF AdminReq
  <2> HIDE DEF rec
  <2>4. OwnFits(r, rec(id, m))
    BY <1>0, <2>3 DEF OwnFits
  <2> QED BY <2>1, <2>3, <2>4, BeginEffect DEF SpliceOps
<1>2. CASE UpdateMapping(r)
  <2> DEFINE rec(id, m) == [IdleReq EXCEPT !.pc = "put", !.keys = {id},
                                           !.doc = StoredStub(m, docs[id].seq)]
  <2>1. PICK id \in IdsOf[r], m \in Mappings : Begin(r, "update", rec(id, m))
    BY <1>2 DEF UpdateMapping
  <2>2. id \in Ids /\ docs[id].seq \in Nat
    BY <1>d, AdminAssumption DEF Doc
  <2>3. StoredStub(m, docs[id].seq) \in Doc
    BY <2>2, AdminAssumption, StubType
  <2>4. /\ rec(id, m) \in AdminReq /\ rec(id, m).items = <<>> /\ rec(id, m).pc = "put"
        /\ rec(id, m).keys = {id} /\ ~rec(id, m).prune
    BY <1>0, <2>2, <2>3 DEF AdminReq
  <2> HIDE DEF rec
  <2>5. OwnFits(r, rec(id, m))
    BY <1>0, <2>4 DEF OwnFits
  <2> QED BY <2>1, <2>4, <2>5, BeginEffect DEF SpliceOps
<1>3. CASE DeleteMapping(r)
  <2> DEFINE rec(id) == [IdleReq EXCEPT !.pc = "remove", !.keys = {id}]
  <2>1. PICK id \in IdsOf[r] : Begin(r, "delete", rec(id))
    BY <1>3 DEF DeleteMapping
  <2>2. /\ rec(id) \in AdminReq /\ rec(id).items = <<>> /\ rec(id).pc = "remove"
        /\ rec(id).keys = {id} /\ ~rec(id).prune
    <3>1. id \in Ids
      BY AdminAssumption
    <3> QED BY <3>1, RemovalRec
  <2> HIDE DEF rec
  <2> DEFINE new == [rec(id) EXCEPT !.op = "delete", !.start = seq]
  <2>3. /\ new.pc = "remove" /\ new.keys = {id} /\ new.op = "delete"
        /\ new.items = <<>> /\ ~new.prune
    BY <2>2 DEF AdminReq
  <2>4. /\ Step(r, new) /\ docs' = docs /\ settings' = settings /\ file' = file
        /\ epoch' = epoch /\ unsignalled' = unsignalled /\ "delete" \in Ops /\ req[r].pc = "idle"
    BY <2>1 DEF Begin, shared
  <2> HIDE DEF new
  <2>5. req'[r] = new /\ \A q \in Requests : q # r => req'[q] = req[q]
    BY <2>4, StepIs DEF AdminTypeOK
  <2>6. KeyFits(r, new) /\ OwnFits(r, new) /\ ~Pending(req[r])
    BY <1>0, <2>3, <2>4 DEF KeyFits, OwnFits, Pending
  <2> QED BY <2>3, <2>4, <2>5, <2>6 DEF Effect
<1>4. CASE BulkRequest(r)
  <2> DEFINE rec == [IdleReq EXCEPT !.pc = "list", !.unread = Ids]
  <2>1. PICK op \in {"reset", "deleteAll", "removeByMetadata", "save"} : Begin(r, op, rec)
    BY <1>4 DEF BulkRequest
  <2>2. rec \in AdminReq /\ rec.pc = "list"
    BY <1>0 DEF AdminReq
  <2> HIDE DEF rec
  <2>3. ~OnlyOwn
    BY <2>1 DEF OnlyOwn, Begin
  <2> QED BY <2>1, <2>2, <2>3, BeginEffect DEF SpliceOps
<1>5. CASE ImportMappings(r)
  <2> DEFINE ids(b) == {b.items[i].id : i \in 1 .. Len(b.items)}
             rec(b) ==
        [IdleReq EXCEPT !.pc = "lookup", !.items = b.items, !.batch = b.items,
                        !.ignore = b.ignore, !.prune = b.prune, !.unread = ids(b)]
  <2>1. PICK b \in Batches : /\ \A i \in 1 .. Len(b.items) : b.items[i].id \in IdsOf[r]
                             /\ Begin(r, "import", rec(b))
    BY <1>5 DEF ImportMappings
  <2>2. b.items \in Seq(Item) /\ b.ignore \in BOOLEAN /\ b.prune \in BOOLEAN
    BY AdminAssumption
  <2>3. ids(b) \in SUBSET Ids
    BY <2>1, AdminAssumption
  <2> HIDE DEF ids
  <2>4. /\ rec(b) \in AdminReq /\ rec(b).items = b.items /\ rec(b).pc = "lookup"
        /\ rec(b).prune = b.prune
    BY <1>0, <2>2, <2>3 DEF AdminReq
  <2> HIDE DEF rec
  <2>5. OnlyOwn => OwnFits(r, rec(b))
    BY <2>1, <2>4 DEF OnlyOwn, OwnFits
  <2> QED BY <2>1, <2>4, <2>5, BeginEffect DEF SpliceOps
<1>6. CASE PutOther(r)
  <2> DEFINE rec(c) == [IdleReq EXCEPT !.pc = "write", !.value = c]
  <2>1. PICK op \in {"file", "settings"}, c \in Contents : Begin(r, op, rec(c))
    BY <1>6 DEF PutOther
  <2>2. rec(c) \in AdminReq /\ rec(c).items = <<>> /\ rec(c).pc = "write" /\ ~rec(c).prune
    BY <1>0 DEF AdminReq
  <2> HIDE DEF rec
  <2>3. OwnFits(r, rec(c))
    BY <1>0, <2>2 DEF OwnFits
  <2> QED BY <2>1, <2>2, <2>3, BeginEffect DEF SpliceOps
<1> QED BY <1>1, <1>2, <1>3, <1>4, <1>5, <1>6 DEF Arrive

\* The calls that change no stub, no settings and no file: the request moves to a
\* record that fits.
LEMMA QuietEffect ==
  ASSUME AdminTypeOK, NEW r \in Requests, NEW rec, Step(r, rec), UNCHANGED <<docs, settings, file>>,
         KeyFits(r, rec), OnlyOwn => OwnFits(r, rec),
         (epoch' = epoch /\ (unsignalled => unsignalled')) \/ epoch' = epoch + 1,
         epoch' # epoch \/ unsignalled' \/ (Pending(req[r]) => Pending(rec)),
         (rec.pc \in {"bump", "answer"} /\ rec.op \in SpliceOps) =>
           /\ req[r].pc \in {"bump", "answer"} /\ req[r].op = rec.op
           /\ req[r].keys = rec.keys /\ req[r].doc = rec.doc
  PROVE  Effect(r)
<1>1. req'[r] = rec /\ \A q \in Requests : q # r => req'[q] = req[q]
  BY StepIs DEF AdminTypeOK
<1> QED BY <1>1 DEF Effect

\* A record that differs in its place only.
LEMMA MoveFits ==
  ASSUME NEW r \in Requests, NEW old, NEW rec, KeyFits(r, old), OnlyOwn => OwnFits(r, old),
         rec.op = old.op, rec.keys = old.keys, rec.items = old.items, rec.prune = old.prune,
         rec.pc \in {"bump", "answer"}
  PROVE  KeyFits(r, rec) /\ (OnlyOwn => OwnFits(r, rec))
BY DEF KeyFits, OwnFits, SpliceOps

LEMMA StoreCallEffect ==
  ASSUME AdminTypeOK, NEW r \in Requests, StoreCall(r), KeyFits(r, req[r]),
         OnlyOwn => OwnFits(r, req[r])
  PROVE  Effect(r)
<1>t. /\ req \in [Requests -> AdminReq] /\ req[r] \in AdminReq
      /\ docs \in [Ids -> Doc] /\ epoch \in Nat /\ IdsOf[r] \subseteq Ids
  BY AdminAssumption DEF AdminTypeOK
<1>1. CASE ReadKey(r)
  <2> DEFINE rec(id) == [req[r] EXCEPT !.unread = @ \ {id}, !.copy[id] = docs[id]]
  <2>1. PICK id \in req[r].unread : Step(r, rec(id))
    BY <1>1 DEF ReadKey
  <2>2. /\ UNCHANGED <<docs, settings, file>> /\ epoch' = epoch /\ unsignalled' = unsignalled
        /\ req[r].pc \in {"lookup", "list"}
    BY <1>1 DEF ReadKey, shared
  <2>3. /\ rec(id).pc = req[r].pc /\ rec(id).op = req[r].op /\ rec(id).keys = req[r].keys
        /\ rec(id).items = req[r].items /\ rec(id).prune = req[r].prune
    BY <1>t DEF AdminReq
  <2> HIDE DEF rec
  <2>4. KeyFits(r, rec(id)) /\ (OnlyOwn => OwnFits(r, rec(id)))
    BY <2>3 DEF KeyFits, OwnFits
  <2>5. Pending(req[r]) => Pending(rec(id))
    BY <2>3 DEF Pending
  <2> QED BY <2>1, <2>2, <2>3, <2>4, <2>5, QuietEffect
<1>2. CASE Listed(r)
  <2> DEFINE keys == {id \in Ids : Selects(r, id)}
             next(pc) == [req[r] EXCEPT !.keys = keys, !.pc = pc]
             bump == [req[r] EXCEPT !.pc = "bump"]
  <2>1. /\ UNCHANGED <<docs, settings, file>> /\ epoch' = epoch /\ unsignalled' = unsignalled
        /\ req[r].pc = "list"
    BY <1>2 DEF Listed, shared
  <2>2. \/ Step(r, next("save")) \/ Step(r, next("remove"))
        \/ (req[r].op = "removeByMetadata" /\ Step(r, IdleReq)) \/ Step(r, bump)
    BY <1>2 DEF Listed
  <2>3. ~OnlyOwn /\ req[r].op \notin SpliceOps
    BY <2>1 DEF OwnFits, KeyFits, SpliceOps
  <2>4. /\ next("save").op = req[r].op /\ next("save").pc = "save"
        /\ next("remove").op = req[r].op /\ next("remove").pc = "remove"
        /\ bump.op = req[r].op /\ bump.pc = "bump"
    BY <1>t DEF AdminReq
  <2> HIDE DEF next, bump, keys
  <2>5. KeyFits(r, next("save")) /\ KeyFits(r, next("remove")) /\ KeyFits(r, bump)
    BY <2>3, <2>4 DEF KeyFits, SpliceOps
  <2>6. Pending(next("save")) /\ Pending(next("remove")) /\ Pending(bump)
    BY <2>4 DEF Pending
  <2>7. req[r].op = "removeByMetadata" => ~Pending(req[r])
    BY <2>1 DEF Pending
  <2>8. Step(r, next("save")) \/ Step(r, next("remove")) \/ Step(r, bump) => Effect(r)
    BY <2>1, <2>3, <2>4, <2>5, <2>6, QuietEffect
  <2>9. Step(r, IdleReq) /\ req[r].op = "removeByMetadata" => Effect(r)
    BY <2>1, <2>3, <2>7, IdleReqFits, QuietEffect
  <2> QED BY <2>2, <2>8, <2>9
<1>3. CASE RemoveKey(r)
  <2> DEFINE bump == [req[r] EXCEPT !.pc = "bump"]
  <2>1. PICK id \in req[r].keys :
          /\ docs' = [docs EXCEPT ![id] = NoDoc]
          /\ Step(r, IF req[r].op = "delete" THEN bump ELSE Done(r, id))
    BY <1>3 DEF RemoveKey
  <2>2. /\ settings' = settings /\ file' = file /\ epoch' = epoch
        /\ unsignalled' = unsignalled /\ req[r].pc = "remove"
    BY <1>3 DEF RemoveKey
  <2>3. id \in Ids
    BY <1>t DEF AdminReq
  <2>4. \A i \in Ids : docs'[i] = IF i = id THEN NoDoc ELSE docs[i]
    BY <1>t, <2>1
  <2>5. CASE req[r].op = "delete"
    <3>1. Step(r, bump)
      BY <2>1, <2>5
    <3>2. /\ bump.pc = "bump" /\ bump.op = "delete" /\ bump.keys = req[r].keys
          /\ bump.items = req[r].items /\ bump.prune = req[r].prune
      BY <1>t, <2>5 DEF AdminReq
    <3> HIDE DEF bump
    <3>3. KeyFits(r, bump) /\ (OnlyOwn => OwnFits(r, bump)) /\ Pending(bump)
      BY <2>5, <3>2, MoveFits DEF Pending
    <3>4. req[r].keys = {id} /\ id \in IdsOf[r] /\ Target(bump) = NoDoc
      BY <2>5, <3>2 DEF KeyFits, SpliceOps, Target
    <3>5. \A i \in bump.keys : docs'[i] = Target(bump)
      BY <2>3, <2>4, <3>2, <3>4
    <3>6. \A i \in Ids : docs'[i] = docs[i] \/ i \in IdsOf[r]
      BY <2>4, <3>4
    <3>7. req'[r] = bump /\ \A q \in Requests : q # r => req'[q] = req[q]
      BY <1>t, <3>1, StepIs
    <3> QED BY <2>2, <3>3, <3>5, <3>6, <3>7 DEF Effect
  <2>6. CASE req[r].op # "delete"
    <3>1. Step(r, Done(r, id))
      BY <2>1, <2>6
    <3>2. Done(r, id).op = req[r].op /\ Done(r, id).pc \in {"remove", "bump"}
      BY <1>t, <2>2 DEF AdminReq, Done
    <3>3. ~OnlyOwn /\ req[r].op \notin SpliceOps
      BY <2>2, <2>6 DEF OwnFits, KeyFits, SpliceOps
    <3>4. KeyFits(r, Done(r, id)) /\ Pending(Done(r, id))
      BY <3>2, <3>3 DEF KeyFits, SpliceOps, Pending
    <3>5. req'[r] = Done(r, id) /\ \A q \in Requests : q # r => req'[q] = req[q]
      BY <1>t, <3>1, StepIs
    <3>6. req'[r].op \notin SpliceOps
      BY <3>2, <3>3, <3>5
    <3> QED BY <2>2, <3>3, <3>4, <3>5, <3>6 DEF Effect
  <2> QED BY <2>5, <2>6
<1>4. CASE SaveKey(r)
  <2>1. PICK id \in req[r].keys : Step(r, Done(r, id))
    BY <1>4 DEF SaveKey
  <2>2. /\ settings' = settings /\ file' = file /\ epoch' = epoch
        /\ unsignalled' = unsignalled /\ req[r].pc = "save"
    BY <1>4 DEF SaveKey
  <2>3. Done(r, id).op = req[r].op /\ Done(r, id).pc \in {"save", "bump"}
    BY <1>t, <2>2 DEF AdminReq, Done
  <2>4. ~OnlyOwn /\ req[r].op \notin SpliceOps
    BY <2>2 DEF OwnFits, KeyFits, SpliceOps
  <2>5. KeyFits(r, Done(r, id)) /\ Pending(Done(r, id))
    BY <2>3, <2>4 DEF KeyFits, SpliceOps, Pending
  <2>6. req'[r] = Done(r, id) /\ \A q \in Requests : q # r => req'[q] = req[q]
    BY <1>t, <2>1, StepIs
  <2>7. req'[r].op \notin SpliceOps
    BY <2>3, <2>4, <2>6
  <2> QED BY <2>2, <2>4, <2>5, <2>6, <2>7 DEF Effect
<1>5. CASE NextSeq(r)
  <2> DEFINE rec == [req[r] EXCEPT !.pc = "put", !.doc.seq = seq + 1]
  <2>1. /\ Step(r, rec) /\ UNCHANGED <<docs, settings, file>> /\ epoch' = epoch
        /\ unsignalled' = unsignalled /\ req[r].pc = "seq"
    BY <1>5 DEF NextSeq
  <2>2. /\ rec.pc = "put" /\ rec.op = req[r].op /\ rec.keys = req[r].keys
        /\ rec.items = req[r].items /\ rec.prune = req[r].prune
    BY <1>t DEF AdminReq
  <2> HIDE DEF rec
  <2>3. KeyFits(r, rec) /\ (OnlyOwn => OwnFits(r, rec)) /\ Pending(rec)
    BY <2>1, <2>2 DEF KeyFits, OwnFits, Pending
  <2> QED BY <1>t, <2>1, <2>2, <2>3, QuietEffect
<1>6. CASE PutStub(r)
  <2> DEFINE apply(id) == [req[r] EXCEPT !.pc = "apply", !.keys = {}, !.copy[id] = req[r].doc]
             bump == [req[r] EXCEPT !.pc = "bump"]
  <2>1. PICK id \in req[r].keys :
          /\ docs' = [docs EXCEPT ![id] = req[r].doc]
          /\ Step(r, IF req[r].op = "import" THEN apply(id) ELSE bump)
    BY <1>6 DEF PutStub
  <2>2. /\ settings' = settings /\ file' = file /\ epoch' = epoch
        /\ unsignalled' = unsignalled /\ req[r].pc = "put" /\ id \in Ids
    BY <1>6, <1>t DEF PutStub, AdminReq
  <2>3. \A i \in Ids : docs'[i] = IF i = id THEN req[r].doc ELSE docs[i]
    BY <1>t, <2>1
  <2>4. OnlyOwn => \A i \in Ids : docs'[i] = docs[i] \/ i \in IdsOf[r]
    BY <2>2, <2>3 DEF OwnFits
  <2>5. /\ apply(id).pc = "apply" /\ apply(id).op = req[r].op /\ apply(id).items = req[r].items
        /\ apply(id).prune = req[r].prune
        /\ bump.pc = "bump" /\ bump.op = req[r].op /\ bump.keys = req[r].keys
        /\ bump.items = req[r].items /\ bump.prune = req[r].prune /\ bump.doc = req[r].doc
    BY <1>t DEF AdminReq
  <2> HIDE DEF apply, bump
  <2>6. CASE req[r].op = "import"
    <3>1. req'[r] = apply(id) /\ \A q \in Requests : q # r => req'[q] = req[q]
      BY <1>t, <2>1, <2>6, StepIs
    <3>2. KeyFits(r, apply(id)) /\ (OnlyOwn => OwnFits(r, apply(id))) /\ Pending(apply(id))
      BY <2>5, <2>6 DEF KeyFits, OwnFits, Pending, SpliceOps
    <3> QED BY <2>2, <2>4, <2>5, <3>1, <3>2 DEF Effect
  <2>7. CASE req[r].op # "import"
    <3>1. req'[r] = bump /\ \A q \in Requests : q # r => req'[q] = req[q]
      BY <1>t, <2>1, <2>7, StepIs
    <3>2. KeyFits(r, bump) /\ (OnlyOwn => OwnFits(r, bump)) /\ Pending(bump)
      BY <2>5, MoveFits DEF Pending
    <3>3. req[r].op \in SpliceOps => \A i \in bump.keys : docs'[i] = Target(bump)
      <4>1. req[r].op \in SpliceOps => req[r].op # "delete" /\ req[r].keys = {id}
        BY <2>2 DEF KeyFits, SpliceOps
      <4> QED BY <2>2, <2>3, <2>5, <4>1 DEF Target
    <3> QED BY <2>2, <2>4, <2>5, <3>1, <3>2, <3>3 DEF Effect
  <2> QED BY <2>6, <2>7
<1>7. CASE ApplyItem(r)
  <2> DEFINE item == req[r].items[Len(req[r].items)]
             held == req[r].copy[item.id]
             front == SubSeq(req[r].items, 1, Len(req[r].items) - 1)
             rest == [req[r] EXCEPT !.items = front, !.pc = "apply"]
             doc == StoredStub(item, held.seq)
             put == [rest EXCEPT !.keys = {item.id}, !.doc = doc, !.pc = "put"]
             draw == [rest EXCEPT !.keys = {item.id}, !.doc = doc, !.pc = "seq"]
  <2>1. /\ Step(r, rest) \/ Step(r, put) \/ Step(r, draw)
        /\ UNCHANGED <<docs, settings, file>> /\ epoch' = epoch /\ unsignalled' = unsignalled
        /\ req[r].pc \in {"apply", "lookup"}
    <3>1. CASE held # NoDoc
      BY <1>7, <3>1 DEF ApplyItem, shared
    <3>2. CASE held = NoDoc
      BY <1>7, <3>2 DEF ApplyItem, shared
    <3> QED BY <3>1, <3>2
  <2>2. /\ req[r].items \in Seq(Item) /\ req[r].items # <<>> /\ Len(req[r].items) \in Nat
        /\ Len(req[r].items) >= 1
    <3>1. req[r].items \in Seq(Item)
      BY <1>t DEF AdminReq
    <3>2. req[r].items # <<>>
      BY <1>7 DEF ApplyItem
    <3>3. Len(req[r].items) \in Nat /\ (Len(req[r].items) = 0 => req[r].items = <<>>)
      BY <3>1, EmptySeq, LenProperties
    <3> QED BY <3>1, <3>2, <3>3
  <2>3. front \in Seq(Item)
    BY <2>2, FrontType
  <2>4. /\ Len(front) = Len(req[r].items) - 1
        /\ \A i \in 1 .. Len(front) : front[i] = req[r].items[i]
    BY <2>2
  <2>5. OnlyOwn => item.id \in IdsOf[r]
    BY <2>2 DEF OwnFits
  <2>6. req[r].op \notin SpliceOps
    BY <2>1 DEF KeyFits, SpliceOps
  <2>7. doc \in Doc
    <3>1. item \in Item /\ req[r].copy \in [Ids -> Doc]
      BY <1>t, <2>2, FrontType DEF AdminReq
    <3>2. held.seq \in Nat /\ item.text \in Texts /\ item.persistent \in BOOLEAN
      BY <3>1 DEF Item, Doc
    <3> QED BY <3>2, StubType
  <2>8. /\ rest \in AdminReq /\ rest.pc = "apply" /\ rest.items = front /\ rest.op = req[r].op
        /\ rest.prune = req[r].prune /\ rest.keys = req[r].keys
    BY <1>t, <2>3 DEF AdminReq
  <2>9. /\ put.pc = "put" /\ put.keys = {item.id} /\ put.items = rest.items
        /\ put.op = rest.op /\ put.prune = rest.prune
        /\ draw.pc = "seq" /\ draw.keys = {item.id} /\ draw.items = rest.items
        /\ draw.op = rest.op /\ draw.prune = rest.prune
    BY <2>8 DEF AdminReq
  <2> HIDE DEF item, held, doc, rest, put, draw, front
  <2>10. OnlyOwn => \A i \in 1 .. Len(front) : front[i].id \in IdsOf[r]
    BY <2>2, <2>4 DEF OwnFits
  <2>11. /\ KeyFits(r, rest) /\ KeyFits(r, put) /\ KeyFits(r, draw)
         /\ Pending(rest) /\ Pending(put) /\ Pending(draw)
    BY <2>1, <2>6, <2>8, <2>9 DEF KeyFits, Pending, SpliceOps
  <2>12. OnlyOwn => OwnFits(r, rest) /\ OwnFits(r, put) /\ OwnFits(r, draw)
    BY <2>5, <2>8, <2>9, <2>10 DEF OwnFits
  <2>13. PICK rec : /\ Step(r, rec) /\ KeyFits(r, rec) /\ Pending(rec) /\ rec.op = req[r].op
                    /\ OnlyOwn => OwnFits(r, rec)
    BY <2>1, <2>8, <2>9, <2>11, <2>12
  <2> QED BY <1>t, <2>1, <2>6, <2>13, QuietEffect
<1>8. CASE Applied(r)
  <2> DEFINE list == [req[r] EXCEPT !.pc = "list", !.unread = Ids]
             bump == [req[r] EXCEPT !.pc = "bump"]
  <2>1. /\ (req[r].prune /\ Step(r, list)) \/ Step(r, bump)
        /\ UNCHANGED <<docs, settings, file>> /\ epoch' = epoch /\ unsignalled' = unsignalled
        /\ req[r].pc \in {"apply", "lookup"}
    BY <1>8 DEF Applied, shared
  <2>2. /\ list.pc = "list" /\ list.op = req[r].op /\ bump.pc = "bump" /\ bump.op = req[r].op
        /\ bump.keys = req[r].keys /\ bump.items = req[r].items /\ bump.prune = req[r].prune
    BY <1>t DEF AdminReq
  <2> HIDE DEF list, bump
  <2>3. req[r].op \notin SpliceOps
    BY <2>1 DEF KeyFits, SpliceOps
  <2>4. KeyFits(r, bump) /\ (OnlyOwn => OwnFits(r, bump)) /\ Pending(bump)
    BY <2>2, MoveFits DEF Pending
  <2>5. Step(r, bump) => Effect(r)
    BY <1>t, <2>1, <2>2, <2>3, <2>4, QuietEffect
  <2>6. ASSUME req[r].prune, Step(r, list) PROVE Effect(r)
    <3>1. ~OnlyOwn
      BY <2>6 DEF OwnFits
    <3>2. KeyFits(r, list)
      BY <2>2, <2>3 DEF KeyFits, SpliceOps
    <3>3. Pending(list)
      BY <2>1, <2>2 DEF Pending, KeyFits
    <3> QED BY <1>t, <2>1, <2>2, <2>3, <2>6, <3>1, <3>2, <3>3, QuietEffect
  <2> QED BY <2>1, <2>5, <2>6
<1>9. CASE WriteOther(r)
  <2> DEFINE bump == [req[r] EXCEPT !.pc = "bump"]
  <2>1. /\ Step(r, bump) /\ docs' = docs /\ epoch' = epoch /\ unsignalled' = unsignalled
        /\ req[r].pc = "write" /\ (file' = file \/ req[r].op = "file")
    BY <1>9 DEF WriteOther
  <2>2. /\ bump.pc = "bump" /\ bump.op = req[r].op /\ bump.keys = req[r].keys
        /\ bump.items = req[r].items /\ bump.prune = req[r].prune
    BY <1>t DEF AdminReq
  <2> HIDE DEF bump
  <2>3. KeyFits(r, bump) /\ (OnlyOwn => OwnFits(r, bump)) /\ Pending(bump)
    BY <2>2, MoveFits DEF Pending
  <2>4. req'[r] = bump /\ \A q \in Requests : q # r => req'[q] = req[q]
    BY <1>t, <2>1, StepIs
  <2>5. req'[r].op \notin SpliceOps
    BY <2>1, <2>2, <2>4 DEF KeyFits, SpliceOps
  <2> QED BY <2>1, <2>3, <2>4, <2>5 DEF Effect
<1>10. CASE BumpEpoch(r)
  <2> DEFINE answer == [req[r] EXCEPT !.pc = "answer"]
  <2>1. /\ Step(r, answer) /\ UNCHANGED <<docs, settings, file>> /\ epoch' = epoch + 1
        /\ req[r].pc = "bump"
    BY <1>10 DEF BumpEpoch
  <2>2. /\ answer.pc = "answer" /\ answer.op = req[r].op /\ answer.keys = req[r].keys
        /\ answer.items = req[r].items /\ answer.prune = req[r].prune /\ answer.doc = req[r].doc
    BY <1>t DEF AdminReq
  <2> HIDE DEF answer
  <2>3. KeyFits(r, answer) /\ (OnlyOwn => OwnFits(r, answer))
    BY <2>2, MoveFits
  <2>4. epoch' # epoch
    BY <1>t, <2>1
  <2> QED BY <1>t, <2>1, <2>2, <2>3, <2>4, QuietEffect
<1> QED BY <1>1, <1>2, <1>3, <1>4, <1>5, <1>6, <1>7, <1>8, <1>9, <1>10 DEF StoreCall

LEMMA AbandonEffect ==
  ASSUME AdminTypeOK, NEW r \in Requests, Abandon(r)
  PROVE  Effect(r)
<1>1. /\ Step(r, IdleReq) /\ UNCHANGED <<docs, settings, file>> /\ epoch' = epoch
      /\ unsignalled'
  BY DEF Abandon, shared
<1>2. IdleReq.pc \notin {"bump", "answer"}
  BY IdleReqFits
<1> QED BY <1>1, <1>2, IdleReqFits, QuietEffect

-----------------------------------------------------------------------------
(* What an import leaves behind.  The batch b is applied back to front, so  *)
(* at any time its elements from lo on are applied; d is the collection and *)
(* start the sequence counter when the request began.                       *)

Through(b, lo, id) == {i \in lo .. Len(b) : b[i].id = id}

AppliedFits(own, b, ignore, start, lo, d) ==
  \A id \in own :
    /\ Through(b, lo, id) = {} => d[id].seq <= start
    /\ Through(b, lo, id) # {} => d[id] # NoDoc
    /\ (Through(b, lo, id) # {} /\ ignore /\ d[id].seq > start) =>
         \E i \in Through(b, lo, id) :
           (\A n \in Through(b, lo, id) : n <= i) /\ d[id] = StoredStub(b[i], d[id].seq)
    /\ (Through(b, lo, id) # {} /\ ~ignore) =>
         \E i \in Through(b, lo, id) :
           (\A n \in Through(b, lo, id) : n >= i) /\ d[id] = StoredStub(b[i], d[id].seq)
    /\ d[id].seq > start =>
         \A j \in own : d[j].seq > d[id].seq =>
           \E k \in Through(b, lo, id) : \A n \in Through(b, lo, j) : n < k

\* One more element is applied.
LEMMA ThroughStep ==
  ASSUME NEW b, Len(b) \in Nat, NEW lo \in 1 .. Len(b)
  PROVE  /\ \A id : id # b[lo].id => Through(b, lo, id) = Through(b, lo + 1, id)
         /\ Through(b, lo, b[lo].id) = Through(b, lo + 1, b[lo].id) \cup {lo}
         /\ \A id : \A n \in Through(b, lo + 1, id) : n > lo /\ n \in Nat
         /\ \A id : \A n \in Through(b, lo, id) : n >= lo /\ n \in Nat
BY DEF Through

\* It is skipped: its id was there before the batch, or from later in it.
LEMMA SkipFits ==
  ASSUME NEW own \in SUBSET Ids, NEW b, Len(b) \in Nat, NEW start \in Nat, NEW lo \in 1 .. Len(b),
         NEW d \in [Ids -> Doc], b[lo].id \in own, d[b[lo].id] # NoDoc,
         AppliedFits(own, b, TRUE, start, lo + 1, d)
  PROVE  AppliedFits(own, b, TRUE, start, lo, d)
<1> DEFINE at == b[lo].id
           new(id) == Through(b, lo, id)
           old(id) == Through(b, lo + 1, id)
<1>1. /\ \A id : id # at => new(id) = old(id)
      /\ new(at) = old(at) \cup {lo}
      /\ \A id : \A n \in old(id) : n > lo /\ n \in Nat
      /\ lo \in Nat /\ lo \in new(at)
  <2>1. /\ \A id : id # at => new(id) = old(id)
        /\ new(at) = old(at) \cup {lo}
    BY ThroughStep
  <2>2. \A id : \A n \in old(id) : n > lo /\ n \in Nat
    BY ThroughStep
  <2> QED BY <2>1, <2>2
<1>2. \A id \in own : d[id].seq \in Nat
  BY DEF Doc
<1>3. \A id \in own :
        /\ old(id) = {} => d[id].seq <= start
        /\ old(id) # {} => d[id] # NoDoc
        /\ (old(id) # {} /\ d[id].seq > start) =>
             \E i \in old(id) : (\A n \in old(id) : n <= i) /\ d[id] = StoredStub(b[i], d[id].seq)
        /\ d[id].seq > start =>
             \A j \in own : d[j].seq > d[id].seq => \E k \in old(id) : \A n \in old(j) : n < k
  BY DEF AppliedFits
<1> HIDE DEF new, old
<1>4. \A id \in own : new(id) = {} => d[id].seq <= start
  BY <1>1, <1>3
<1>5. \A id \in own : new(id) # {} => d[id] # NoDoc
  BY <1>1, <1>3
<1>6. ASSUME NEW id \in own, d[id].seq > start
      PROVE  \E i \in new(id) : (\A n \in new(id) : n <= i) /\ d[id] = StoredStub(b[i], d[id].seq)
  <2>1. PICK i \in old(id) : (\A n \in old(id) : n <= i) /\ d[id] = StoredStub(b[i], d[id].seq)
    <3>1. old(id) # {}
      BY <1>2, <1>3, <1>6
    <3> QED BY <1>3, <1>6, <3>1
  <2>2. i \in new(id) /\ \A n \in new(id) : n <= i
    BY <1>1, <2>1
  <2> QED BY <2>1, <2>2
<1>7. ASSUME NEW id \in own, d[id].seq > start, NEW j \in own, d[j].seq > d[id].seq
      PROVE  \E k \in new(id) : \A n \in new(j) : n < k
  <2>1. PICK k \in old(id) : \A n \in old(j) : n < k
    BY <1>3, <1>7
  <2>2. k \in new(id) /\ \A n \in new(j) : n < k
    BY <1>1, <2>1
  <2> QED BY <2>2
<1> QED BY <1>4, <1>5, <1>6, <1>7 DEF AppliedFits, new, old

\* It is put at the end of the sequence: its id is new.
LEMMA NewFits ==
  ASSUME NEW own \in SUBSET Ids, NEW b, Len(b) \in Nat, NEW ignore, NEW start \in Nat,
         NEW lo \in 1 .. Len(b), NEW d \in [Ids -> Doc], NEW e \in [Ids -> Doc], NEW q \in Nat,
         b[lo].id \in own, d[b[lo].id] = NoDoc,
         e[b[lo].id] = StoredStub(b[lo], q), q > start,
         \A j \in own : j # b[lo].id => e[j] = d[j] /\ d[j].seq < q,
         AppliedFits(own, b, ignore, start, lo + 1, d)
  PROVE  AppliedFits(own, b, ignore, start, lo, e)
<1> DEFINE at == b[lo].id
           new(id) == Through(b, lo, id)
           old(id) == Through(b, lo + 1, id)
<1>1. /\ \A id : id # at => new(id) = old(id)
      /\ new(at) = old(at) \cup {lo}
      /\ \A id : \A n \in old(id) : n > lo /\ n \in Nat
      /\ lo \in Nat
  <2>1. /\ \A id : id # at => new(id) = old(id)
        /\ new(at) = old(at) \cup {lo}
    BY ThroughStep
  <2>2. \A id : \A n \in old(id) : n > lo /\ n \in Nat
    BY ThroughStep
  <2> QED BY <2>1, <2>2
<1>2. \A id \in own : d[id].seq \in Nat
  BY DEF Doc
<1>3. AppliedFits(own, b, ignore, start, lo + 1, d)
  OBVIOUS
<1>4. old(at) = {}
  BY <1>3 DEF AppliedFits
<1>5. new(at) = {lo} /\ e[at].seq = q /\ e[at] = StoredStub(b[lo], e[at].seq) /\ e[at] # NoDoc
  BY <1>1, <1>4 DEF StoredStub, NoDoc
<1>6. \A id \in own : id # at => e[id] = d[id] /\ new(id) = old(id)
  BY <1>1
<1>7. ASSUME NEW id \in own, id # at
      PROVE  /\ new(id) = {} => e[id].seq <= start
             /\ new(id) # {} => e[id] # NoDoc
             /\ (new(id) # {} /\ ignore /\ e[id].seq > start) =>
                  \E i \in new(id) :
                    (\A n \in new(id) : n <= i) /\ e[id] = StoredStub(b[i], e[id].seq)
             /\ (new(id) # {} /\ ~ignore) =>
                  \E i \in new(id) :
                    (\A n \in new(id) : n >= i) /\ e[id] = StoredStub(b[i], e[id].seq)
  BY <1>3, <1>6, <1>7 DEF AppliedFits
<1>8. ASSUME NEW id \in own, e[id].seq > start, NEW j \in own, e[j].seq > e[id].seq
      PROVE  \E k \in new(id) : \A n \in new(j) : n < k
  <2>1. id # at /\ id \in Ids /\ j \in Ids
    BY <1>2, <1>5, <1>6, <1>8
  <2>2. CASE j # at
    <3>1. \E k \in old(id) : \A n \in old(j) : n < k
      BY <1>3, <1>6, <1>8, <2>1, <2>2 DEF AppliedFits
    <3> QED BY <1>6, <2>1, <2>2, <3>1
  <2>3. CASE j = at
    <3>1. d[id].seq > start
      BY <1>6, <1>8, <2>1
    <3>2. PICK k : k \in old(id)
      BY <1>2, <1>3, <3>1 DEF AppliedFits
    <3>3. k \in new(id) /\ \A n \in new(j) : n < k
      BY <1>1, <1>5, <1>6, <2>1, <2>3, <3>2
    <3> QED BY <3>3
  <2> QED BY <2>2, <2>3
<1>9. /\ new(at) # {}
      /\ \E i \in new(at) : (\A n \in new(at) : n <= i) /\ e[at] = StoredStub(b[i], e[at].seq)
      /\ \E i \in new(at) : (\A n \in new(at) : n >= i) /\ e[at] = StoredStub(b[i], e[at].seq)
  BY <1>1, <1>5
<1> QED BY <1>5, <1>7, <1>8, <1>9 DEF AppliedFits

\* It overwrites a stub in its place.
LEMMA OverFits ==
  ASSUME NEW own \in SUBSET Ids, NEW b, Len(b) \in Nat, NEW start \in Nat,
         NEW lo \in 1 .. Len(b), NEW d \in [Ids -> Doc], NEW e \in [Ids -> Doc],
         b[lo].id \in own, d[b[lo].id] # NoDoc,
         e[b[lo].id] = StoredStub(b[lo], d[b[lo].id].seq), e[b[lo].id] # NoDoc,
         \A j \in own : j # b[lo].id => e[j] = d[j],
         AppliedFits(own, b, FALSE, start, lo + 1, d)
  PROVE  AppliedFits(own, b, FALSE, start, lo, e)
<1> DEFINE at == b[lo].id
           new(id) == Through(b, lo, id)
           old(id) == Through(b, lo + 1, id)
<1>1. /\ \A id : id # at => new(id) = old(id)
      /\ new(at) = old(at) \cup {lo}
      /\ \A id : \A n \in old(id) : n > lo /\ n \in Nat
      /\ lo \in Nat
  <2>1. /\ \A id : id # at => new(id) = old(id)
        /\ new(at) = old(at) \cup {lo}
    BY ThroughStep
  <2>2. \A id : \A n \in old(id) : n > lo /\ n \in Nat
    BY ThroughStep
  <2> QED BY <2>1, <2>2
<1>2. \A id \in own : d[id].seq \in Nat
  BY DEF Doc
<1>3. \A id \in own :
        /\ old(id) = {} => d[id].seq <= start
        /\ old(id) # {} => d[id] # NoDoc
        /\ old(id) # {} =>
             \E i \in old(id) : (\A n \in old(id) : n >= i) /\ d[id] = StoredStub(b[i], d[id].seq)
        /\ d[id].seq > start =>
             \A j \in own : d[j].seq > d[id].seq => \E k \in old(id) : \A n \in old(j) : n < k
  BY DEF AppliedFits
<1>4. /\ e[at].seq = d[at].seq /\ e[at] = StoredStub(b[lo], e[at].seq)
      /\ \A id \in own : e[id].seq = d[id].seq
      /\ \A id \in own : id # at => e[id] = d[id] /\ new(id) = old(id)
  BY <1>1 DEF StoredStub
<1> HIDE DEF new, old
<1>5. ASSUME NEW id \in own, id # at
      PROVE  /\ new(id) = {} => e[id].seq <= start
             /\ new(id) # {} => e[id] # NoDoc
             /\ new(id) # {} => \E i \in new(id) :
                    (\A n \in new(id) : n >= i) /\ e[id] = StoredStub(b[i], e[id].seq)
  BY <1>3, <1>4, <1>5
<1>6. /\ new(at) # {} /\ e[at] # NoDoc
      /\ \E i \in new(at) : (\A n \in new(at) : n >= i) /\ e[at] = StoredStub(b[i], e[at].seq)
  <2>1. lo \in new(at) /\ \A n \in new(at) : n >= lo
    BY <1>1
  <2> QED BY <1>4, <2>1
<1>7. ASSUME NEW id \in own, e[id].seq > start, NEW j \in own, e[j].seq > e[id].seq
      PROVE  \E k \in new(id) : \A n \in new(j) : n < k
  <2>1. PICK k \in old(id) : \A n \in old(j) : n < k
    BY <1>3, <1>4, <1>7
  <2>2. k \in new(id) /\ \A n \in new(j) : n < k
    BY <1>1, <2>1
  <2> QED BY <2>2
<1> QED BY <1>5, <1>6, <1>7 DEF AppliedFits, new, old

\* The first element that is applied: one taken off the batch and still to be put
\* is not.
Lo(rec) == Len(rec.items) + (IF rec.pc \in {"seq", "put"} THEN 2 ELSE 1)

\* An import's record, where d is the collection and s the sequence counter.
ImportFits(r, rec, d, s) ==
  rec.op = "import" =>
    /\ rec.pc \in {"lookup", "apply", "seq", "put", "bump", "answer"}
    /\ rec.start <= s
    /\ rec.pc \in {"bump", "answer"} => rec.items = <<>>
    /\ rec.pc # "lookup" => rec.unread = {}
    /\ Len(rec.items) <= Len(rec.batch)
    /\ \A i \in 1 .. Len(rec.items) : rec.items[i] = rec.batch[i]
    /\ \A i \in 1 .. Len(rec.batch) :
         /\ rec.batch[i].id \in IdsOf[r]
         /\ rec.batch[i].id \in rec.unread \/ rec.copy[rec.batch[i].id] = d[rec.batch[i].id]
    /\ AppliedFits(IdsOf[r], rec.batch, rec.ignore, rec.start, Lo(rec), d)
    /\ rec.pc \in {"seq", "put"} =>
         /\ Len(rec.items) < Len(rec.batch)
         /\ rec.keys = {rec.batch[Len(rec.items) + 1].id}
         /\ rec.doc = StoredStub(rec.batch[Len(rec.items) + 1], rec.doc.seq)
    /\ rec.pc = "seq" => \A id \in rec.keys : d[id] = NoDoc
    /\ rec.pc = "put" => \A id \in rec.keys :
         \/ d[id] # NoDoc /\ rec.doc.seq = d[id].seq /\ ~rec.ignore
         \/ /\ d[id] = NoDoc /\ rec.doc.seq > rec.start
            /\ \A j \in IdsOf[r] : d[j].seq < rec.doc.seq

\* What others do does not matter to it.
LEMMA ImportFrame ==
  ASSUME NEW r \in Requests, NEW rec \in AdminReq, NEW d, NEW e, NEW s \in Nat, NEW t \in Nat,
         ImportFits(r, rec, d, s), s <= t, \A id \in IdsOf[r] : e[id] = d[id]
  PROVE  ImportFits(r, rec, e, t)
<1> SUFFICES ASSUME rec.op = "import" PROVE ImportFits(r, rec, e, t)
  BY DEF ImportFits
<1>1. /\ rec.start \in Nat /\ rec.batch \in Seq(Item) /\ rec.items \in Seq(Item)
      /\ Len(rec.batch) \in Nat /\ Len(rec.items) \in Nat
  BY DEF AdminReq
<1>2. AppliedFits(IdsOf[r], rec.batch, rec.ignore, rec.start, Lo(rec), e)
  BY DEF ImportFits, AppliedFits
<1>3. rec.pc \in {"seq", "put"} => rec.keys \subseteq IdsOf[r]
  BY SMTT(20), <1>1 DEF ImportFits
<1>4. \A i \in 1 .. Len(rec.batch) :
         /\ rec.batch[i].id \in IdsOf[r]
         /\ rec.batch[i].id \in rec.unread \/ rec.copy[rec.batch[i].id] = e[rec.batch[i].id]
  BY DEF ImportFits
<1>5. /\ rec.pc = "seq" => \A id \in rec.keys : e[id] = NoDoc
      /\ rec.pc = "put" => \A id \in rec.keys :
         \/ e[id] # NoDoc /\ rec.doc.seq = e[id].seq /\ ~rec.ignore
         \/ /\ e[id] = NoDoc /\ rec.doc.seq > rec.start
            /\ \A j \in IdsOf[r] : e[j].seq < rec.doc.seq
  BY <1>3 DEF ImportFits
<1> QED BY <1>1, <1>2, <1>4, <1>5 DEF ImportFits

\* A request keeps its operation until it is over.
LEMMA OpKept ==
  ASSUME AdminTypeOK, NEW r \in Requests, StoreCall(r)
  PROVE  req'[r].op \in {req[r].op, "none"}
<1>t. req \in [Requests -> AdminReq] /\ req[r] \in AdminReq
  BY DEF AdminTypeOK
<1>0. IdleReq.op = "none"
  BY IdleReqFits
<1>1. CASE ReadKey(r)
  BY <1>1, <1>t DEF ReadKey, Step, AdminReq
<1>2. CASE Listed(r)
  <2> DEFINE keys == {id \in Ids : Selects(r, id)}
             next(pc) == [req[r] EXCEPT !.keys = keys, !.pc = pc]
             bump == [req[r] EXCEPT !.pc = "bump"]
  <2>1. Step(r, next("save")) \/ Step(r, next("remove")) \/ Step(r, IdleReq) \/ Step(r, bump)
    BY <1>2 DEF Listed
  <2>2. \A pc : next(pc).op = req[r].op
    BY <1>t DEF AdminReq
  <2>3. bump.op = req[r].op
    BY <1>t DEF AdminReq
  <2> HIDE DEF keys, next, bump
  <2> QED BY <1>t, <1>0, <2>1, <2>2, <2>3, StepIs
<1>3. \A id : Done(r, id).op = req[r].op
  BY <1>t DEF Done, AdminReq
<1>4. CASE RemoveKey(r)
  <2>1. \/ Step(r, [req[r] EXCEPT !.pc = "bump"])
        \/ \E id \in req[r].keys : Step(r, Done(r, id))
    BY <1>4 DEF RemoveKey
  <2>2. [req[r] EXCEPT !.pc = "bump"].op = req[r].op
    BY <1>t DEF AdminReq
  <2> QED BY <1>t, <1>3, <2>1, <2>2, StepIs
<1>5. CASE SaveKey(r)
  BY <1>5, <1>t, <1>3, StepIs DEF SaveKey
<1>6. CASE NextSeq(r)
  BY <1>6, <1>t DEF NextSeq, Step, AdminReq
<1>7. CASE PutStub(r)
  <2>1. PICK id \in req[r].keys :
          \/ Step(r, [req[r] EXCEPT !.pc = "apply", !.keys = {}, !.copy[id] = req[r].doc])
          \/ Step(r, [req[r] EXCEPT !.pc = "bump"])
    BY <1>7 DEF PutStub
  <2>2. /\ [req[r] EXCEPT !.pc = "apply", !.keys = {}, !.copy[id] = req[r].doc].op = req[r].op
        /\ [req[r] EXCEPT !.pc = "bump"].op = req[r].op
    BY <1>t DEF AdminReq
  <2> QED BY <1>t, <2>1, <2>2, StepIs
<1>8. CASE ApplyItem(r)
  <2> DEFINE item == req[r].items[Len(req[r].items)]
             held == req[r].copy[item.id]
             rest == [req[r] EXCEPT !.items = SubSeq(@, 1, Len(@) - 1), !.pc = "apply"]
             next(pc) == [rest EXCEPT !.keys = {item.id}, !.doc = StoredStub(item, held.seq),
                                      !.pc = pc]
  <2>1. Step(r, rest) \/ Step(r, next("put")) \/ Step(r, next("seq"))
    <3>1. CASE held # NoDoc
      BY <1>8, <3>1 DEF ApplyItem
    <3>2. CASE held = NoDoc
      BY <1>8, <3>2 DEF ApplyItem
    <3> QED BY <3>1, <3>2
  <2>2. rest.op = req[r].op
    BY <1>t DEF AdminReq
  <2>3. \A pc : next(pc).op = req[r].op
    BY <1>t DEF AdminReq
  <2> HIDE DEF item, held, rest, next
  <2> QED BY <1>t, <2>1, <2>2, <2>3, StepIs
<1>9. CASE Applied(r)
  <2>1. \/ Step(r, [req[r] EXCEPT !.pc = "list", !.unread = Ids])
        \/ Step(r, [req[r] EXCEPT !.pc = "bump"])
    BY <1>9 DEF Applied
  <2>2. /\ [req[r] EXCEPT !.pc = "list", !.unread = Ids].op = req[r].op
        /\ [req[r] EXCEPT !.pc = "bump"].op = req[r].op
    BY <1>t DEF AdminReq
  <2> QED BY <1>t, <2>1, <2>2, StepIs
<1>10. CASE WriteOther(r)
  BY <1>10, <1>t DEF WriteOther, Step, AdminReq
<1>11. CASE BumpEpoch(r)
  BY <1>11, <1>t DEF BumpEpoch, Step, AdminReq
<1> QED BY <1>1, <1>2, <1>4, <1>5, <1>6, <1>7, <1>8, <1>9, <1>10, <1>11 DEF StoreCall

LEMMA BeginOp ==
  ASSUME AdminTypeOK, NEW r \in Requests, NEW op, NEW rec \in AdminReq, Begin(r, op, rec)
  PROVE  /\ req'[r] = [rec EXCEPT !.op = op, !.start = seq]
         /\ req'[r].op = op
<1>1. [rec EXCEPT !.op = op, !.start = seq].op = op
  BY DEF AdminReq
<1> QED BY <1>1, StepIs DEF Begin, AdminTypeOK

\* An import that arrives has applied nothing, and no stub of its client has a
\* sequence past the counter.
LEMMA ArriveImport ==
  ASSUME SeqInv, NEW r \in Requests, Arrive(r)
  PROVE  ImportFits(r, req'[r], docs', seq')
<1>t. /\ AdminTypeOK /\ req \in [Requests -> AdminReq] /\ docs \in [Ids -> Doc] /\ seq \in Nat
      /\ IdsOf[r] \subseteq Ids
  BY AdminAssumption DEF SeqInv, AdminTypeOK
<1> USE IdleReqType
<1>1. CASE CreateMapping(r)
  <2> DEFINE rec(id, m) == [IdleReq EXCEPT !.pc = "seq", !.keys = {id}, !.doc = StoredStub(m, 0)]
  <2>1. PICK id \in IdsOf[r], m \in Mappings : Begin(r, "create", rec(id, m))
    BY <1>1 DEF CreateMapping
  <2>2. id \in Ids /\ StoredStub(m, 0) \in Doc
    BY AdminAssumption, StubType
  <2>3. rec(id, m) \in AdminReq
    BY <2>2 DEF AdminReq
  <2> HIDE DEF rec
  <2>4. req'[r].op = "create"
    BY <1>t, <2>1, <2>3, BeginOp
  <2> QED BY <2>4 DEF ImportFits
<1>2. CASE UpdateMapping(r)
  <2> DEFINE rec(id, m) == [IdleReq EXCEPT !.pc = "put", !.keys = {id},
                                           !.doc = StoredStub(m, docs[id].seq)]
  <2>1. PICK id \in IdsOf[r], m \in Mappings : Begin(r, "update", rec(id, m))
    BY <1>2 DEF UpdateMapping
  <2>2. id \in Ids /\ docs[id].seq \in Nat
    BY <1>t, AdminAssumption DEF Doc
  <2>3. StoredStub(m, docs[id].seq) \in Doc
    BY <2>2, AdminAssumption, StubType
  <2>4. rec(id, m) \in AdminReq
    BY <2>2, <2>3 DEF AdminReq
  <2> HIDE DEF rec
  <2>5. req'[r].op = "update"
    BY <1>t, <2>1, <2>4, BeginOp
  <2> QED BY <2>5 DEF ImportFits
<1>3. CASE DeleteMapping(r)
  <2> DEFINE rec(id) == [IdleReq EXCEPT !.pc = "remove", !.keys = {id}]
  <2>1. PICK id \in IdsOf[r] : Begin(r, "delete", rec(id))
    BY <1>3 DEF DeleteMapping
  <2>2. rec(id) \in AdminReq
    <3>1. id \in Ids
      BY AdminAssumption
    <3> QED BY <3>1, RemovalRec
  <2> HIDE DEF rec
  <2>3. req'[r].op = "delete"
    BY <1>t, <2>1, <2>2, BeginOp
  <2> QED BY <2>3 DEF ImportFits
<1>4. CASE BulkRequest(r)
  <2> DEFINE rec == [IdleReq EXCEPT !.pc = "list", !.unread = Ids]
  <2>1. PICK op \in {"reset", "deleteAll", "removeByMetadata", "save"} : Begin(r, op, rec)
    BY <1>4 DEF BulkRequest
  <2>2. rec \in AdminReq
    BY DEF AdminReq
  <2> HIDE DEF rec
  <2> QED BY <1>t, <2>1, <2>2, BeginOp DEF ImportFits
<1>5. CASE ImportMappings(r)
  <2> DEFINE ids(b) == {b.items[i].id : i \in 1 .. Len(b.items)}
             rec(b) ==
        [IdleReq EXCEPT !.pc = "lookup", !.items = b.items, !.batch = b.items,
                        !.ignore = b.ignore, !.prune = b.prune, !.unread = ids(b)]
             new(b) == [rec(b) EXCEPT !.op = "import", !.start = seq]
  <2>1. PICK b \in Batches : /\ \A i \in 1 .. Len(b.items) : b.items[i].id \in IdsOf[r]
                             /\ Begin(r, "import", rec(b))
    BY <1>5 DEF ImportMappings
  <2>2. b.items \in Seq(Item) /\ b.ignore \in BOOLEAN /\ b.prune \in BOOLEAN
        /\ Len(b.items) \in Nat
    BY AdminAssumption
  <2>3. ids(b) \in SUBSET Ids /\ \A i \in 1 .. Len(b.items) : b.items[i].id \in ids(b)
    BY <2>1, AdminAssumption
  <2> HIDE DEF ids
  <2>4. /\ rec(b) \in AdminReq /\ rec(b).items = b.items /\ rec(b).batch = b.items
        /\ rec(b).pc = "lookup" /\ rec(b).unread = ids(b)
    BY <2>2, <2>3 DEF AdminReq
  <2> HIDE DEF rec
  <2>5. /\ new(b).items = b.items /\ new(b).batch = b.items /\ new(b).pc = "lookup"
        /\ new(b).unread = ids(b) /\ new(b).start = seq
    BY <2>4 DEF AdminReq
  <2>6. req'[r] = new(b) /\ docs' = docs /\ seq' = seq
    BY <1>t, <2>1, <2>4, BeginOp DEF Begin, shared
  <2> HIDE DEF new
  <2>7. Lo(new(b)) = Len(b.items) + 1
    BY <2>2, <2>5 DEF Lo
  <2>8. \A id \in IdsOf[r] : docs[id].seq \in Nat /\ docs[id].seq <= seq
    <3> SUFFICES ASSUME NEW id \in IdsOf[r] PROVE docs[id].seq \in Nat /\ docs[id].seq <= seq
      OBVIOUS
    <3>1. docs[id].seq \in Nat /\ id \in Ids
      BY <1>t DEF Doc
    <3>2. Held(id, docs[id].seq)
      BY DEF Held
    <3> QED BY <3>1, <3>2 DEF SeqInv, DrawnInv
  <2>9. AppliedFits(IdsOf[r], b.items, new(b).ignore, seq, Len(b.items) + 1, docs)
    <3>1. \A id : Through(b.items, Len(b.items) + 1, id) = {}
      BY <2>2 DEF Through
    <3>2. \A id \in IdsOf[r] : ~(docs[id].seq > seq)
      BY <1>t, <2>8
    <3> QED BY <2>8, <3>1, <3>2 DEF AppliedFits
  <2> QED BY <1>t, <2>1, <2>2, <2>3, <2>5, <2>6, <2>7, <2>9 DEF ImportFits
<1>6. CASE PutOther(r)
  <2> DEFINE rec(c) == [IdleReq EXCEPT !.pc = "write", !.value = c]
  <2>1. PICK op \in {"file", "settings"}, c \in Contents : Begin(r, op, rec(c))
    BY <1>6 DEF PutOther
  <2>2. rec(c) \in AdminReq
    BY DEF AdminReq
  <2> HIDE DEF rec
  <2> QED BY <1>t, <2>1, <2>2, BeginOp DEF ImportFits
<1> QED BY <1>1, <1>2, <1>3, <1>4, <1>5, <1>6 DEF Arrive

\* Its store calls.
LEMMA StoreImport ==
  ASSUME SeqInv, OnlyOwn, NEW r \in Requests, StoreCall(r), req[r].op = "import",
         OwnFits(r, req[r]), ImportFits(r, req[r], docs, seq)
  PROVE  ImportFits(r, req'[r], docs', seq')
<1>t. /\ AdminTypeOK /\ req \in [Requests -> AdminReq] /\ docs \in [Ids -> Doc] /\ seq \in Nat
      /\ IdsOf[r] \subseteq Ids
  BY AdminAssumption DEF SeqInv, AdminTypeOK
<1>p. PICK R : R = req[r]
  OBVIOUS
<1>r. /\ R \in AdminReq /\ R.op = "import" /\ R.start \in Nat /\ R.ignore \in BOOLEAN
      /\ R.batch \in Seq(Item) /\ R.items \in Seq(Item)
      /\ Len(R.batch) \in Nat /\ Len(R.items) \in Nat /\ R.doc \in Doc
      /\ R.copy \in [Ids -> Doc] /\ R.unread \subseteq Ids
  BY <1>t, <1>p DEF AdminReq
<1>f. /\ R.pc \in {"lookup", "apply", "seq", "put", "bump", "answer"}
      /\ R.start <= seq
      /\ R.pc \in {"bump", "answer"} => R.items = <<>>
      /\ R.pc # "lookup" => R.unread = {}
      /\ Len(R.items) <= Len(R.batch)
      /\ \A i \in 1 .. Len(R.items) : R.items[i] = R.batch[i]
      /\ \A i \in 1 .. Len(R.batch) : R.batch[i].id \in IdsOf[r]
      /\ ~R.prune
  BY <1>p, <1>r DEF ImportFits, OwnFits
<1>c. \A i \in 1 .. Len(R.batch) :
        R.batch[i].id \in R.unread \/ R.copy[R.batch[i].id] = docs[R.batch[i].id]
  BY <1>p, <1>r DEF ImportFits
<1>a. AppliedFits(IdsOf[r], R.batch, R.ignore, R.start, Lo(R), docs)
  BY <1>p, <1>r DEF ImportFits
<1>s. R.pc \in {"seq", "put"} =>
         /\ Len(R.items) < Len(R.batch)
         /\ R.keys = {R.batch[Len(R.items) + 1].id}
         /\ R.doc = StoredStub(R.batch[Len(R.items) + 1], R.doc.seq)
  BY <1>p, <1>r DEF ImportFits
<1>w. /\ R.pc = "seq" => \A id \in R.keys : docs[id] = NoDoc
      /\ R.pc = "put" => \A id \in R.keys :
         \/ docs[id] # NoDoc /\ R.doc.seq = docs[id].seq /\ ~R.ignore
         \/ /\ docs[id] = NoDoc /\ R.doc.seq > R.start
            /\ \A j \in IdsOf[r] : docs[j].seq < R.doc.seq
  BY <1>p, <1>r DEF ImportFits
<1>d. \A j \in Ids : docs[j].seq \in Nat /\ docs[j].seq <= seq
  <2> SUFFICES ASSUME NEW j \in Ids PROVE docs[j].seq \in Nat /\ docs[j].seq <= seq
    OBVIOUS
  <2>1. docs[j].seq \in Nat
    BY <1>t DEF Doc
  <2>2. Held(j, docs[j].seq)
    BY DEF Held
  <2> QED BY <2>1, <2>2 DEF SeqInv, DrawnInv
<1>1. CASE ReadKey(r)
  <2>1. PICK id \in R.unread :
          Step(r, [R EXCEPT !.unread = @ \ {id}, !.copy[id] = docs[id]])
    BY <1>1, <1>p DEF ReadKey
  <2> DEFINE new == [R EXCEPT !.unread = @ \ {id}, !.copy[id] = docs[id]]
  <2>2. /\ new.op = R.op /\ new.pc = R.pc /\ new.keys = R.keys /\ new.doc = R.doc
        /\ new.items = R.items /\ new.batch = R.batch /\ new.ignore = R.ignore
        /\ new.start = R.start /\ new.unread = R.unread \ {id}
    BY <1>r DEF AdminReq
  <2>3. \A j \in Ids : new.copy[j] = IF j = id THEN docs[id] ELSE R.copy[j]
    BY <1>r DEF AdminReq
  <2>4. req'[r] = new /\ docs' = docs /\ seq' = seq
    BY <1>1, <1>t, <2>1, StepIs DEF ReadKey, shared
  <2> HIDE DEF new
  <2>5. R.pc = "lookup"
    BY <1>1, <1>f, <1>p DEF ReadKey
  <2>6. \A i \in 1 .. Len(R.batch) :
          R.batch[i].id \in new.unread \/ new.copy[R.batch[i].id] = docs[R.batch[i].id]
    BY <1>c, <1>f, <1>t, <2>2, <2>3
  <2>7. Lo(new) = Lo(R)
    BY <2>2 DEF Lo
  <2>8. /\ R.op = "import" /\ R.start <= seq /\ Len(R.items) <= Len(R.batch)
        /\ \A i \in 1 .. Len(R.items) : R.items[i] = R.batch[i]
        /\ \A i \in 1 .. Len(R.batch) : R.batch[i].id \in IdsOf[r]
    BY <1>f, <1>r
  <2> QED BY SMTT(20), <1>a, <2>2, <2>4, <2>5, <2>6, <2>7, <2>8 DEF ImportFits
<1>5. CASE NextSeq(r)
  <2> DEFINE new == [R EXCEPT !.pc = "put", !.doc.seq = seq + 1]
             n == Len(R.items) + 1
  <2>1. /\ new.op = R.op /\ new.pc = "put" /\ new.keys = R.keys
        /\ new.doc = [R.doc EXCEPT !.seq = seq + 1]
        /\ new.items = R.items /\ new.batch = R.batch /\ new.ignore = R.ignore
        /\ new.start = R.start /\ new.unread = R.unread /\ new.copy = R.copy
    BY <1>r DEF AdminReq
  <2>2. req'[r] = new /\ docs' = docs /\ seq' = seq + 1 /\ R.pc = "seq"
    BY <1>5, <1>p, <1>t, StepIs DEF NextSeq
  <2> HIDE DEF new
  <2>3. new.doc = StoredStub(R.batch[n], seq + 1) /\ new.doc.seq = seq + 1
    BY <1>s, <2>1, <2>2 DEF StoredStub
  <2>4. Lo(new) = Lo(R)
    BY <2>1, <2>2 DEF Lo
  <2>5. \A id \in new.keys :
          /\ docs[id] = NoDoc /\ new.doc.seq > R.start
          /\ \A j \in IdsOf[r] : docs[j].seq < new.doc.seq
    BY <1>d, <1>f, <1>r, <1>t, <1>w, <2>1, <2>2, <2>3
  <2>6. R.start <= seq + 1
    BY <1>f, <1>r, <1>t
  <2>7. AppliedFits(IdsOf[r], new.batch, new.ignore, new.start, Lo(new), docs')
    BY <1>a, <2>1, <2>2, <2>4
  <2>8. /\ new.pc = "put" /\ new.op = "import" /\ new.start <= seq' /\ new.unread = {}
        /\ Len(new.items) < Len(new.batch) /\ Len(new.items) <= Len(new.batch)
        /\ \A i \in 1 .. Len(new.items) : new.items[i] = new.batch[i]
    BY <1>f, <1>r, <1>s, <2>1, <2>2, <2>6
  <2>9. \A i \in 1 .. Len(new.batch) :
          new.batch[i].id \in IdsOf[r] /\ new.copy[new.batch[i].id] = docs'[new.batch[i].id]
    BY <1>c, <1>f, <2>1, <2>2
  <2>10. /\ new.keys = {new.batch[Len(new.items) + 1].id}
         /\ new.doc = StoredStub(new.batch[Len(new.items) + 1], new.doc.seq)
    BY <1>s, <2>1, <2>2, <2>3
  <2>11. \A id \in new.keys :
           /\ docs'[id] = NoDoc /\ new.doc.seq > new.start
           /\ \A j \in IdsOf[r] : docs'[j].seq < new.doc.seq
    BY <2>1, <2>2, <2>5
  <2> QED BY <2>2, <2>7, <2>8, <2>9, <2>10, <2>11 DEF ImportFits
<1>6. CASE PutStub(r)
  <2> DEFINE n == Len(R.items) + 1
             at == R.batch[n].id
             new == [R EXCEPT !.pc = "apply", !.keys = {}, !.copy[at] = R.doc]
  <2>1. R.pc = "put" /\ n \in 1 .. Len(R.batch) /\ n \in Nat /\ R.keys = {at}
        /\ R.doc = StoredStub(R.batch[n], R.doc.seq)
    BY <1>6, <1>p, <1>r, <1>s DEF PutStub
  <2>2. at \in IdsOf[r] /\ at \in Ids /\ R.doc.seq \in Nat
    BY <1>f, <1>r, <1>t, <2>1 DEF Doc
  <2>3. R.doc # NoDoc
    <3>1. R.batch[n] \in Item
      BY <1>r, <2>1
    <3> QED BY <2>1, <3>1, AdminAssumption DEF Item, StoredStub, NoDoc
  <2>4. docs' = [docs EXCEPT ![at] = R.doc] /\ seq' = seq /\ Step(r, new)
    <3>1. PICK id \in req[r].keys :
            /\ docs' = [docs EXCEPT ![id] = req[r].doc]
            /\ Step(r, [req[r] EXCEPT !.pc = "apply", !.keys = {}, !.copy[id] = req[r].doc])
      BY <1>6, <1>p, <1>r DEF PutStub
    <3>2. id = at
      BY <1>p, <2>1, <3>1
    <3> QED BY <1>6, <1>p, <3>1, <3>2 DEF PutStub
  <2>5. /\ new.op = R.op /\ new.pc = "apply" /\ new.items = R.items /\ new.batch = R.batch
        /\ new.ignore = R.ignore /\ new.start = R.start /\ new.unread = R.unread
    BY <1>r DEF AdminReq
  <2>6. \A j \in Ids : new.copy[j] = IF j = at THEN R.doc ELSE R.copy[j]
    BY <1>r DEF AdminReq
  <2>7. req'[r] = new
    BY <1>t, <2>4, StepIs
  <2>8. docs' \in [Ids -> Doc] /\ docs'[at] = R.doc /\ \A j \in Ids : j # at => docs'[j] = docs[j]
    BY <1>r, <1>t, <2>2, <2>4
  <2>9. Lo(R) = n + 1 /\ Lo(new) = n
    BY <1>r, <2>1, <2>5 DEF Lo
  <2>10. AppliedFits(IdsOf[r], R.batch, R.ignore, R.start, n, docs')
    <3>1. CASE docs[at] # NoDoc
      <4>1. R.doc.seq = docs[at].seq /\ R.ignore = FALSE
        BY <1>r, <1>w, <2>1, <3>1
      <4>2. AppliedFits(IdsOf[r], R.batch, FALSE, R.start, n + 1, docs)
        BY <1>a, <2>9, <4>1
      <4>3. docs'[at] = StoredStub(R.batch[n], docs[at].seq) /\ docs'[at] # NoDoc
        BY <2>1, <2>3, <2>8, <4>1
      <4>4. \A j \in IdsOf[r] : j # at => docs'[j] = docs[j]
        BY <1>t, <2>8
      <4>5. AppliedFits(IdsOf[r], R.batch, FALSE, R.start, n, docs')
        BY <1>r, <1>t, <2>1, <2>2, <2>8, <3>1, <4>2, <4>3, <4>4, OverFits
      <4> QED BY <4>1, <4>5
    <3>2. CASE docs[at] = NoDoc
      <4>1. R.doc.seq > R.start /\ \A j \in IdsOf[r] : docs[j].seq < R.doc.seq
        BY <1>w, <2>1, <3>2
      <4>2. \A j \in IdsOf[r] : j # at => docs'[j] = docs[j] /\ docs[j].seq < R.doc.seq
        BY <1>t, <2>8, <4>1
      <4> QED BY <1>a, <1>r, <1>t, <2>1, <2>2, <2>8, <2>9, <3>2, <4>1, <4>2, NewFits
    <3> QED BY <3>1, <3>2
  <2> HIDE DEF new, at
  <2>11. \A i \in 1 .. Len(R.batch) : new.copy[R.batch[i].id] = docs'[R.batch[i].id]
    BY <1>c, <1>f, <1>t, <2>1, <2>6, <2>8
  <2>12. AppliedFits(IdsOf[r], new.batch, new.ignore, new.start, Lo(new), docs')
    BY <2>5, <2>9, <2>10
  <2>13. /\ new.pc = "apply" /\ new.op = "import" /\ new.start <= seq' /\ new.unread = {}
         /\ Len(new.items) <= Len(new.batch)
         /\ \A i \in 1 .. Len(new.items) : new.items[i] = new.batch[i]
    BY <1>f, <1>r, <2>1, <2>4, <2>5
  <2>14. \A i \in 1 .. Len(new.batch) :
           new.batch[i].id \in IdsOf[r] /\ new.copy[new.batch[i].id] = docs'[new.batch[i].id]
    BY <1>f, <2>5, <2>11
  <2> QED BY <2>7, <2>12, <2>13, <2>14 DEF ImportFits
<1>7. CASE ApplyItem(r)
  <2>n. PICK n : n = Len(R.items)
    OBVIOUS
  <2>m. PICK item : item = R.batch[n]
    OBVIOUS
  <2>h. PICK held : held = docs[item.id]
    OBVIOUS
  <2> DEFINE rest == [R EXCEPT !.items = SubSeq(R.items, 1, n - 1), !.pc = "apply"]
             next(pc) == [rest EXCEPT !.keys = {item.id}, !.doc = StoredStub(item, held.seq),
                                      !.pc = pc]
  <2>1. /\ n \in Nat /\ n \in 1 .. Len(R.batch) /\ R.items[n] = item /\ R.unread = {}
        /\ R.pc \in {"apply", "lookup"} /\ R.items # <<>>
    <3>1. R.items # <<>> /\ R.unread = {} /\ R.pc \in {"apply", "lookup"}
      BY <1>7, <1>f, <1>p DEF ApplyItem
    <3>2. n \in Nat /\ n >= 1
      BY <1>r, <2>n, <3>1, EmptySeq, LenProperties
    <3> QED BY <1>f, <1>r, <2>n, <2>m, <3>1, <3>2
  <2>2. item.id \in IdsOf[r] /\ item.id \in Ids /\ R.copy[item.id] = held
    BY <1>c, <1>f, <1>t, <2>1, <2>m, <2>h
  <2>3. \/ held # NoDoc /\ R.ignore /\ Step(r, rest)
        \/ held # NoDoc /\ ~R.ignore /\ Step(r, next("put"))
        \/ held = NoDoc /\ Step(r, next("seq"))
    BY <1>7, <1>p, <2>n, <2>1, <2>2 DEF ApplyItem
  <2>4. docs' = docs /\ seq' = seq
    BY <1>7 DEF ApplyItem, shared
  <2>5. /\ rest \in AdminReq /\ rest.op = R.op /\ rest.pc = "apply" /\ rest.batch = R.batch
        /\ rest.items = SubSeq(R.items, 1, n - 1) /\ rest.ignore = R.ignore
        /\ rest.start = R.start /\ rest.unread = R.unread /\ rest.copy = R.copy
    <3>1. SubSeq(R.items, 1, n - 1) \in Seq(Item)
      BY <1>r, <2>n, <2>1, FrontType
    <3> QED BY <1>r, <3>1 DEF AdminReq
  <2>6. /\ Len(rest.items) = n - 1
        /\ \A i \in 1 .. n - 1 : rest.items[i] = R.batch[i]
    <3>1. \A i \in 1 .. n - 1 : R.items[i] \in Item /\ R.items[i] = R.batch[i]
      BY <1>f, <1>r, <2>n, <2>1, ElementOfSeq
    <3> QED BY <2>1, <2>5, <3>1, SubSeqProperties
  <2> HIDE DEF rest
  <2>7. Lo(R) = n + 1 /\ Lo(rest) = n
    <3>1. Lo(R) = n + 1
      BY <2>n, <2>1 DEF Lo
    <3>2. rest.pc = "apply" /\ Len(rest.items) = n - 1
      BY <2>5, <2>6
    <3>3. Lo(rest) = Len(rest.items) + 1
      BY <3>2 DEF Lo
    <3> QED BY <2>1, <3>1, <3>2, <3>3
  <2>8. ASSUME NEW pc \in {"seq", "put"}
        PROVE  /\ next(pc).op = R.op /\ next(pc).pc = pc /\ next(pc).batch = R.batch
               /\ next(pc).items = rest.items /\ next(pc).ignore = R.ignore
               /\ next(pc).start = R.start /\ next(pc).unread = R.unread
               /\ next(pc).copy = R.copy /\ next(pc).keys = {item.id}
               /\ next(pc).doc = StoredStub(item, held.seq)
    BY <2>5 DEF AdminReq
  <2> HIDE DEF next
  <2>9. ASSUME NEW pc \in {"seq", "put"}
        PROVE  Lo(next(pc)) = n + 1 /\ next(pc).doc.seq = held.seq
    <3>1. next(pc).pc = pc /\ Len(next(pc).items) = n - 1
      BY <2>6, <2>8
    <3>2. Lo(next(pc)) = Len(next(pc).items) + 2
      BY <3>1 DEF Lo
    <3> QED BY <2>1, <2>8, <3>1, <3>2 DEF StoredStub
  <2>10. CASE held # NoDoc /\ R.ignore /\ Step(r, rest)
    <3>1. req'[r] = rest
      BY <1>t, <2>10, StepIs
    <3>2. R.ignore = TRUE
      BY <1>r, <2>10
    <3>3. AppliedFits(IdsOf[r], R.batch, TRUE, R.start, n + 1, docs)
      BY <1>a, <2>7, <3>2
    <3>4. AppliedFits(IdsOf[r], R.batch, TRUE, R.start, n, docs)
      BY <1>r, <1>t, <2>m, <2>h, <2>1, <2>2, <2>10, <3>3, SkipFits
    <3>5. AppliedFits(IdsOf[r], rest.batch, rest.ignore, rest.start, Lo(rest), docs)
      BY <2>5, <2>7, <3>2, <3>4
    <3>6. /\ Len(rest.items) <= Len(rest.batch)
          /\ \A i \in 1 .. Len(rest.items) : rest.items[i] = rest.batch[i]
      BY <1>r, <2>1, <2>5, <2>6
    <3>7. /\ \A i \in 1 .. Len(rest.batch) :
               rest.batch[i].id \in IdsOf[r] /\ rest.copy[rest.batch[i].id] = docs[rest.batch[i].id]
      BY <1>c, <1>f, <2>1, <2>5
    <3> QED
      BY <1>f, <2>1, <2>4, <2>5, <3>1, <3>5, <3>6, <3>7 DEF ImportFits
  <2>11. ASSUME NEW pc \in {"seq", "put"}, Step(r, next(pc)),
                pc = "seq" => held = NoDoc, pc = "put" => held # NoDoc /\ ~R.ignore
         PROVE  ImportFits(r, req'[r], docs', seq')
    <3>1. PICK new : new = next(pc)
      OBVIOUS
    <3>2. req'[r] = new
      BY <1>t, <2>11, <3>1, StepIs
    <3>3. /\ new.op = R.op /\ new.pc = pc /\ new.batch = R.batch
          /\ new.items = rest.items /\ new.ignore = R.ignore
          /\ new.start = R.start /\ new.unread = R.unread
          /\ new.copy = R.copy /\ new.keys = {item.id}
          /\ new.doc = StoredStub(item, new.doc.seq)
          /\ Lo(new) = Lo(R) /\ new.doc.seq = held.seq
      BY <2>7, <2>8, <2>9, <3>1
    <3>4. Len(new.items) = n - 1 /\ R.batch[Len(new.items) + 1] = item
      BY <2>m, <2>1, <2>6, <3>3
    <3>5. \A i \in 1 .. Len(new.items) : new.items[i] = R.batch[i]
      BY <2>6, <3>3, <3>4
    <3>6. /\ new.pc = "seq" => \A id \in new.keys : docs[id] = NoDoc
          /\ new.pc = "put" => \A id \in new.keys :
               docs[id] # NoDoc /\ new.doc.seq = docs[id].seq /\ ~new.ignore
      BY <2>11, <2>h, <3>3
    <3>7. Len(new.items) < Len(R.batch) /\ Len(new.items) <= Len(R.batch)
      BY <1>r, <2>1, <3>4
    <3>8. \A i \in 1 .. Len(R.batch) : new.copy[R.batch[i].id] = docs[R.batch[i].id]
      BY <1>c, <2>1, <3>3
    <3> QED
      BY SMTT(20), <1>a, <1>f, <1>r, <2>1, <2>4, <3>2, <3>3, <3>4, <3>5, <3>6, <3>7, <3>8 DEF ImportFits
  <2> QED BY <2>3, <2>10, <2>11
<1>8. CASE Applied(r)
  <2> DEFINE new == [R EXCEPT !.pc = "bump"]
  <2>1. /\ new.op = R.op /\ new.pc = "bump" /\ new.keys = R.keys /\ new.doc = R.doc
        /\ new.items = R.items /\ new.batch = R.batch /\ new.ignore = R.ignore
        /\ new.start = R.start /\ new.unread = R.unread /\ new.copy = R.copy
    BY <1>r DEF AdminReq
  <2>2. /\ Step(r, new) /\ docs' = docs /\ seq' = seq /\ R.items = <<>> /\ R.unread = {}
        /\ R.pc \in {"apply", "lookup"}
    BY <1>8, <1>f, <1>p DEF Applied, shared
  <2> HIDE DEF new
  <2>3. req'[r] = new
    BY <1>t, <2>2, StepIs
  <2>4. Lo(new) = Lo(R)
    BY <2>1, <2>2 DEF Lo
  <2> QED BY SMTT(20), <1>a, <1>c, <1>f, <1>r, <2>1, <2>2, <2>3, <2>4 DEF ImportFits
<1>9. CASE BumpEpoch(r)
  <2> DEFINE new == [R EXCEPT !.pc = "answer"]
  <2>1. /\ new.op = R.op /\ new.pc = "answer" /\ new.keys = R.keys /\ new.doc = R.doc
        /\ new.items = R.items /\ new.batch = R.batch /\ new.ignore = R.ignore
        /\ new.start = R.start /\ new.unread = R.unread /\ new.copy = R.copy
    BY <1>r DEF AdminReq
  <2>2. Step(r, new) /\ docs' = docs /\ seq' = seq /\ R.pc = "bump"
    BY <1>9, <1>p DEF BumpEpoch
  <2> HIDE DEF new
  <2>3. req'[r] = new
    BY <1>t, <2>2, StepIs
  <2>4. Lo(new) = Lo(R)
    BY <2>1, <2>2 DEF Lo
  <2> QED BY SMTT(20), <1>a, <1>c, <1>f, <1>r, <2>1, <2>2, <2>3, <2>4 DEF ImportFits
<1>10. ~Listed(r) /\ ~RemoveKey(r) /\ ~SaveKey(r) /\ ~WriteOther(r)
  BY <1>f, <1>p DEF Listed, RemoveKey, SaveKey, WriteOther
<1> QED BY <1>1, <1>5, <1>6, <1>7, <1>8, <1>9, <1>10 DEF StoreCall

\* The sequence counter never goes back.
LEMMA SeqGrows ==
  ASSUME AdminTypeOK, NEW r \in Requests, Arrive(r) \/ StoreCall(r) \/ Abandon(r) \/ Answer(r)
  PROVE  seq' \in Nat /\ seq <= seq'
<1>1. seq \in Nat
  BY DEF AdminTypeOK
<1>2. seq' = seq \/ seq' = seq + 1
  BY DEF Arrive, CreateMapping, UpdateMapping, DeleteMapping, BulkRequest, ImportMappings,
         PutOther, Begin, StoreCall, ReadKey, Listed, RemoveKey, SaveKey, NextSeq, PutStub,
         ApplyItem, Applied, WriteOther, BumpEpoch, Abandon, Answer, shared
<1> QED BY <1>1, <1>2

ImportInv ==
  /\ SeqInv
  /\ \A r \in Requests :
       KeyFits(r, req[r]) /\ OwnFits(r, req[r]) /\ ImportFits(r, req[r], docs, seq)

\* A step of one request keeps what holds of its own record and of the others'.
LEMMA ImportStep ==
  ASSUME OnlyOwn, ImportInv, SeqInv', NEW r \in Requests,
         Arrive(r) \/ StoreCall(r) \/ Abandon(r)
  PROVE  ImportInv'
<1>t. /\ AdminTypeOK /\ req \in [Requests -> AdminReq] /\ docs \in [Ids -> Doc] /\ seq \in Nat
      /\ \A q \in Requests : req[q] \in AdminReq /\ IdsOf[q] \subseteq Ids
  BY AdminAssumption DEF ImportInv, SeqInv, AdminTypeOK
<1>1. Effect(r)
  BY <1>t, ArriveEffect, StoreCallEffect, AbandonEffect DEF ImportInv
<1>2. seq' \in Nat /\ seq <= seq'
  BY <1>t, SeqGrows
<1>3. ImportFits(r, req'[r], docs', seq')
  <2>1. CASE Arrive(r)
    BY <2>1, ArriveImport DEF ImportInv
  <2>2. CASE StoreCall(r) /\ req[r].op = "import"
    BY <2>2, StoreImport DEF ImportInv
  <2>3. CASE StoreCall(r) /\ req[r].op # "import"
    <3>1. req'[r].op # "import"
      BY <1>t, <2>3, OpKept
    <3> QED BY <3>1 DEF ImportFits
  <2>4. CASE Abandon(r)
    <3>1. req'[r].op # "import"
      BY <1>t, <2>4, StepIs, IdleReqFits DEF Abandon
    <3> QED BY <3>1 DEF ImportFits
  <2> QED BY <2>1, <2>2, <2>3, <2>4
<1>4. ASSUME NEW q \in Requests, q # r PROVE ImportFits(q, req'[q], docs', seq')
  <2>1. req'[q] = req[q]
    BY <1>1, <1>4 DEF Effect
  <2>2. \A id \in IdsOf[q] : docs'[id] = docs[id]
    BY <1>t, <1>1, <1>4 DEF Effect, OnlyOwn, ClientsApart
  <2>3. ImportFits(q, req[q], docs, seq)
    BY DEF ImportInv
  <2> QED BY <1>t, <1>2, <2>1, <2>2, <2>3, ImportFrame
<1>5. \A q \in Requests : KeyFits(q, req'[q]) /\ OwnFits(q, req'[q])
  BY <1>1 DEF Effect, ImportInv
<1> QED BY <1>3, <1>4, <1>5 DEF ImportInv

LEMMA ImportInductive ==
  ASSUME OnlyOwn, "expire" \notin Ops
  PROVE  AdminSpec => []ImportInv
<1>1. AdminInit => ImportInv
  <2> SUFFICES ASSUME AdminInit PROVE ImportInv
    OBVIOUS
  <2>1. SeqInv
    BY InitSeqInv
  <2>2. \A r \in Requests : req[r] = IdleReq
    BY DEF AdminInit
  <2>3. \A r \in Requests : ImportFits(r, req[r], docs, seq)
    BY <2>2, IdleReqFits DEF ImportFits
  <2> QED BY <2>1, <2>2, <2>3, IdleReqFits DEF ImportInv
<1>2. ImportInv /\ SeqInv' /\ [AdminNext]_adminVars => ImportInv'
  <2> SUFFICES ASSUME ImportInv, SeqInv', [AdminNext]_adminVars PROVE ImportInv'
    OBVIOUS
  <2>1. ASSUME NEW r \in Requests, Arrive(r) \/ StoreCall(r) \/ Abandon(r) PROVE ImportInv'
    BY <2>1, ImportStep
  <2>2. ASSUME NEW r \in Requests, Answer(r) PROVE ImportInv'
    <3>1. req'[r] = IdleReq /\ \A q \in Requests : q # r => req'[q] = req[q]
      BY <2>2, StepIs DEF Answer, ImportInv, SeqInv, AdminTypeOK
    <3>2. docs' = docs /\ seq' = seq
      BY <2>2 DEF Answer, shared
    <3>3. ImportFits(r, IdleReq, docs, seq)
      BY IdleReqFits DEF ImportFits
    <3> QED BY <3>1, <3>2, <3>3, IdleReqFits DEF ImportInv
  <2>3. \A id \in Ids : ~Expire(id)
    BY DEF Expire
  <2>4. CASE UNCHANGED adminVars
    BY <2>4 DEF adminVars, ImportInv
  <2> QED BY <2>1, <2>2, <2>3, <2>4 DEF AdminNext, AdminStep
<1> QED BY <1>1, <1>2, SeqInductive, PTL DEF AdminSpec, AdminNext

\* An import that has applied its batch has left what its duplicate policy
\* promises: of a repeated id the last element under IGNORE and the first under
\* OVERWRITE, a stub that was there overwritten or left alone, and of two new ids
\* the one listed first is selected first.  This for any batch, any number of
\* clients with ids of their own and any failures, if no client empties, saves or
\* prunes the collection and no stub expires meanwhile.
THEOREM ImportsComeOut ==
  ASSUME OnlyOwn, "expire" \notin Ops
  PROVE  AdminSpec => []ImportOutcome
<1>1. ImportInv => ImportOutcome
  <2> SUFFICES ASSUME ImportInv, NEW r \in Requests, req[r].op = "import",
                      req[r].pc \in {"bump", "answer"},
                      NEW id \in {req[r].batch[i].id : i \in 1 .. Len(req[r].batch)}
               PROVE  LET occ == Occurrences(r, id)
                          new == docs[id].seq > req[r].start
                          i   == IF req[r].ignore THEN CHOOSE k \in occ : \A m \in occ : m <= k
                                                  ELSE CHOOSE k \in occ : \A m \in occ : m >= k
                      IN /\ docs[id] # NoDoc
                         /\ (new \/ ~req[r].ignore) =>
                              StoredStub(req[r].batch[i], docs[id].seq) = docs[id]
                         /\ new => \A j \in Ids :
                              (docs[j].seq > docs[id].seq /\ Occurrences(r, j) # {}) =>
                                \E k \in occ : \A m \in Occurrences(r, j) : m < k
    BY DEF ImportOutcome
  <2>p. PICK R : R = req[r]
    OBVIOUS
  <2>i. PICK n \in 1 .. Len(R.batch) : id = R.batch[n].id
    BY <2>p
  <2> DEFINE occ(j) == Occurrences(r, j)
  <2>1. R \in AdminReq /\ R.batch \in Seq(Item) /\ Len(R.batch) \in Nat
    BY <2>p DEF ImportInv, SeqInv, AdminTypeOK, AdminReq
  <2>2. /\ AppliedFits(IdsOf[r], R.batch, R.ignore, R.start, Lo(R), docs)
        /\ \A i \in 1 .. Len(R.batch) : R.batch[i].id \in IdsOf[r]
        /\ R.items = <<>>
    BY <2>p, <2>1 DEF ImportInv, ImportFits
  <2>3. Lo(R) = 1
    <3>1. Len(<<>>) = 0 /\ R.pc \in {"bump", "answer"}
      BY <2>p
    <3> QED BY <2>2, <3>1 DEF Lo
  <2>4. \A j : Through(R.batch, 1, j) = occ(j)
    BY <2>p DEF Through, Occurrences
  <2>5. n \in occ(id) /\ id \in IdsOf[r]
    BY <2>p, <2>i, <2>2 DEF Occurrences
  <2>6. \A j : occ(j) # {} => j \in IdsOf[r]
    BY <2>p, <2>2 DEF Occurrences
  <2>7. \A j : \A m \in occ(j) : m \in Int
    BY <2>p, <2>1 DEF Occurrences
  <2> HIDE DEF occ
  <2>8. /\ docs[id] # NoDoc
        /\ (R.ignore /\ docs[id].seq > R.start) =>
             \E i \in occ(id) :
               (\A m \in occ(id) : m <= i) /\ docs[id] = StoredStub(R.batch[i], docs[id].seq)
        /\ ~R.ignore =>
             \E i \in occ(id) :
               (\A m \in occ(id) : m >= i) /\ docs[id] = StoredStub(R.batch[i], docs[id].seq)
        /\ docs[id].seq > R.start =>
             \A j \in IdsOf[r] : docs[j].seq > docs[id].seq =>
               \E k \in occ(id) : \A m \in occ(j) : m < k
    <3>1. AppliedFits(IdsOf[r], R.batch, R.ignore, R.start, 1, docs)
      BY <2>2, <2>3
    <3>2. occ(id) # {}
      BY <2>5
    <3>3. docs[id] # NoDoc
      BY <2>4, <2>5, <3>1, <3>2 DEF AppliedFits
    <3>4. (R.ignore /\ docs[id].seq > R.start) =>
            \E i \in occ(id) :
              (\A m \in occ(id) : m <= i) /\ docs[id] = StoredStub(R.batch[i], docs[id].seq)
      BY <2>4, <2>5, <3>1, <3>2 DEF AppliedFits
    <3>5. ~R.ignore =>
            \E i \in occ(id) :
              (\A m \in occ(id) : m >= i) /\ docs[id] = StoredStub(R.batch[i], docs[id].seq)
      BY <2>4, <2>5, <3>1, <3>2 DEF AppliedFits
    <3>6. docs[id].seq > R.start =>
            \A j \in IdsOf[r] : docs[j].seq > docs[id].seq =>
              \E k \in occ(id) : \A m \in occ(j) : m < k
      <4>1. docs[id].seq > R.start =>
              \A j \in IdsOf[r] : docs[j].seq > docs[id].seq =>
                \E k \in Through(R.batch, 1, id) : \A m \in Through(R.batch, 1, j) : m < k
        BY <2>5, <3>1 DEF AppliedFits
      <4> QED BY <2>4, <4>1
    <3> QED BY <3>3, <3>4, <3>5, <3>6
  <2>9. ASSUME R.ignore, docs[id].seq > R.start
        PROVE  StoredStub(R.batch[CHOOSE k \in occ(id) : \A m \in occ(id) : m <= k], docs[id].seq)
                 = docs[id]
    <3>1. PICK i \in occ(id) :
            (\A m \in occ(id) : m <= i) /\ docs[id] = StoredStub(R.batch[i], docs[id].seq)
      BY <2>8, <2>9
    <3>2. \A k \in occ(id) : (\A m \in occ(id) : m <= k) => k = i
      BY <2>7, <3>1
    <3>3. (CHOOSE k \in occ(id) : \A m \in occ(id) : m <= k) = i
      BY <3>1, <3>2
    <3> QED BY <3>1, <3>3
  <2>10. ASSUME ~R.ignore
         PROVE  StoredStub(R.batch[CHOOSE k \in occ(id) : \A m \in occ(id) : m >= k], docs[id].seq)
                  = docs[id]
    <3>1. PICK i \in occ(id) :
            (\A m \in occ(id) : m >= i) /\ docs[id] = StoredStub(R.batch[i], docs[id].seq)
      BY <2>8, <2>10
    <3>2. \A k \in occ(id) : (\A m \in occ(id) : m >= k) => k = i
      BY <2>7, <3>1
    <3>3. (CHOOSE k \in occ(id) : \A m \in occ(id) : m >= k) = i
      BY <3>1, <3>2
    <3> QED BY <3>1, <3>3
  <2> QED BY <2>p, <2>i, <2>6, <2>8, <2>9, <2>10 DEF occ
<1> QED BY <1>1, ImportInductive, PTL
=============================================================================
