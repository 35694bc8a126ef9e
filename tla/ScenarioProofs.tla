--------------------------- MODULE ScenarioProofs ---------------------------
(***************************************************************************)
(* Proofs about Scenario.                                                  *)
(*                                                                         *)
(* The inductive invariant FlowInv says what a request under way may rely  *)
(* on: the state it remembers comes from a read no older than its match    *)
(* (DocInv, PickInv), the CAS it holds names a document in the state its   *)
(* stub requires for as long as nobody writes (CasInv), and a write that   *)
(* has landed is one step of the machine (LandInv).                        *)
(*                                                                         *)
(* What a mock request is answered with, and when its transition may be    *)
(* dropped, rest on its memo.  LossOf: what it remembers of a scenario is  *)
(* the scenario's state until somebody writes it, so a gate that no longer *)
(* holds, or a CAS that no longer matches, is somebody else's doing.       *)
(* WorldOf: what it remembers is a state the scenario had while the        *)
(* request was matched, and rules out every candidate it has passed over.  *)
(*                                                                         *)
(* What a reset leaves behind rests on what a bulk read can miss.          *)
(* RestartInv: a document that the reset knew is in being until it has     *)
(* been in Started, and then the disk has it by the time the scan gets     *)
(* there.                                                                  *)
(***************************************************************************)
EXTENDS Scenario, TLAPS

(* A candidate of a request is a stub. *)
LEMMA CandidateType ==
  ASSUME NEW r \in Requests, NEW i \in DOMAIN Candidates[r]
  PROVE  Candidates[r][i] \in Stub
<1>1. Candidates[r] \in Seq(Stub)
  BY ScenarioAssumption
<1> QED BY <1>1

(* What the stubs of a scenario mention are states. *)
LEMMA PossibleType ==
  ASSUME NEW n \in Names
  PROVE  Possible(n) \subseteq States
<1>1. Stubs \subseteq Stub
  BY CandidateType DEF Stubs
<1>2. ASSUME NEW s \in Mentioned(n) PROVE s \in States \cup {None}
  BY <1>1, <1>2 DEF Mentioned, Stub
<1> QED BY <1>2, ScenarioAssumption DEF Possible

(* The records clients and resets start from have their shapes. *)
LEMMA IdleTypes == IdleReq \in ReqState /\ IdleReset \in ResetState
<1>1. [n \in Names |-> None] \in [Names -> States \cup {None}]
  OBVIOUS
<1>2. [n \in Names |-> 0] \in [Names -> Nat]
  OBVIOUS
<1> QED BY <1>1, <1>2, ScenarioAssumption
        DEF IdleReq, IdleReset, ReqState, ResetState, Pcs

(* The store starts well typed, and so does everybody. *)
LEMMA InitType == Init => TypeOK
BY IdleTypes, ScenarioAssumption DEF Init, TypeOK, Absent, Document

(* A write keeps the shape of what it changes. *)
LEMMA WriteType ==
  ASSUME TypeOK, NEW n \in Names, NEW d \in Document, Write(n, d)
  PROVE  /\ doc' \in [Names -> Document]
         /\ ver' \in [Names -> Nat]
         /\ during' \in [Requests \cup Resets -> [Names -> SUBSET States]]
BY DEF TypeOK, Write, Document

(* A client's write, and the record it leaves, have their shapes. *)
LEMMA PutType ==
  ASSUME TypeOK, NEW r \in Clients, NEW n \in Names, NEW s \in States,
         Put(r, n, s), UNCHANGED faults
  PROVE  TypeOK'
<1> DEFINE d == [state |-> s, cas |-> ver[n] + 1]
<1>1. d \in Document /\ Write(n, d)
  BY DEF TypeOK, Document, Put
<1> HIDE DEF d
<1>2. /\ doc' \in [Names -> Document]
      /\ ver' \in [Names -> Nat]
      /\ during' \in [Requests \cup Resets -> [Names -> SUBSET States]]
  BY <1>1, WriteType
<1>3. req' \in [Clients -> ReqState]
  <2>1. req[r] \in ReqState /\ ver[n] + 1 \in Nat
    BY DEF TypeOK
  <2>2. [req[r] EXCEPT !.pc = "note", !.name = n, !.landed = ver[n] + 1] \in ReqState
    BY <2>1 DEF ReqState, Pcs
  <2> QED BY <2>2 DEF TypeOK, Put, Set
<1> QED BY <1>2, <1>3 DEF TypeOK, Put

(* What a candidate under consideration is. *)
LEMMA MatchingCandidate ==
  ASSUME TypeOK, NEW r \in Requests, Matching(r)
  PROVE  req[r].at \in DOMAIN Candidates[r] /\ Candidate(r) \in Stub
<1>1. req[r].at \in Nat \ {0} /\ Candidates[r] \in Seq(Stub)
  BY ScenarioAssumption DEF TypeOK, ReqState, Clients
<1> QED BY <1>1, CandidateType DEF Matching, Candidate

(* A step that only replaces one client's record, and perhaps what it has read,
   keeps every shape. *)
LEMMA SetType ==
  ASSUME TypeOK, NEW r \in Clients, NEW rec \in ReqState, Set(r, rec),
         UNCHANGED <<stored, reset, during>>, faults' \in Nat,
         readAt' \in [Requests -> [Names -> Nat]]
  PROVE  TypeOK'
BY DEF TypeOK, Set, stored

(* Being matched keeps every shape. *)
LEMMA MatchType ==
  ASSUME TypeOK, NEW r \in Requests,
         \/ Arrive(r) \/ ReadState(r) \/ ReadFails(r) \/ PassOver(r)
         \/ Choose(r) \/ Unmatched(r)
  PROVE  TypeOK'
<1> r \in Clients
  BY DEF Clients
<1>0. req[r] \in ReqState /\ req[r].at + 1 \in Nat \ {0}
  BY DEF TypeOK, ReqState
<1>1. CASE Arrive(r)
  <2>1. [req[r] EXCEPT !.pc = "match"] \in ReqState
    BY <1>0 DEF ReqState, Pcs
  <2>2. during' \in [Requests \cup Resets -> [Names -> SUBSET States]]
    BY <1>1 DEF Arrive, Watch, TypeOK, Document
  <2> QED BY <1>1, <2>1, <2>2 DEF Arrive, Set, TypeOK, stored
<1>2. CASE ReadState(r)
  <2> DEFINE n == Candidate(r).scenario
             rec == [req[r] EXCEPT !.memo[n] = doc[n].state]
  <2>1. n \in Names /\ doc[n].state \in States
    BY <1>2, MatchingCandidate DEF ReadState, TypeOK, Document, Stub
  <2>2. [req[r].memo EXCEPT ![n] = doc[n].state] \in [Names -> States \cup {None}]
    BY <2>1, <1>0 DEF ReqState
  <2>3. rec \in ReqState
    BY <2>2, <1>0 DEF ReqState
  <2>4. readAt' \in [Requests -> [Names -> Nat]]
    BY <1>2, <2>1 DEF ReadState, TypeOK
  <2>5. Set(r, rec) /\ UNCHANGED <<stored, reset, during>> /\ faults' \in Nat
    BY <1>2 DEF ReadState, TypeOK
  <2> HIDE DEF rec
  <2> QED BY <2>3, <2>4, <2>5, SetType
<1>3. CASE ReadFails(r)
  <2>1. [req[r] EXCEPT !.failed = TRUE, !.at = @ + 1] \in ReqState
    BY <1>0 DEF ReqState
  <2> QED BY <1>3, <2>1, SetType DEF ReadFails, Fault, history, TypeOK
<1>4. CASE PassOver(r)
  <2>1. [req[r] EXCEPT !.at = @ + 1] \in ReqState
    BY <1>0 DEF ReqState
  <2> QED BY <1>4, <2>1, SetType DEF PassOver, history, TypeOK
<1>5. CASE Choose(r)
  <2> DEFINE answer == IF req[r].failed THEN "unavailable" ELSE "served"
             pc == IF req[r].failed \/ Candidate(r).new = None THEN "done"
                   ELSE IF Candidate(r).required = None THEN "upsert" ELSE "get"
             rec == [req[r] EXCEPT !.answer = answer, !.pc = pc]
  <2>1. /\ answer \in {"pending", "served", "unmatched", "unavailable"}
        /\ pc \in Pcs
    BY DEF Pcs
  <2>2. Set(r, rec)
    BY <1>5 DEF Choose
  <2> HIDE DEF answer, pc
  <2>3. rec \in ReqState
    BY <1>0, <2>1 DEF ReqState
  <2> HIDE DEF rec
  <2> QED BY <1>5, <2>2, <2>3, SetType DEF Choose, history, TypeOK
<1>6. CASE Unmatched(r)
  <2> DEFINE answer == IF req[r].failed THEN "unavailable" ELSE "unmatched"
             rec == [req[r] EXCEPT !.pc = "done", !.answer = answer]
  <2>1. answer \in {"pending", "served", "unmatched", "unavailable"}
    OBVIOUS
  <2>2. Set(r, rec)
    BY <1>6 DEF Unmatched
  <2> HIDE DEF answer
  <2>3. rec \in ReqState
    BY <1>0, <2>1 DEF ReqState, Pcs
  <2> HIDE DEF rec
  <2> QED BY <1>6, <2>2, <2>3, SetType DEF Unmatched, history, TypeOK
<1> QED BY <1>1, <1>2, <1>3, <1>4, <1>5, <1>6

(* So does a transition, whatever becomes of it. *)
LEMMA TransitionType ==
  ASSUME TypeOK, NEW r \in Requests,
         \/ Get(r) \/ Swap(r) \/ SwapLost(r) \/ Upsert(r),
         Candidate(r) \in Stub, Candidate(r).new # None
  PROVE  TypeOK'
<1> r \in Clients
  BY DEF Clients
<1> DEFINE n == Candidate(r).scenario
<1>0. /\ req[r] \in ReqState /\ n \in Names /\ Candidate(r).new \in States
      /\ doc[n].cas \in Nat /\ doc \in [Names -> Document]
  BY DEF TypeOK, Stub, Document
<1>1. CASE Get(r)
  <2>1. [req[r] EXCEPT !.pc = "put", !.cas = doc[n].cas] \in ReqState
    BY <1>0 DEF ReqState, Pcs
  <2>2. [req[r] EXCEPT !.pc = "done"] \in ReqState
    BY <1>0 DEF ReqState, Pcs
  <2> QED BY <1>1, <2>1, <2>2, SetType DEF Get, history, TypeOK
<1>2. CASE Swap(r)
  BY <1>2, <1>0, PutType DEF Swap
<1>3. CASE Upsert(r)
  BY <1>3, <1>0, PutType DEF Upsert
<1>4. CASE SwapLost(r)
  <2>1. [req[r] EXCEPT !.pc = "done"] \in ReqState
    BY <1>0 DEF ReqState, Pcs
  <2>2. ASSUME req[r].tries # 1
        PROVE  [req[r] EXCEPT !.pc = "get", !.tries = @ - 1] \in ReqState
    <3>1. req[r].tries - 1 \in Nat \ {0}
      BY <1>0, <2>2 DEF ReqState
    <3> QED BY <1>0, <3>1 DEF ReqState, Pcs
  <2> QED BY <1>4, <2>1, <2>2, SetType DEF SwapLost, history, TypeOK
<1> QED BY <1>1, <1>2, <1>3, <1>4

(* A noted position is a position. *)
LEMMA NoteType ==
  ASSUME TypeOK, NEW p \in Pods, NEW n \in Names, NEW seq \in Nat, Note(p, n, seq)
  PROVE  tokens' \in [Pods -> [Names -> Nat]]
<1>1. tokens[p][n] \in Nat
  BY DEF TypeOK
<1> DEFINE new == IF seq > tokens[p][n] THEN seq ELSE tokens[p][n]
<1>2. tokens' = [tokens EXCEPT ![p][n] = new] /\ new \in Nat
  BY <1>1 DEF Note
<1> HIDE DEF new
<1> QED BY <1>2 DEF TypeOK

(* So does what ends a client's call, and the admin state write. *)
LEMMA ClientType ==
  ASSUME TypeOK, NEW r \in Clients, NoteToken(r) \/ CallFails(r) \/ Unheard(r),
         req[r].pc = "note" => req[r].name \in Names
  PROVE  TypeOK'
<1>0. req[r] \in ReqState /\ PodOf[r] \in Pods
  BY ScenarioAssumption DEF TypeOK, Clients
<1>1. [req[r] EXCEPT !.pc = "done"] \in ReqState
  BY <1>0 DEF ReqState, Pcs
<1>2. [req[r] EXCEPT !.pc = "done", !.failed = TRUE] \in ReqState
  BY <1>0 DEF ReqState, Pcs
<1>3. CASE NoteToken(r)
  <2>1. tokens' \in [Pods -> [Names -> Nat]]
    <3>1. req[r].landed \in Nat /\ req[r].name \in Names
      BY <1>3, <1>0 DEF ReqState, NoteToken
    <3> QED BY <1>3, <3>1, <1>0, NoteType DEF NoteToken
  <2> QED BY <1>3, <1>1, <2>1 DEF NoteToken, Set, TypeOK, history
<1>4. CASE CallFails(r)
  BY <1>4, <1>2, SetType DEF CallFails, Fault, history, TypeOK
<1>5. CASE Unheard(r)
  BY <1>5, <1>2, SetType DEF Unheard, Fault, history, TypeOK
<1> QED BY <1>3, <1>4, <1>5

LEMMA SetStateType ==
  ASSUME TypeOK, NEW r \in Setters, SetState(r)
  PROVE  TypeOK'
BY PossibleType, PutType DEF SetState, Clients

(* A step that only replaces one reset's record keeps every shape. *)
LEMMA SetResetType ==
  ASSUME TypeOK, NEW x \in Resets, NEW rec \in ResetState, SetReset(x, rec),
         UNCHANGED <<stored, req, readAt>>, faults' \in Nat,
         during' \in [Requests \cup Resets -> [Names -> SUBSET States]]
  PROVE  TypeOK'
BY DEF TypeOK, SetReset, stored

(* And so does every step of a reset. *)
LEMMA ResetType ==
  ASSUME TypeOK, NEW x \in Resets,
         \/ BeginReset(x) \/ ScanFails(x) \/ EndReset(x)
         \/ \E n \in Names : ScanKey(x, n) \/ RemoveKey(x, n) \/ RemoveFails(x, n)
  PROVE  TypeOK'
<1>0. reset[x] \in ResetState
  BY DEF TypeOK
<1>1. CASE BeginReset(x)
  <2> DEFINE noted == tokens[PodOf[x]]
             known == {n \in Names : ver[n] \in {noted[n], disk[n].seq}}
             rec == [reset[x] EXCEPT !.pc = "scan", !.need = noted, !.left = Names,
                                     !.known = known]
  <2>1. noted \in [Names -> Nat] /\ known \in SUBSET Names
    BY ScenarioAssumption DEF TypeOK
  <2>2. SetReset(x, rec)
    BY <1>1 DEF BeginReset
  <2>3. during' \in [Requests \cup Resets -> [Names -> SUBSET States]]
    BY <1>1 DEF BeginReset, Watch, TypeOK, Document
  <2> HIDE DEF noted, known
  <2>4. rec \in ResetState
    BY <1>0, <2>1 DEF ResetState
  <2> HIDE DEF rec
  <2> QED BY <1>1, <2>2, <2>3, <2>4, SetResetType DEF BeginReset, TypeOK
<1>2. CASE ScanFails(x)
  <2>1. [reset[x] EXCEPT !.left = {}, !.keys = {}, !.failed = TRUE] \in ResetState
    BY <1>0 DEF ResetState
  <2> QED BY <1>2, <2>1, SetResetType DEF ScanFails, Fault, history, TypeOK
<1>3. CASE EndReset(x)
  <2>1. [reset[x] EXCEPT !.pc = "done"] \in ResetState
    BY <1>0 DEF ResetState
  <2> QED BY <1>3, <2>1, SetResetType DEF EndReset, history, TypeOK
<1>4. ASSUME NEW n \in Names, ScanKey(x, n) PROVE TypeOK'
  <2> DEFINE keys == IF disk[n].there THEN reset[x].keys \cup {n} ELSE reset[x].keys
  <2>1. keys \in SUBSET Names
    BY <1>0 DEF ResetState
  <2>2. SetReset(x, [reset[x] EXCEPT !.left = @ \ {n}, !.keys = keys])
    BY <1>4 DEF ScanKey
  <2> HIDE DEF keys
  <2>3. [reset[x] EXCEPT !.left = @ \ {n}, !.keys = keys] \in ResetState
    BY <1>0, <2>1 DEF ResetState
  <2> QED BY <1>4, <2>2, <2>3, SetResetType DEF ScanKey, history, TypeOK
<1>5. ASSUME NEW n \in Names, RemoveKey(x, n) PROVE TypeOK'
  <2>1. [reset[x] EXCEPT !.keys = @ \ {n}] \in ResetState
    BY <1>0 DEF ResetState
  <2>2. reset' \in [Resets -> ResetState]
    BY <1>5, <2>1 DEF RemoveKey, SetReset, TypeOK
  <2>3. CASE doc[n].cas # 0
    <3>1. Absent \in Document /\ Write(n, Absent)
      BY <1>5, <2>3, ScenarioAssumption DEF RemoveKey, Absent, Document
    <3>2. tokens' \in [Pods -> [Names -> Nat]]
      <4>1. PodOf[x] \in Pods /\ ver[n] + 1 \in Nat
        BY ScenarioAssumption DEF TypeOK
      <4> QED BY <1>5, <2>3, <4>1, NoteType DEF RemoveKey
    <3> QED BY <1>5, <2>2, <2>3, <3>1, <3>2, WriteType DEF RemoveKey, TypeOK
  <2>4. CASE doc[n].cas = 0
    BY <1>5, <2>2, <2>4 DEF RemoveKey, TypeOK, stored
  <2> QED BY <2>3, <2>4
<1>6. ASSUME NEW n \in Names, RemoveFails(x, n) PROVE TypeOK'
  <2> DEFINE rec == [reset[x] EXCEPT !.keys = @ \ {n}, !.failed = TRUE]
  <2>1. rec \in ResetState
    BY <1>0 DEF ResetState
  <2>2. SetReset(x, rec) /\ UNCHANGED <<stored, req, readAt, during>>
    BY <1>6 DEF RemoveFails, history
  <2>4. faults' \in Nat
    <3>1. faults \in Nat
      BY DEF TypeOK
    <3>2. faults' = faults + 1
      BY <1>6 DEF RemoveFails, Fault
    <3> QED BY <3>1, <3>2
  <2> HIDE DEF rec
  <2>3. during' \in [Requests \cup Resets -> [Names -> SUBSET States]]
    BY <2>2 DEF TypeOK
  <2> QED BY <2>1, <2>2, <2>3, <2>4, SetResetType
<1> QED BY <1>1, <1>2, <1>3, <1>4, <1>5, <1>6

-----------------------------------------------------------------------------
(* An absent document is in Started, and tokens do not run ahead.          *)
DocInv == \A n \in Names : /\ doc[n].cas <= ver[n]
                           /\ doc[n].cas = 0 => doc[n].state = Started

\* What a client has landed, and what it is about to note.
LandInv ==
  \A r \in Clients :
    /\ req[r].pc \notin {"note", "done"} => req[r].landed = 0
    /\ req[r].pc = "note" => req[r].landed # 0 /\ req[r].name \in Names

\* A request under way has picked a stub that names a new state; a setter has
\* no stub.
PickInv ==
  /\ \A r \in Setters : req[r].pc \in {"idle", "note", "done"}
  /\ \A r \in Requests :
       /\ req[r].pc \in {"idle", "match"} => req[r].answer = "pending"
       /\ req[r].pc \in {"get", "put", "upsert"} =>
            req[r].at \in DOMAIN Candidates[r] /\ Candidate(r).new # None
       /\ req[r].pc \in {"get", "put"} => Candidate(r).required # None
       /\ req[r].pc = "upsert" => Candidate(r).required = None

\* The CAS a request holds is not from the future, and if it is still the
\* document's the gate still holds.
CasInv ==
  \A r \in Requests : req[r].pc = "put" =>
    LET n == Candidate(r).scenario IN
      /\ req[r].cas <= ver[n]
      /\ req[r].cas = 0 => Candidate(r).required = Started
      /\ doc[n].cas = req[r].cas => doc[n].state = Candidate(r).required

FlowInv == TypeOK /\ DocInv /\ LandInv /\ PickInv /\ CasInv

(* Nobody has done anything yet. *)
LEMMA InitFlowInv == Init => FlowInv
<1> SUFFICES ASSUME Init PROVE FlowInv
  OBVIOUS
<1>1. TypeOK
  BY InitType
<1>2. \A r \in Clients : req[r] = IdleReq
  BY DEF Init
<1>3. DocInv
  BY DEF Init, DocInv, Absent
<1>4. LandInv /\ PickInv /\ CasInv
  BY <1>2 DEF LandInv, PickInv, CasInv, IdleReq, Clients
<1> QED BY <1>1, <1>3, <1>4 DEF FlowInv

(* A client's record is what the step has put there. *)
LEMMA SetRecord ==
  ASSUME TypeOK, NEW r \in Clients, NEW rec, Set(r, rec)
  PROVE  req'[r] = rec /\ \A o \in Clients : o # r => req'[o] = req[o]
BY DEF TypeOK, Set

(* A request's candidate under consideration depends on its record only. *)
LEMMA CandidateSame ==
  ASSUME NEW r \in Requests, req'[r].at = req[r].at
  PROVE  Candidate(r)' = Candidate(r)
BY DEF Candidate

(* A step of one client that leaves the documents alone keeps the invariant if
   it keeps that client's part of it. *)
LEMMA QuietStep ==
  ASSUME FlowInv, TypeOK', NEW r \in Clients, NEW rec, Set(r, rec),
         UNCHANGED <<doc, ver>>,
         rec.pc \notin {"note", "done"} => rec.landed = 0,
         rec.pc = "note" => rec.landed # 0 /\ rec.name \in Names,
         r \in Setters => rec.pc \in {"idle", "note", "done"},
         r \in Requests =>
           /\ rec.pc \in {"idle", "match"} => rec.answer = "pending"
           /\ rec.pc \in {"get", "put", "upsert"} =>
                rec.at \in DOMAIN Candidates[r] /\ Candidates[r][rec.at].new # None
           /\ rec.pc \in {"get", "put"} => Candidates[r][rec.at].required # None
           /\ rec.pc = "upsert" => Candidates[r][rec.at].required = None
           /\ rec.pc = "put" =>
                LET n == Candidates[r][rec.at].scenario IN
                  /\ rec.cas <= ver[n]
                  /\ rec.cas = 0 => Candidates[r][rec.at].required = Started
                  /\ doc[n].cas = rec.cas => doc[n].state = Candidates[r][rec.at].required
  PROVE  FlowInv'
<1>1. req'[r] = rec /\ \A o \in Clients : o # r => req'[o] = req[o]
  BY SetRecord DEF FlowInv
<1>2. DocInv'
  BY DEF FlowInv, DocInv
<1>3. LandInv'
  BY <1>1 DEF FlowInv, LandInv
<1>4. PickInv'
  BY <1>1 DEF FlowInv, PickInv, Clients, Candidate
<1>5. CasInv'
  <2> SUFFICES ASSUME NEW o \in Requests, req'[o].pc = "put"
               PROVE  LET n == Candidate(o)'.scenario IN
                        /\ req'[o].cas <= ver[n]
                        /\ req'[o].cas = 0 => Candidate(o)'.required = Started
                        /\ doc[n].cas = req'[o].cas => doc[n].state = Candidate(o)'.required
    BY DEF CasInv
  <2>1. CASE o = r
    BY <2>1, <1>1 DEF Candidate
  <2>2. CASE o # r
    BY <2>2, <1>1 DEF Candidate, Clients, FlowInv, CasInv
  <2> QED BY <2>1, <2>2
<1> QED BY <1>2, <1>3, <1>4, <1>5 DEF FlowInv

(* A write to one document keeps the documents' part of the invariant, and the
   part of every client whose record it leaves alone. *)
LEMMA WriteKeeps ==
  ASSUME FlowInv, NEW n \in Names, NEW d \in Document, Write(n, d),
         \/ d.cas = ver[n] + 1
         \/ d.cas = 0 /\ d.state = Started /\ doc[n].cas # 0,
         NEW o \in Requests, req'[o] = req[o], req[o].pc = "put"
  PROVE  LET m == Candidate(o)'.scenario IN
           /\ req'[o].cas <= ver'[m]
           /\ req'[o].cas = 0 => Candidate(o)'.required = Started
           /\ doc'[m].cas = req'[o].cas => doc'[m].state = Candidate(o)'.required
<1> DEFINE m == Candidate(o).scenario
<1>1. Candidate(o)' = Candidate(o)
  BY CandidateSame
<1>2. /\ req[o].cas <= ver[m]
      /\ req[o].cas = 0 => Candidate(o).required = Started
      /\ doc[m].cas = req[o].cas => doc[m].state = Candidate(o).required
  BY DEF FlowInv, CasInv
<1>3. m \in Names
  BY CandidateType DEF FlowInv, PickInv, Candidate, Stub
<1>4. /\ ver[m] \in Nat /\ req[o].cas \in Nat
      /\ doc' = [doc EXCEPT ![n] = d] /\ ver' = [ver EXCEPT ![n] = @ + 1]
      /\ doc \in [Names -> Document] /\ ver \in [Names -> Nat]
  BY <1>3 DEF FlowInv, TypeOK, ReqState, Clients, Write
<1>5. CASE m # n
  BY <1>1, <1>2, <1>3, <1>4, <1>5
<1>6. CASE m = n
  <2>1. ver'[m] = ver[m] + 1 /\ doc'[m] = d
    BY <1>3, <1>4, <1>6
  <2> HIDE DEF m
  <2>2. req[o].cas <= ver'[m] /\ req[o].cas # ver[m] + 1
    BY <2>1, <1>2, <1>4
  <2>3. doc'[m].cas = req[o].cas => doc'[m].state = Candidate(o).required
    BY <2>1, <2>2, <1>2, <1>6
  <2> QED BY <1>1, <1>2, <2>2, <2>3 DEF m
<1> QED BY <1>5, <1>6

LEMMA WriteDocInv ==
  ASSUME FlowInv, NEW n \in Names, NEW d \in Document, Write(n, d),
         d.cas = ver[n] + 1 \/ (d.cas = 0 /\ d.state = Started)
  PROVE  DocInv'
<1> SUFFICES ASSUME NEW m \in Names
             PROVE  doc'[m].cas <= ver'[m] /\ (doc'[m].cas = 0 => doc'[m].state = Started)
  BY DEF DocInv
<1>1. /\ doc \in [Names -> Document] /\ ver \in [Names -> Nat]
      /\ doc[m].cas \in Nat
      /\ doc' = [doc EXCEPT ![n] = d] /\ ver' = [ver EXCEPT ![n] = @ + 1]
      /\ doc[m].cas <= ver[m] /\ (doc[m].cas = 0 => doc[m].state = Started)
  BY DEF FlowInv, TypeOK, Write, DocInv, Document
<1> QED BY <1>1

(* A client's write keeps the invariant. *)
LEMMA PutKeeps ==
  ASSUME FlowInv, TypeOK', NEW r \in Clients, NEW n \in Names, NEW s \in States,
         Put(r, n, s), req[r].pc \notin {"match"}, r \in Requests => req[r].pc # "idle"
  PROVE  FlowInv'
<1> DEFINE d == [state |-> s, cas |-> ver[n] + 1]
           rec == [req[r] EXCEPT !.pc = "note", !.name = n, !.landed = ver[n] + 1]
<1>1. Write(n, d) /\ Set(r, rec)
  BY DEF Put
<1>2. d \in Document /\ d.cas = ver[n] + 1 /\ ver[n] \in Nat /\ req[r] \in ReqState
  BY DEF FlowInv, TypeOK, Document
<1>3. rec.pc = "note" /\ rec.landed = ver[n] + 1 /\ rec.name = n
  BY <1>2 DEF ReqState
<1> HIDE DEF d, rec
<1>4. req'[r] = rec /\ \A o \in Clients : o # r => req'[o] = req[o]
  BY <1>1, SetRecord DEF FlowInv
<1>5. DocInv'
  BY <1>1, <1>2, WriteDocInv
<1>6. LandInv'
  BY <1>2, <1>3, <1>4 DEF FlowInv, LandInv
<1>7. PickInv'
  BY <1>3, <1>4 DEF FlowInv, PickInv, Clients, Candidate
<1>8. CasInv'
  <2> SUFFICES ASSUME NEW o \in Requests, req'[o].pc = "put"
               PROVE  LET m == Candidate(o)'.scenario IN
                        /\ req'[o].cas <= ver'[m]
                        /\ req'[o].cas = 0 => Candidate(o)'.required = Started
                        /\ doc'[m].cas = req'[o].cas => doc'[m].state = Candidate(o)'.required
    BY DEF CasInv
  <2>1. o # r
    BY <1>3, <1>4
  <2>2. req'[o] = req[o]
    BY <2>1, <1>4 DEF Clients
  <2> QED BY <2>2, <1>1, <1>2, WriteKeeps
<1> QED BY <1>5, <1>6, <1>7, <1>8 DEF FlowInv

(* What the candidate of a transition is. *)
LEMMA PickedStub ==
  ASSUME FlowInv, NEW r \in Requests, req[r].pc \in {"get", "put", "upsert"}
  PROVE  /\ req[r].at \in DOMAIN Candidates[r]
         /\ Candidate(r) = Candidates[r][req[r].at]
         /\ Candidate(r) \in Stub
         /\ Candidate(r).new \in States
         /\ Candidate(r).new # None
<1>1. req[r].at \in DOMAIN Candidates[r] /\ Candidate(r).new # None
  BY DEF FlowInv, PickInv
<1>2. Candidate(r) \in Stub
  BY <1>1, CandidateType DEF Candidate
<1> QED BY <1>1, <1>2 DEF Candidate, Stub

(* Every step keeps every shape. *)
LEMMA StepType ==
  ASSUME FlowInv, [Next]_vars PROVE TypeOK'
<1> TypeOK
  BY DEF FlowInv
<1>1. ASSUME NEW n \in Names, Persist(n) PROVE TypeOK'
  BY <1>1 DEF Persist, TypeOK, history
<1>2. ASSUME NEW r \in Requests,
             \/ Arrive(r) \/ ReadState(r) \/ ReadFails(r) \/ PassOver(r)
             \/ Choose(r) \/ Unmatched(r)
      PROVE  TypeOK'
  BY <1>2, MatchType
<1>3. ASSUME NEW r \in Requests, Get(r) \/ Swap(r) \/ SwapLost(r) \/ Upsert(r)
      PROVE  TypeOK'
  <2>1. req[r].pc \in {"get", "put", "upsert"}
    BY <1>3 DEF Get, Swap, SwapLost, Upsert
  <2> QED BY <1>3, <2>1, PickedStub, TransitionType
<1>4. ASSUME NEW r \in Clients, NoteToken(r) \/ CallFails(r) \/ Unheard(r)
      PROVE  TypeOK'
  BY <1>4, ClientType DEF FlowInv, LandInv
<1>5. ASSUME NEW x \in Resets,
             \/ BeginReset(x) \/ ScanFails(x) \/ EndReset(x)
             \/ \E n \in Names : ScanKey(x, n) \/ RemoveKey(x, n) \/ RemoveFails(x, n)
      PROVE  TypeOK'
  BY <1>5, ResetType
<1>6. CASE UNCHANGED vars
  BY <1>6 DEF TypeOK, vars
<1> QED BY <1>1, <1>2, <1>3, <1>4, <1>5, <1>6, SetStateType DEF Next

(* Matching and what ends a client's call leave the documents alone. *)
LEMMA MatchFlow ==
  ASSUME FlowInv, TypeOK', NEW r \in Requests,
         \/ Arrive(r) \/ ReadState(r) \/ ReadFails(r) \/ PassOver(r)
         \/ Choose(r) \/ Unmatched(r)
  PROVE  FlowInv'
<1> r \in Clients /\ r \notin Setters
  BY ScenarioAssumption DEF Clients
<1> TypeOK
  BY DEF FlowInv
<1>0. /\ req[r] \in ReqState
      /\ req[r].pc \in {"idle", "match"}
      /\ req[r].landed = 0 /\ req[r].answer = "pending"
  BY DEF FlowInv, TypeOK, LandInv, PickInv,
         Arrive, ReadState, ReadFails, PassOver, Choose, Unmatched, Matching
<1>1. CASE Arrive(r)
  <2> DEFINE rec == [req[r] EXCEPT !.pc = "match"]
  <2>1. rec.pc = "match" /\ rec.landed = 0 /\ rec.answer = "pending"
    BY <1>0 DEF ReqState
  <2>2. Set(r, rec) /\ UNCHANGED <<doc, ver>>
    BY <1>1 DEF Arrive, stored
  <2> HIDE DEF rec
  <2> QED BY <2>1, <2>2, QuietStep
<1>2. CASE ReadState(r)
  <2> DEFINE rec == [req[r] EXCEPT !.memo[Candidate(r).scenario] = doc[Candidate(r).scenario].state]
  <2>1. rec.pc = "match" /\ rec.landed = 0 /\ rec.answer = "pending"
    BY <1>0, <1>2 DEF ReqState, ReadState, Matching
  <2>2. Set(r, rec) /\ UNCHANGED <<doc, ver>>
    BY <1>2 DEF ReadState, stored
  <2> HIDE DEF rec
  <2> QED BY <2>1, <2>2, QuietStep
<1>3. CASE ReadFails(r)
  <2> DEFINE rec == [req[r] EXCEPT !.failed = TRUE, !.at = @ + 1]
  <2>1. rec.pc = "match" /\ rec.landed = 0 /\ rec.answer = "pending"
    BY <1>0, <1>3 DEF ReqState, ReadFails, Matching
  <2>2. Set(r, rec) /\ UNCHANGED <<doc, ver>>
    BY <1>3 DEF ReadFails, stored
  <2> HIDE DEF rec
  <2> QED BY <2>1, <2>2, QuietStep
<1>4. CASE PassOver(r)
  <2> DEFINE rec == [req[r] EXCEPT !.at = @ + 1]
  <2>1. rec.pc = "match" /\ rec.landed = 0 /\ rec.answer = "pending"
    BY <1>0, <1>4 DEF ReqState, PassOver, Matching
  <2>2. Set(r, rec) /\ UNCHANGED <<doc, ver>>
    BY <1>4 DEF PassOver, stored
  <2> HIDE DEF rec
  <2> QED BY <2>1, <2>2, QuietStep
<1>5. CASE Choose(r)
  <2> DEFINE answer == IF req[r].failed THEN "unavailable" ELSE "served"
             pc == IF req[r].failed \/ Candidate(r).new = None THEN "done"
                   ELSE IF Candidate(r).required = None THEN "upsert" ELSE "get"
             rec == [req[r] EXCEPT !.answer = answer, !.pc = pc]
  <2>1. Set(r, rec) /\ UNCHANGED <<doc, ver>>
    BY <1>5 DEF Choose, stored
  <2>2. req[r].at \in DOMAIN Candidates[r]
    BY <1>5, MatchingCandidate DEF Choose
  <2>3. /\ pc \in {"done", "upsert", "get"}
        /\ pc # "done" => Candidate(r).new # None
        /\ pc = "upsert" => Candidate(r).required = None
        /\ pc = "get" => Candidate(r).required # None
    OBVIOUS
  <2> HIDE DEF answer, pc
  <2>4. rec.pc = pc /\ rec.landed = 0 /\ rec.at = req[r].at
    BY <1>0 DEF ReqState
  <2> HIDE DEF rec
  <2> QED BY <2>1, <2>2, <2>3, <2>4, QuietStep DEF Candidate
<1>6. CASE Unmatched(r)
  <2> DEFINE answer == IF req[r].failed THEN "unavailable" ELSE "unmatched"
             rec == [req[r] EXCEPT !.pc = "done", !.answer = answer]
  <2>1. Set(r, rec) /\ UNCHANGED <<doc, ver>>
    BY <1>6 DEF Unmatched, stored
  <2> HIDE DEF answer
  <2>2. rec.pc = "done"
    BY <1>0 DEF ReqState
  <2> HIDE DEF rec
  <2> QED BY <2>1, <2>2, QuietStep
<1> QED BY <1>1, <1>2, <1>3, <1>4, <1>5, <1>6

(* A transition keeps the invariant: the read of a round establishes what the
   CAS is worth, and a write that lands answers the others'. *)
LEMMA TransitionFlow ==
  ASSUME FlowInv, TypeOK', NEW r \in Requests,
         Get(r) \/ Swap(r) \/ SwapLost(r) \/ Upsert(r)
  PROVE  FlowInv'
<1> r \in Clients /\ r \notin Setters
  BY ScenarioAssumption DEF Clients
<1> TypeOK
  BY DEF FlowInv
<1> DEFINE n == Candidate(r).scenario
<1>0. /\ req[r] \in ReqState
      /\ req[r].pc \in {"get", "put", "upsert"}
      /\ req[r].landed = 0
  BY DEF FlowInv, TypeOK, LandInv, Get, Swap, SwapLost, Upsert
<1>00. /\ req[r].at \in DOMAIN Candidates[r]
       /\ Candidate(r) = Candidates[r][req[r].at]
       /\ n \in Names /\ Candidate(r).new \in States /\ Candidate(r).new # None
  BY <1>0, PickedStub DEF Stub
<1>1. CASE Get(r)
  <2>0. Candidate(r).required # None
    BY <1>1 DEF Get, FlowInv, PickInv
  <2>1. CASE doc[n].state = Candidate(r).required
    <3> DEFINE rec == [req[r] EXCEPT !.pc = "put", !.cas = doc[n].cas]
    <3>1. Set(r, rec) /\ UNCHANGED <<doc, ver>>
      BY <1>1, <2>1 DEF Get, stored
    <3>2. rec.pc = "put" /\ rec.landed = 0 /\ rec.at = req[r].at /\ rec.cas = doc[n].cas
      BY <1>0 DEF ReqState
    <3>3. doc[n].cas <= ver[n] /\ (doc[n].cas = 0 => doc[n].state = Started)
      BY <1>00 DEF FlowInv, DocInv
    <3> HIDE DEF rec
    <3> QED BY <1>00, <2>0, <2>1, <3>1, <3>2, <3>3, QuietStep
  <2>2. CASE doc[n].state # Candidate(r).required
    <3> DEFINE rec == [req[r] EXCEPT !.pc = "done"]
    <3>1. Set(r, rec) /\ UNCHANGED <<doc, ver>>
      BY <1>1, <2>2 DEF Get, stored
    <3>2. rec.pc = "done"
      BY <1>0 DEF ReqState
    <3> HIDE DEF rec
    <3> QED BY <3>1, <3>2, QuietStep
  <2> QED BY <2>1, <2>2
<1>2. CASE Swap(r)
  BY <1>2, <1>0, <1>00, PutKeeps DEF Swap
<1>3. CASE Upsert(r)
  BY <1>3, <1>0, <1>00, PutKeeps DEF Upsert
<1>4. CASE SwapLost(r)
  <2>0. Candidate(r).required # None /\ UNCHANGED <<doc, ver>>
    BY <1>4 DEF SwapLost, FlowInv, PickInv, stored
  <2>1. ASSUME Set(r, [req[r] EXCEPT !.pc = "done"])
        PROVE  FlowInv'
    <3> DEFINE rec == [req[r] EXCEPT !.pc = "done"]
    <3>1. rec.pc = "done" /\ Set(r, rec)
      BY <1>0, <2>1 DEF ReqState
    <3> HIDE DEF rec
    <3> QED BY <2>0, <3>1, QuietStep
  <2>2. ASSUME Set(r, [req[r] EXCEPT !.pc = "get", !.tries = @ - 1])
        PROVE  FlowInv'
    <3> DEFINE rec == [req[r] EXCEPT !.pc = "get", !.tries = @ - 1]
    <3>1. rec.pc = "get" /\ rec.landed = 0 /\ rec.at = req[r].at /\ Set(r, rec)
      BY <1>0, <2>2 DEF ReqState
    <3> HIDE DEF rec
    <3> QED BY <1>00, <2>0, <3>1, QuietStep
  <2> QED BY <1>4, <2>1, <2>2 DEF SwapLost
<1> QED BY <1>1, <1>2, <1>3, <1>4

(* So do the steps requests and setters share. *)
LEMMA ClientFlow ==
  ASSUME FlowInv, TypeOK', NEW r \in Clients,
         NoteToken(r) \/ CallFails(r) \/ Unheard(r)
  PROVE  FlowInv'
<1> TypeOK
  BY DEF FlowInv
<1>0. req[r] \in ReqState
  BY DEF TypeOK
<1>1. PICK f \in BOOLEAN : Set(r, [req[r] EXCEPT !.pc = "done", !.failed = f])
  <2>1. [req[r] EXCEPT !.pc = "done"] = [req[r] EXCEPT !.pc = "done", !.failed = req[r].failed]
    BY <1>0 DEF ReqState
  <2>2. req[r].failed \in BOOLEAN
    BY <1>0 DEF ReqState
  <2> QED BY <2>1, <2>2 DEF NoteToken, CallFails, Unheard
<1> DEFINE rec == [req[r] EXCEPT !.pc = "done", !.failed = f]
<1>2. rec.pc = "done" /\ Set(r, rec)
  BY <1>0, <1>1 DEF ReqState
<1>3. UNCHANGED <<doc, ver>>
  BY DEF NoteToken, CallFails, Unheard, stored
<1> HIDE DEF rec
<1> QED BY <1>2, <1>3, QuietStep

(* A step that leaves the documents and the clients alone keeps it. *)
LEMMA AsideFlow ==
  ASSUME FlowInv, TypeOK', UNCHANGED <<doc, ver, req>>
  PROVE  FlowInv'
<1>1. \A r \in Requests : Candidate(r)' = Candidate(r)
  BY DEF Candidate
<1>2. DocInv' /\ LandInv'
  BY DEF FlowInv, DocInv, LandInv
<1>3. PickInv'
  BY <1>1 DEF FlowInv, PickInv
<1>4. CasInv'
  BY <1>1 DEF FlowInv, CasInv
<1> QED BY <1>2, <1>3, <1>4 DEF FlowInv

(* A key a reset removes leaves no document that a CAS could name. *)
LEMMA RemoveFlow ==
  ASSUME FlowInv, TypeOK', NEW x \in Resets, NEW n \in Names, RemoveKey(x, n)
  PROVE  FlowInv'
<1> TypeOK
  BY DEF FlowInv
<1>1. CASE doc[n].cas = 0
  BY <1>1, AsideFlow DEF RemoveKey, stored
<1>2. CASE doc[n].cas # 0
  <2>1. Write(n, Absent) /\ UNCHANGED req
    BY <1>2 DEF RemoveKey
  <2>2. Absent \in Document /\ Absent.cas = 0 /\ Absent.state = Started
    BY ScenarioAssumption DEF Absent, Document
  <2>3. DocInv'
    BY <2>1, <2>2, WriteDocInv
  <2>4. LandInv' /\ PickInv'
    BY <2>1 DEF FlowInv, LandInv, PickInv, Candidate
  <2>5. CasInv'
    BY <1>2, <2>1, <2>2, WriteKeeps DEF CasInv
  <2> QED BY <2>3, <2>4, <2>5 DEF FlowInv
<1> QED BY <1>1, <1>2

(* The invariant is inductive. *)
LEMMA FlowInductive == FlowInv /\ [Next]_vars => FlowInv'
<1> SUFFICES ASSUME FlowInv, [Next]_vars PROVE FlowInv'
  OBVIOUS
<1>0. TypeOK'
  BY StepType
<1>1. ASSUME NEW n \in Names, Persist(n) PROVE FlowInv'
  BY <1>0, <1>1, AsideFlow DEF Persist
<1>2. ASSUME NEW r \in Requests,
             \/ Arrive(r) \/ ReadState(r) \/ ReadFails(r) \/ PassOver(r)
             \/ Choose(r) \/ Unmatched(r)
      PROVE  FlowInv'
  BY <1>0, <1>2, MatchFlow
<1>3. ASSUME NEW r \in Requests, Get(r) \/ Swap(r) \/ SwapLost(r) \/ Upsert(r)
      PROVE  FlowInv'
  BY <1>0, <1>3, TransitionFlow
<1>4. ASSUME NEW r \in Setters, SetState(r) PROVE FlowInv'
  <2>1. r \in Clients /\ r \notin Requests /\ req[r].pc = "idle"
    BY <1>4, ScenarioAssumption DEF SetState, Clients
  <2> QED BY <1>0, <1>4, <2>1, PossibleType, PutKeeps DEF SetState
<1>5. ASSUME NEW r \in Clients, NoteToken(r) \/ CallFails(r) \/ Unheard(r)
      PROVE  FlowInv'
  BY <1>0, <1>5, ClientFlow
<1>6. ASSUME NEW x \in Resets, NEW n \in Names, RemoveKey(x, n) PROVE FlowInv'
  BY <1>0, <1>6, RemoveFlow
<1>7. ASSUME NEW x \in Resets,
             \/ BeginReset(x) \/ ScanFails(x) \/ EndReset(x)
             \/ \E n \in Names : ScanKey(x, n) \/ RemoveFails(x, n)
      PROVE  FlowInv'
  BY <1>0, <1>7, AsideFlow
     DEF BeginReset, ScanFails, EndReset, ScanKey, RemoveFails, stored
<1>8. CASE UNCHANGED vars
  BY <1>0, <1>8, AsideFlow DEF vars
<1> QED BY <1>1, <1>2, <1>3, <1>4, <1>5, <1>6, <1>7, <1>8 DEF Next

(* Scenario's type invariant: whatever the requests and whatever fails, every
   document, position and client record keeps its shape. *)
THEOREM ScenarioTypeCorrect == Spec => []TypeOK
<1>1. Init => FlowInv
  BY InitFlowInv
<1>2. FlowInv /\ [Next]_vars => FlowInv'
  BY FlowInductive
<1>3. FlowInv => TypeOK
  BY DEF FlowInv
<1> QED BY <1>1, <1>2, <1>3, PTL DEF Spec

-----------------------------------------------------------------------------
(* Who has landed a write, in the shared machine's terms. *)
LEMMA MovedSame ==
  ASSUME \A r \in Clients : req'[r].landed = req[r].landed
  PROVE  {r \in Clients : req'[r].landed # 0} = {r \in Clients : req[r].landed # 0}
OBVIOUS

(* A client's write is a move of the shared machine. *)
LEMMA PutMoves ==
  ASSUME FlowInv, NEW r \in Clients, NEW n \in Names, NEW s \in States, Put(r, n, s),
         req[r].pc \notin {"note", "done"}
  PROVE  Flow!Move(r, n, s)
<1> DEFINE d == [state |-> s, cas |-> ver[n] + 1]
           rec == [req[r] EXCEPT !.pc = "note", !.name = n, !.landed = ver[n] + 1]
<1>1. Write(n, d) /\ Set(r, rec) /\ d.state = s
  BY DEF Put
<1>2. ver[n] \in Nat /\ req[r] \in ReqState /\ req[r].landed = 0
  BY DEF FlowInv, TypeOK, LandInv
<1>3. rec.landed # 0
  BY <1>2 DEF ReqState
<1> HIDE DEF d, rec
<1>4. req'[r] = rec /\ \A o \in Clients : o # r => req'[o] = req[o]
  BY <1>1, SetRecord DEF FlowInv
<1>5. {o \in Clients : req'[o].landed # 0} = {o \in Clients : req[o].landed # 0} \cup {r}
  BY <1>3, <1>4
<1>6. [m \in Names |-> doc'[m].state] = [[m \in Names |-> doc[m].state] EXCEPT ![n] = s]
  BY <1>1 DEF Write, FlowInv, TypeOK
<1> QED BY <1>2, <1>5, <1>6 DEF Flow!Move

(* A request that writes has a candidate whose gate holds at that moment. *)
LEMMA WriteAdvances ==
  ASSUME FlowInv, NEW r \in Requests, Swap(r) \/ Upsert(r)
  PROVE  Flow!Advance(r)
<1> r \in Clients
  BY DEF Clients
<1>1. req[r].pc \in {"put", "upsert"}
  BY DEF Swap, Upsert
<1>2. /\ req[r].at \in DOMAIN Candidates[r]
      /\ Candidate(r) = Candidates[r][req[r].at]
      /\ Candidate(r).scenario \in Names
      /\ Candidate(r).new \in States /\ Candidate(r).new # None
  BY <1>1, PickedStub DEF Stub
<1>3. Candidate(r).required \in {None, doc[Candidate(r).scenario].state}
  BY DEF Swap, Upsert, FlowInv, CasInv, PickInv
<1>4. PICK n \in Names : n = Candidate(r).scenario
  BY <1>2
<1>5. PICK s \in States : s = Candidate(r).new
  BY <1>2
<1>6. PICK i \in DOMAIN Candidates[r] : i = req[r].at
  BY <1>2
<1>7. Flow!Move(r, n, s)
  <2>1. Put(r, n, s)
    BY <1>4, <1>5 DEF Swap, Upsert, Put, Write, Set
  <2>2. req[r].pc \notin {"note", "done"}
    BY <1>1
  <2> QED BY <2>1, <2>2, PutMoves
<1>8. /\ Candidates[r][i].scenario = n /\ Candidates[r][i].new = s
      /\ s # None
      /\ Candidates[r][i].required \in {None, [m \in Names |-> doc[m].state][n]}
  BY <1>2, <1>3, <1>4, <1>5, <1>6
<1> QED BY <1>7, <1>8 DEF Flow!Advance, Flow!Move

(* Every other step of a client moves nothing. *)
LEMMA QuietFlow ==
  ASSUME FlowInv, NEW r \in Clients, NEW rec, Set(r, rec),
         rec.landed = req[r].landed, UNCHANGED doc
  PROVE  UNCHANGED Flow!flow
<1>1. req'[r] = rec /\ \A o \in Clients : o # r => req'[o] = req[o]
  BY SetRecord DEF FlowInv
<1>2. \A o \in Clients : req'[o].landed = req[o].landed
  BY <1>1
<1> QED BY <1>2, MovedSame DEF Flow!flow

LEMMA MatchStutters ==
  ASSUME FlowInv, NEW r \in Requests,
         \/ Arrive(r) \/ ReadState(r) \/ ReadFails(r) \/ PassOver(r)
         \/ Choose(r) \/ Unmatched(r) \/ Get(r) \/ SwapLost(r)
  PROVE  UNCHANGED Flow!flow
<1> r \in Clients
  BY DEF Clients
<1>0. req[r] \in ReqState
  BY DEF FlowInv, TypeOK
<1>1. UNCHANGED doc
  BY DEF Arrive, ReadState, ReadFails, PassOver, Choose, Unmatched, Get, SwapLost, stored
<1>2. CASE Arrive(r)
  BY <1>0, <1>1, <1>2, QuietFlow DEF Arrive, ReqState
<1>3. CASE ReadState(r)
  BY <1>0, <1>1, <1>3, QuietFlow DEF ReadState, ReqState
<1>4. CASE ReadFails(r)
  BY <1>0, <1>1, <1>4, QuietFlow DEF ReadFails, ReqState
<1>5. CASE PassOver(r)
  BY <1>0, <1>1, <1>5, QuietFlow DEF PassOver, ReqState
<1>6. CASE Choose(r)
  <2> DEFINE answer == IF req[r].failed THEN "unavailable" ELSE "served"
             pc == IF req[r].failed \/ Candidate(r).new = None THEN "done"
                   ELSE IF Candidate(r).required = None THEN "upsert" ELSE "get"
  <2>1. Set(r, [req[r] EXCEPT !.answer = answer, !.pc = pc])
    BY <1>6 DEF Choose
  <2> HIDE DEF answer, pc
  <2> QED BY <1>0, <1>1, <2>1, QuietFlow DEF ReqState
<1>7. CASE Unmatched(r)
  <2> DEFINE answer == IF req[r].failed THEN "unavailable" ELSE "unmatched"
  <2>1. Set(r, [req[r] EXCEPT !.pc = "done", !.answer = answer])
    BY <1>7 DEF Unmatched
  <2> HIDE DEF answer
  <2> QED BY <1>0, <1>1, <2>1, QuietFlow DEF ReqState
<1>8. CASE Get(r)
  <2>1. \/ Set(r, [req[r] EXCEPT !.pc = "done"])
        \/ Set(r, [req[r] EXCEPT !.pc = "put", !.cas = doc[Candidate(r).scenario].cas])
    BY <1>8 DEF Get
  <2> QED BY <1>0, <1>1, <2>1, QuietFlow DEF ReqState
<1>9. CASE SwapLost(r)
  <2>1. \/ Set(r, [req[r] EXCEPT !.pc = "done"])
        \/ Set(r, [req[r] EXCEPT !.pc = "get", !.tries = @ - 1])
    BY <1>9 DEF SwapLost
  <2> QED BY <1>0, <1>1, <2>1, QuietFlow DEF ReqState
<1> QED BY <1>2, <1>3, <1>4, <1>5, <1>6, <1>7, <1>8, <1>9

LEMMA ClientStutters ==
  ASSUME FlowInv, NEW r \in Clients, NoteToken(r) \/ CallFails(r) \/ Unheard(r)
  PROVE  UNCHANGED Flow!flow
<1>0. req[r] \in ReqState
  BY DEF FlowInv, TypeOK
<1>1. UNCHANGED doc
  BY DEF NoteToken, CallFails, Unheard, stored
<1>2. \/ Set(r, [req[r] EXCEPT !.pc = "done"])
      \/ Set(r, [req[r] EXCEPT !.pc = "done", !.failed = TRUE])
  BY DEF NoteToken, CallFails, Unheard
<1> QED BY <1>0, <1>1, <1>2, QuietFlow DEF ReqState

(* A key removed is a restart of its scenario, or nothing. *)
LEMMA RemoveRestarts ==
  ASSUME FlowInv, NEW x \in Resets, NEW n \in Names, RemoveKey(x, n)
  PROVE  Flow!Restart(n) \/ UNCHANGED Flow!flow
<1>1. UNCHANGED req
  BY DEF RemoveKey
<1>2. CASE doc[n].cas = 0
  BY <1>1, <1>2 DEF RemoveKey, stored, Flow!flow
<1>3. CASE doc[n].cas # 0
  <2>1. [m \in Names |-> doc'[m].state] = [[m \in Names |-> doc[m].state] EXCEPT ![n] = Started]
    <3>1. doc' = [doc EXCEPT ![n] = Absent] /\ doc \in [Names -> Document]
      BY <1>3 DEF RemoveKey, Write, FlowInv, TypeOK
    <3>2. Absent.state = Started
      BY DEF Absent
    <3> QED BY <3>1, <3>2
  <2> QED BY <1>1, <2>1 DEF Flow!Restart
<1> QED BY <1>2, <1>3

(* Every step is a step of the shared machine, or none. *)
LEMMA StepFlows == FlowInv /\ [Next]_vars => [Flow!FlowNext]_(Flow!flow)
<1> SUFFICES ASSUME FlowInv, [Next]_vars
             PROVE  Flow!FlowNext \/ UNCHANGED Flow!flow
  OBVIOUS
<1>1. ASSUME NEW r \in Requests,
             \/ Arrive(r) \/ ReadState(r) \/ ReadFails(r) \/ PassOver(r)
             \/ Choose(r) \/ Unmatched(r) \/ Get(r) \/ SwapLost(r)
      PROVE  UNCHANGED Flow!flow
  BY <1>1, MatchStutters
<1>2. ASSUME NEW r \in Requests, Swap(r) \/ Upsert(r)
      PROVE  Flow!FlowNext
  BY <1>2, WriteAdvances DEF Flow!FlowNext
<1>3. ASSUME NEW r \in Setters, SetState(r) PROVE Flow!FlowNext
  <2>1. r \in Clients /\ req[r].pc = "idle"
    BY <1>3 DEF SetState, Clients
  <2>2. PICK n \in Names, s \in States : Flow!Move(r, n, s)
    BY <1>3, <2>1, PossibleType, PutMoves DEF SetState
  <2> QED BY <2>2 DEF Flow!FlowNext, Flow!SetState
<1>4. ASSUME NEW r \in Clients, NoteToken(r) \/ CallFails(r) \/ Unheard(r)
      PROVE  UNCHANGED Flow!flow
  BY <1>4, ClientStutters
<1>5. ASSUME NEW x \in Resets, NEW n \in Names, RemoveKey(x, n)
      PROVE  Flow!FlowNext \/ UNCHANGED Flow!flow
  BY <1>5, RemoveRestarts DEF Flow!FlowNext
<1>6. ASSUME UNCHANGED <<doc, req>> PROVE UNCHANGED Flow!flow
  BY <1>6 DEF Flow!flow
<1>7. ASSUME NEW n \in Names, Persist(n) PROVE UNCHANGED <<doc, req>>
  BY <1>7 DEF Persist
<1>8. ASSUME NEW x \in Resets,
             \/ BeginReset(x) \/ ScanFails(x) \/ EndReset(x)
             \/ \E n \in Names : ScanKey(x, n) \/ RemoveFails(x, n)
      PROVE  UNCHANGED <<doc, req>>
  BY <1>8 DEF BeginReset, ScanFails, EndReset, ScanKey, RemoveFails, stored
<1>9. CASE UNCHANGED vars
  BY <1>6, <1>9 DEF vars
<1> QED BY <1>1, <1>2, <1>3, <1>4, <1>5, <1>6, <1>7, <1>8, <1>9 DEF Next

(* Scenarios are one shared state machine: on any number of replicas, whatever
   calls fail, no request moves a scenario twice, and none whose stub requires a
   state moves it out of another one (Client.Transition). *)
THEOREM ScenarioIsOneMachine == Spec => OneSharedMachine
<1>1. Init => Flow!FlowInit
  <2> SUFFICES ASSUME Init PROVE Flow!FlowInit
    OBVIOUS
  <2>1. \A r \in Clients : req[r].landed = 0
    BY DEF Init, IdleReq
  <2> QED BY <2>1 DEF Init, Absent, Flow!FlowInit
<1>2. Init => FlowInv
  BY InitFlowInv
<1>3. FlowInv /\ [Next]_vars => FlowInv'
  BY FlowInductive
<1>4. FlowInv /\ [Next]_vars => [Flow!FlowNext]_(Flow!flow)
  BY StepFlows
<1> QED BY <1>1, <1>2, <1>3, <1>4, PTL DEF Spec, OneSharedMachine, Flow!FlowSpec

-----------------------------------------------------------------------------
(* A candidate that cannot apply in what the request remembers. *)
RuledOut(r, i) ==
  LET stub == Candidates[r][i]
  IN /\ stub.required \notin {None, req[r].memo[stub.scenario]}
     /\ req[r].memo[stub.scenario] # None

(* What a request answered is answered as of (the body of AnsweredInOneWorld). *)
OneWorld(r) ==
  req[r].answer \in {"served", "unmatched"} =>
    \E world \in [Names -> States] :
      /\ \A n \in Names : world[n] \in during[r][n]
      /\ PickedIn(r, world) = IF req[r].answer = "served" THEN {req[r].at} ELSE {}

(* A request being matched has seen the current states go by, remembers some it
   has seen, and has passed over nothing that they do not rule out. *)
WorldOf(r) ==
  /\ req[r].pc = "idle" => req[r] = IdleReq
  /\ req[r].pc = "match" =>
       /\ \A n \in Names : /\ doc[n].state \in during[r][n]
                           /\ req[r].memo[n] \in {None} \cup during[r][n]
       /\ ~req[r].failed => \A i \in DOMAIN Candidates[r] : i < req[r].at => RuledOut(r, i)
  /\ OneWorld(r)

WorldInv == \A r \in Requests : WorldOf(r)

(* A stub that serves is one of the request's. *)
LEMMA ServedStub ==
  ASSUME NEW r \in Requests, WorldOf(r), req[r].answer = "served"
  PROVE  /\ req[r].at \in DOMAIN Candidates[r]
         /\ Candidate(r) \in Stub /\ Candidate(r).scenario \in Names
<1>1. PICK world \in [Names -> States] : PickedIn(r, world) = {req[r].at}
  BY DEF WorldOf, OneWorld
<1>2. req[r].at \in DOMAIN Candidates[r]
  BY <1>1 DEF PickedIn
<1> QED BY <1>2, CandidateType DEF Candidate, Stub

(* The states a request remembers, and the current ones of the other scenarios,
   are a world it has seen and in which it would pass over the same stubs. *)
LEMMA SeenWorld ==
  ASSUME TypeOK, NEW r \in Requests, WorldOf(r), req[r].pc = "match", ~req[r].failed
  PROVE  \E world \in [Names -> States] :
           /\ \A n \in Names : /\ world[n] \in during[r][n]
                               /\ req[r].memo[n] # None => world[n] = req[r].memo[n]
           /\ \A i \in DOMAIN Candidates[r] : i < req[r].at => ~Passes(Candidates[r][i], world)
<1> DEFINE world == [n \in Names |-> IF req[r].memo[n] # None THEN req[r].memo[n]
                                                             ELSE doc[n].state]
<1>1. req[r].memo \in [Names -> States \cup {None}] /\ \A n \in Names : doc[n].state \in States
  BY DEF TypeOK, ReqState, Document, Clients
<1>2. world \in [Names -> States]
  BY <1>1
<1>3. \A n \in Names : /\ world[n] \in during[r][n]
                       /\ req[r].memo[n] # None => world[n] = req[r].memo[n]
  BY <1>1 DEF WorldOf
<1> HIDE DEF world
<1>4. ASSUME NEW i \in DOMAIN Candidates[r], i < req[r].at
      PROVE  ~Passes(Candidates[r][i], world)
  <2>1. RuledOut(r, i)
    BY <1>4 DEF WorldOf
  <2>2. Candidates[r][i].scenario \in Names
    BY CandidateType DEF Stub
  <2> QED BY <2>1, <2>2, <1>3 DEF RuledOut, Passes
<1> QED BY <1>2, <1>3, <1>4

(* Whoever is left alone keeps its part: a state written while it is being
   matched is one it has seen. *)
LEMMA OthersWorld ==
  ASSUME FlowInv, NEW o \in Requests, WorldOf(o), req'[o] = req[o],
         \/ UNCHANGED doc /\ during'[o] = during[o]
         \/ \E n \in Names, d \in Document : Write(n, d)
  PROVE  WorldOf(o)'
<1>1. req[o].answer \in {"served", "unmatched"} => req[o].pc # "match"
  BY DEF FlowInv, PickInv
<1>2. CASE UNCHANGED doc /\ during'[o] = during[o]
  BY <1>2 DEF WorldOf, OneWorld, RuledOut
<1>3. ASSUME NEW n \in Names, NEW d \in Document, Write(n, d)
      PROVE  WorldOf(o)'
  <2>1. /\ doc \in [Names -> Document] /\ doc' = [doc EXCEPT ![n] = d]
        /\ during[o] \in [Names -> SUBSET States]
        /\ during'[o] = IF req[o].pc = "match"
                          THEN [during[o] EXCEPT ![n] = @ \cup {d.state}] ELSE during[o]
    BY <1>3, ScenarioAssumption DEF FlowInv, TypeOK, Write, Clients
  <2>2. CASE req[o].pc = "match"
    <3>1. \A m \in Names : /\ doc'[m].state \in during'[o][m]
                           /\ req[o].memo[m] \in {None} \cup during'[o][m]
      BY <2>1, <2>2 DEF WorldOf
    <3> QED BY <1>1, <2>2, <3>1 DEF WorldOf, OneWorld, RuledOut
  <2>3. CASE req[o].pc # "match"
    BY <2>1, <2>3 DEF WorldOf, OneWorld
  <2> QED BY <2>2, <2>3
<1> QED BY <1>2, <1>3

(* A client that has been answered, or is being answered, is answered for good. *)
LEMMA AnsweredWorld ==
  ASSUME NEW r \in Requests, WorldOf(r), during'[r] = during[r],
         req'[r].pc \notin {"idle", "match"},
         req'[r].answer = req[r].answer, req'[r].at = req[r].at
  PROVE  WorldOf(r)'
BY DEF WorldOf, OneWorld

-----------------------------------------------------------------------------
(* The state a request remembers is current unless the scenario has been
   written since, and the CAS of its transition belongs to that state. *)
MemoOf(r) ==
  \A n \in Names : req[r].memo[n] # None =>
    /\ readAt[r][n] <= ver[n]
    /\ ver[n] = readAt[r][n] => doc[n].state = req[r].memo[n]

HoldOf(r) ==
  /\ req[r].pc \in {"get", "put"} =>
       req[r].memo[Candidate(r).scenario] = Candidate(r).required
  /\ req[r].pc = "put" =>
       LET n == Candidate(r).scenario
       IN ver[n] = readAt[r][n] => doc[n].cas = req[r].cas

LostOf(r) ==
  (/\ req[r].pc = "done" /\ req[r].answer = "served"
   /\ Candidate(r).required # None /\ Candidate(r).new # None
   /\ req[r].landed = 0 /\ ~req[r].failed)
    => ver[Candidate(r).scenario] > readAt[r][Candidate(r).scenario]

LossOf(r) == MemoOf(r) /\ HoldOf(r) /\ LostOf(r)

LossInv == \A r \in Requests : LossOf(r)

(* Whoever is left alone by a step that writes at most one document keeps its
   part: a version that grows can only leave what was read behind. *)
LEMMA OthersLoss ==
  ASSUME FlowInv, NEW o \in Requests, WorldOf(o), LossOf(o),
         req'[o] = req[o], readAt'[o] = readAt[o],
         \/ UNCHANGED <<doc, ver>>
         \/ \E n \in Names, d \in Document : Write(n, d)
  PROVE  LossOf(o)'
<1>1. Candidate(o)' = Candidate(o)
  BY CandidateSame
<1>2. CASE UNCHANGED <<doc, ver>>
  BY <1>1, <1>2 DEF LossOf, MemoOf, HoldOf, LostOf
<1>3. ASSUME NEW n \in Names, NEW d \in Document, Write(n, d)
      PROVE  LossOf(o)'
  <2>1. /\ doc \in [Names -> Document] /\ ver \in [Names -> Nat]
        /\ doc' = [doc EXCEPT ![n] = d] /\ ver' = [ver EXCEPT ![n] = @ + 1]
        /\ readAt[o] \in [Names -> Nat]
    BY <1>3 DEF FlowInv, TypeOK, Write
  <2>2. \A m \in Names : /\ m # n => ver'[m] = ver[m] /\ doc'[m] = doc[m]
                         /\ m = n => ver'[m] = ver[m] + 1
                         /\ ver[m] \in Nat /\ readAt[o][m] \in Nat
    BY <2>1
  <2>3. MemoOf(o)'
    BY <2>2 DEF LossOf, MemoOf
  <2>4. HoldOf(o)'
    <3>1. ASSUME req[o].pc = "put", ver'[Candidate(o).scenario] = readAt[o][Candidate(o).scenario]
          PROVE  doc'[Candidate(o).scenario].cas = req[o].cas
      <4> DEFINE m == Candidate(o).scenario
      <4>1. m \in Names /\ Candidate(o).required # None
        BY <3>1, PickedStub DEF FlowInv, PickInv, Stub
      <4>2. req[o].memo[m] # None
        BY <3>1, <4>1 DEF LossOf, HoldOf
      <4>3. readAt[o][m] <= ver[m]
        BY <4>1, <4>2 DEF LossOf, MemoOf
      <4>4. m # n
        BY <3>1, <4>1, <4>3, <2>2
      <4> HIDE DEF m
      <4>5. ver'[m] = ver[m] /\ doc'[m] = doc[m]
        BY <4>1, <4>4, <2>2
      <4> QED BY <3>1, <4>5 DEF LossOf, HoldOf, m
    <3> QED BY <1>1, <3>1 DEF LossOf, HoldOf
  <2>5. LostOf(o)'
    <3>1. ASSUME req[o].answer = "served",
                 ver[Candidate(o).scenario] > readAt[o][Candidate(o).scenario]
          PROVE  ver'[Candidate(o).scenario] > readAt[o][Candidate(o).scenario]
      <4>1. PICK m \in Names : m = Candidate(o).scenario
        BY <3>1, ServedStub
      <4>2. ver'[m] >= ver[m]
        BY <2>2
      <4> QED BY <3>1, <4>1, <4>2, <2>2
    <3> QED BY <1>1, <3>1 DEF LossOf, LostOf
  <2> QED BY <2>3, <2>4, <2>5 DEF LossOf
<1> QED BY <1>2, <1>3

(* A step of one client that writes nothing and reads no state keeps every
   part if it keeps the client's own. *)
LEMMA QuietLoss ==
  ASSUME FlowInv, WorldInv, LossInv, NEW r \in Clients, NEW rec, Set(r, rec),
         UNCHANGED <<doc, ver, readAt>>,
         r \in Requests =>
           LET stub == Candidates[r][rec.at]
               n == stub.scenario
           IN /\ rec.memo = req[r].memo
              /\ rec.pc \in {"get", "put"} => rec.memo[n] = stub.required
              /\ rec.pc = "put" => (ver[n] = readAt[r][n] => doc[n].cas = rec.cas)
              /\ (/\ rec.pc = "done" /\ rec.answer = "served"
                  /\ stub.required # None /\ stub.new # None
                  /\ rec.landed = 0 /\ ~rec.failed)
                   => ver[n] > readAt[r][n]
  PROVE  LossInv'
<1>1. req'[r] = rec /\ \A o \in Clients : o # r => req'[o] = req[o]
  BY SetRecord DEF FlowInv
<1> SUFFICES ASSUME NEW o \in Requests PROVE LossOf(o)'
  BY DEF LossInv
<1>2. CASE o # r
  <2>1. req'[o] = req[o]
    BY <1>1, <1>2 DEF Clients
  <2> QED BY <2>1, OthersLoss DEF LossInv, WorldInv
<1>3. CASE o = r
  <2>1. Candidate(o)' = Candidates[r][rec.at]
    BY <1>1, <1>3 DEF Candidate
  <2>2. MemoOf(o)'
    BY <1>1, <1>3 DEF LossInv, LossOf, MemoOf
  <2>3. HoldOf(o)'
    BY <1>1, <1>3, <2>1 DEF HoldOf
  <2>4. LostOf(o)'
    BY <1>1, <1>3, <2>1 DEF LostOf
  <2> QED BY <2>2, <2>3, <2>4 DEF LossOf
<1> QED BY <1>2, <1>3

(* A client's write leaves the others' reads behind; its own is on its way. *)
LEMMA PutLoss ==
  ASSUME FlowInv, WorldInv, LossInv, NEW r \in Clients, NEW n \in Names, NEW s \in States,
         Put(r, n, s), r \in Requests => LossOf(r)
  PROVE  LossInv'
<1> DEFINE d == [state |-> s, cas |-> ver[n] + 1]
           rec == [req[r] EXCEPT !.pc = "note", !.name = n, !.landed = ver[n] + 1]
<1>1. Write(n, d) /\ Set(r, rec) /\ UNCHANGED readAt
  BY DEF Put
<1>2. d \in Document /\ ver[n] \in Nat /\ req[r] \in ReqState
  BY DEF FlowInv, TypeOK, Document
<1>3. rec.pc = "note" /\ rec.memo = req[r].memo
  BY <1>2 DEF ReqState
<1> HIDE DEF d, rec
<1>4. req'[r] = rec /\ \A o \in Clients : o # r => req'[o] = req[o]
  BY <1>1, SetRecord DEF FlowInv
<1> SUFFICES ASSUME NEW o \in Requests PROVE LossOf(o)'
  BY DEF LossInv
<1>5. CASE o # r
  <2>1. req'[o] = req[o]
    BY <1>4, <1>5 DEF Clients
  <2> QED BY <1>1, <1>2, <2>1, OthersLoss DEF LossInv, WorldInv
<1>6. CASE o = r
  <2>1. HoldOf(o)' /\ LostOf(o)'
    BY <1>3, <1>4, <1>6 DEF HoldOf, LostOf
  <2>2. MemoOf(o)'
    <3>1. /\ ver' = [ver EXCEPT ![n] = @ + 1] /\ doc' = [doc EXCEPT ![n] = d]
          /\ ver \in [Names -> Nat] /\ doc \in [Names -> Document]
          /\ readAt[o] \in [Names -> Nat]
      BY <1>1 DEF Write, FlowInv, TypeOK
    <3>2. \A m \in Names : /\ m # n => ver'[m] = ver[m] /\ doc'[m] = doc[m]
                           /\ m = n => ver'[m] = ver[m] + 1
                           /\ ver[m] \in Nat /\ readAt[o][m] \in Nat
      BY <3>1
    <3> QED BY <1>1, <1>3, <1>4, <1>6, <3>2 DEF LossInv, LossOf, MemoOf
  <2> QED BY <2>1, <2>2 DEF LossOf
<1> QED BY <1>5, <1>6

(* Matching: the gate remembers what it has read, and chooses by it. *)
LEMMA MatchLoss ==
  ASSUME FlowInv, WorldInv, LossInv, NEW r \in Requests,
         \/ Arrive(r) \/ ReadState(r) \/ ReadFails(r) \/ PassOver(r)
         \/ Choose(r) \/ Unmatched(r)
  PROVE  LossInv'
<1> r \in Clients
  BY DEF Clients
<1> TypeOK
  BY DEF FlowInv
<1>0. /\ req[r] \in ReqState
      /\ req[r].pc \in {"idle", "match"}
      /\ req[r].answer = "pending"
  BY DEF FlowInv, TypeOK, PickInv,
         Arrive, ReadState, ReadFails, PassOver, Choose, Unmatched, Matching
<1>1. CASE Arrive(r)
  <2> DEFINE rec == [req[r] EXCEPT !.pc = "match"]
  <2>1. rec.pc = "match" /\ rec.memo = req[r].memo
    BY <1>0 DEF ReqState
  <2>2. Set(r, rec) /\ UNCHANGED <<doc, ver, readAt>>
    BY <1>1 DEF Arrive, stored
  <2> HIDE DEF rec
  <2> QED BY <2>1, <2>2, QuietLoss
<1>2. CASE ReadState(r)
  <2> DEFINE n == Candidate(r).scenario
             rec == [req[r] EXCEPT !.memo[n] = doc[n].state]
  <2>0. n \in Names /\ doc[n].state \in States
    BY <1>2, MatchingCandidate DEF ReadState, TypeOK, Document, Stub
  <2>1. /\ rec.pc = "match" /\ rec.memo = [req[r].memo EXCEPT ![n] = doc[n].state]
        /\ req[r].memo \in [Names -> States \cup {None}]
    BY <1>0, <1>2 DEF ReqState, ReadState, Matching
  <2>2. Set(r, rec) /\ UNCHANGED <<doc, ver>>
    BY <1>2 DEF ReadState, stored
  <2>3. readAt' = [readAt EXCEPT ![r][n] = ver[n]]
    BY <1>2 DEF ReadState
  <2> HIDE DEF rec, n
  <2>4. req'[r] = rec /\ \A o \in Clients : o # r => req'[o] = req[o]
    BY <2>2, SetRecord
  <2> SUFFICES ASSUME NEW o \in Requests PROVE LossOf(o)'
    BY DEF LossInv
  <2>5. CASE o # r
    <3>1. req'[o] = req[o] /\ readAt'[o] = readAt[o]
      BY <2>3, <2>4, <2>5 DEF Clients, TypeOK
    <3> QED BY <2>2, <3>1, OthersLoss DEF LossInv, WorldInv
  <2>6. CASE o = r
    <3>1. HoldOf(o)' /\ LostOf(o)'
      BY <2>1, <2>4, <2>6 DEF HoldOf, LostOf
    <3>2. MemoOf(o)'
      <4>1. readAt[r] \in [Names -> Nat] /\ ver \in [Names -> Nat]
        BY DEF TypeOK
      <4>2. readAt'[r] = [readAt[r] EXCEPT ![n] = ver[n]]
        BY <2>3 DEF TypeOK
      <4> QED BY <2>0, <2>1, <2>2, <2>4, <2>6, <4>1, <4>2 DEF LossInv, LossOf, MemoOf
    <3> QED BY <3>1, <3>2 DEF LossOf
  <2> QED BY <2>5, <2>6
<1>3. CASE ReadFails(r)
  <2> DEFINE rec == [req[r] EXCEPT !.failed = TRUE, !.at = @ + 1]
  <2>1. rec.pc = "match" /\ rec.memo = req[r].memo
    BY <1>0, <1>3 DEF ReqState, ReadFails, Matching
  <2>2. Set(r, rec) /\ UNCHANGED <<doc, ver, readAt>>
    BY <1>3 DEF ReadFails, stored, history
  <2> HIDE DEF rec
  <2> QED BY <2>1, <2>2, QuietLoss
<1>4. CASE PassOver(r)
  <2> DEFINE rec == [req[r] EXCEPT !.at = @ + 1]
  <2>1. rec.pc = "match" /\ rec.memo = req[r].memo
    BY <1>0, <1>4 DEF ReqState, PassOver, Matching
  <2>2. Set(r, rec) /\ UNCHANGED <<doc, ver, readAt>>
    BY <1>4 DEF PassOver, stored, history
  <2> HIDE DEF rec
  <2> QED BY <2>1, <2>2, QuietLoss
<1>5. CASE Choose(r)
  <2> DEFINE answer == IF req[r].failed THEN "unavailable" ELSE "served"
             pc == IF req[r].failed \/ Candidate(r).new = None THEN "done"
                   ELSE IF Candidate(r).required = None THEN "upsert" ELSE "get"
             rec == [req[r] EXCEPT !.answer = answer, !.pc = pc]
  <2>1. Set(r, rec) /\ UNCHANGED <<doc, ver, readAt>>
    BY <1>5 DEF Choose, stored, history
  <2>2. Candidate(r).required \in {None, req[r].memo[Candidate(r).scenario]}
    BY <1>5 DEF Choose
  <2>3. /\ pc \in {"done", "upsert", "get"}
        /\ pc = "get" => Candidate(r).required # None
        /\ (pc = "done" /\ answer = "served") => Candidate(r).new = None
    OBVIOUS
  <2> HIDE DEF answer, pc
  <2>4. rec.pc = pc /\ rec.memo = req[r].memo /\ rec.at = req[r].at /\ rec.answer = answer
    BY <1>0 DEF ReqState
  <2> HIDE DEF rec
  <2> QED BY <2>1, <2>2, <2>3, <2>4, QuietLoss DEF Candidate
<1>6. CASE Unmatched(r)
  <2> DEFINE answer == IF req[r].failed THEN "unavailable" ELSE "unmatched"
             rec == [req[r] EXCEPT !.pc = "done", !.answer = answer]
  <2>1. Set(r, rec) /\ UNCHANGED <<doc, ver, readAt>>
    BY <1>6 DEF Unmatched, stored, history
  <2>2. answer # "served"
    OBVIOUS
  <2> HIDE DEF answer
  <2>3. rec.pc = "done" /\ rec.memo = req[r].memo /\ rec.answer # "served"
    BY <1>0, <2>2 DEF ReqState
  <2> HIDE DEF rec
  <2> QED BY <2>1, <2>3, QuietLoss
<1> QED BY <1>1, <1>2, <1>3, <1>4, <1>5, <1>6

(* A transition that is dropped has found the state, or the CAS, changed. *)
LEMMA TransitionLoss ==
  ASSUME FlowInv, WorldInv, LossInv, NEW r \in Requests,
         Get(r) \/ Swap(r) \/ SwapLost(r) \/ Upsert(r)
  PROVE  LossInv'
<1> r \in Clients
  BY DEF Clients
<1>0. /\ req[r] \in ReqState
      /\ req[r].pc \in {"get", "put", "upsert"}
      /\ LossOf(r)
  BY DEF FlowInv, TypeOK, LossInv, Get, Swap, SwapLost, Upsert
<1>1. PICK n \in Names : n = Candidate(r).scenario
  BY <1>0, PickedStub DEF Stub, FlowInv
<1>2. PICK s \in States : s = Candidate(r).new
  BY <1>0, PickedStub DEF Stub, FlowInv, PickInv
<1>3. ver[n] \in Nat /\ readAt[r][n] \in Nat
  BY DEF FlowInv, TypeOK
<1>4. ASSUME req[r].pc \in {"get", "put"}
      PROVE  /\ req[r].memo[n] = Candidate(r).required
             /\ readAt[r][n] <= ver[n]
             /\ ver[n] = readAt[r][n] => doc[n].state = Candidate(r).required
  <2>1. Candidate(r).required # None
    BY <1>4 DEF FlowInv, PickInv
  <2>2. req[r].memo[n] = Candidate(r).required
    BY <1>0, <1>1, <1>4 DEF LossOf, HoldOf
  <2> QED BY <1>0, <2>1, <2>2 DEF LossOf, MemoOf
<1> DEFINE gone == [req[r] EXCEPT !.pc = "done"]
<1>5. ASSUME Set(r, gone), UNCHANGED <<doc, ver, readAt>>, ver[n] # readAt[r][n],
             req[r].pc \in {"get", "put"}
      PROVE  LossInv'
  <2>1. gone.pc = "done" /\ gone.memo = req[r].memo /\ gone.at = req[r].at
    BY <1>0 DEF ReqState
  <2>2. ver[n] > readAt[r][n]
    BY <1>3, <1>4, <1>5
  <2> HIDE DEF gone
  <2> QED BY <1>1, <1>5, <2>1, <2>2, QuietLoss DEF Candidate
<1>6. CASE Get(r)
  <2>1. CASE doc[n].state = Candidate(r).required
    <3> DEFINE rec == [req[r] EXCEPT !.pc = "put", !.cas = doc[n].cas]
    <3>1. Set(r, rec) /\ UNCHANGED <<doc, ver, readAt>>
      BY <1>1, <1>6, <2>1 DEF Get, stored, history
    <3>2. /\ rec.pc = "put" /\ rec.memo = req[r].memo /\ rec.at = req[r].at
          /\ rec.cas = doc[n].cas
      BY <1>0 DEF ReqState
    <3>3. rec.memo[n] = Candidate(r).required
      BY <1>4, <1>6, <3>2 DEF Get
    <3> HIDE DEF rec
    <3> QED BY <1>1, <3>1, <3>2, <3>3, QuietLoss DEF Candidate
  <2>2. CASE doc[n].state # Candidate(r).required
    <3>1. Set(r, gone) /\ UNCHANGED <<doc, ver, readAt>>
      BY <1>1, <1>6, <2>2 DEF Get, stored, history
    <3> QED BY <1>4, <1>5, <1>6, <2>2, <3>1 DEF Get
  <2> QED BY <2>1, <2>2
<1>7. CASE SwapLost(r)
  <2>1. req[r].pc = "put" /\ UNCHANGED <<doc, ver, readAt>> /\ ver[n] # readAt[r][n]
    BY <1>0, <1>1, <1>7 DEF SwapLost, stored, history, LossOf, HoldOf
  <2>2. CASE Set(r, gone)
    BY <1>5, <2>1, <2>2
  <2>3. CASE Set(r, [req[r] EXCEPT !.pc = "get", !.tries = @ - 1])
    <3> DEFINE rec == [req[r] EXCEPT !.pc = "get", !.tries = @ - 1]
    <3>1. rec.pc = "get" /\ rec.memo = req[r].memo /\ rec.at = req[r].at
      BY <1>0 DEF ReqState
    <3>2. Set(r, rec) /\ rec.memo[n] = Candidate(r).required
      BY <1>4, <2>1, <2>3, <3>1
    <3> HIDE DEF rec
    <3> QED BY <1>1, <2>1, <3>1, <3>2, QuietLoss DEF Candidate
  <2> QED BY <1>7, <2>2, <2>3 DEF SwapLost
<1>8. CASE Swap(r) \/ Upsert(r)
  <2>1. Put(r, n, s)
    BY <1>1, <1>2, <1>8 DEF Swap, Upsert, Put, Write, Set
  <2> QED BY <1>0, <2>1, PutLoss
<1> QED BY <1>6, <1>7, <1>8

(* A client that is answered after its write, or whose call fails, has lost
   nothing. *)
LEMMA ClientLoss ==
  ASSUME FlowInv, WorldInv, LossInv, NEW r \in Clients,
         NoteToken(r) \/ CallFails(r) \/ Unheard(r)
  PROVE  LossInv'
<1>0. req[r] \in ReqState
  BY DEF FlowInv, TypeOK
<1>1. UNCHANGED <<doc, ver, readAt>>
  BY DEF NoteToken, CallFails, Unheard, stored, history
<1>2. CASE NoteToken(r)
  <2> DEFINE rec == [req[r] EXCEPT !.pc = "done"]
  <2>1. rec.pc = "done" /\ rec.memo = req[r].memo /\ rec.landed # 0 /\ Set(r, rec)
    BY <1>0, <1>2 DEF ReqState, NoteToken, FlowInv, LandInv
  <2> HIDE DEF rec
  <2> QED BY <1>1, <2>1, QuietLoss
<1>3. CASE CallFails(r) \/ Unheard(r)
  <2> DEFINE rec == [req[r] EXCEPT !.pc = "done", !.failed = TRUE]
  <2>1. rec.pc = "done" /\ rec.memo = req[r].memo /\ rec.failed /\ Set(r, rec)
    BY <1>0, <1>3 DEF ReqState, CallFails, Unheard
  <2> HIDE DEF rec
  <2> QED BY <1>1, <2>1, QuietLoss
<1> QED BY <1>2, <1>3

(* A step that leaves the clients alone keeps what they know. *)
LEMMA AsideLoss ==
  ASSUME FlowInv, WorldInv, LossInv, UNCHANGED <<req, readAt>>,
         \/ UNCHANGED <<doc, ver>>
         \/ \E n \in Names, d \in Document : Write(n, d)
  PROVE  LossInv'
BY OthersLoss DEF LossInv, WorldInv

(* What a removed key leaves behind. *)
LEMMA RemoveWrites ==
  ASSUME NEW x \in Resets, NEW n \in Names, RemoveKey(x, n)
  PROVE  \/ UNCHANGED <<doc, ver, during>>
         \/ \E m \in Names, d \in Document : Write(m, d)
<1>1. Absent \in Document
  BY ScenarioAssumption DEF Absent, Document
<1> QED BY <1>1 DEF RemoveKey, stored

(* Nothing is lost except to another, as long as answers are as of one world. *)
LEMMA LossInductive == FlowInv /\ WorldInv /\ LossInv /\ [Next]_vars => LossInv'
<1> SUFFICES ASSUME FlowInv, WorldInv, LossInv, [Next]_vars PROVE LossInv'
  OBVIOUS
<1>1. ASSUME NEW n \in Names, Persist(n) PROVE LossInv'
  BY <1>1, AsideLoss DEF Persist, history
<1>2. ASSUME NEW r \in Requests,
             \/ Arrive(r) \/ ReadState(r) \/ ReadFails(r) \/ PassOver(r)
             \/ Choose(r) \/ Unmatched(r)
      PROVE  LossInv'
  BY <1>2, MatchLoss
<1>3. ASSUME NEW r \in Requests, Get(r) \/ Swap(r) \/ SwapLost(r) \/ Upsert(r)
      PROVE  LossInv'
  BY <1>3, TransitionLoss
<1>4. ASSUME NEW r \in Setters, SetState(r) PROVE LossInv'
  <2>1. r \in Clients /\ r \notin Requests
    BY ScenarioAssumption DEF Clients
  <2> QED BY <1>4, <2>1, PossibleType, PutLoss DEF SetState
<1>5. ASSUME NEW r \in Clients, NoteToken(r) \/ CallFails(r) \/ Unheard(r)
      PROVE  LossInv'
  BY <1>5, ClientLoss
<1>6. ASSUME NEW x \in Resets, NEW n \in Names, RemoveKey(x, n) PROVE LossInv'
  BY <1>6, AsideLoss, RemoveWrites DEF RemoveKey
<1>7. ASSUME NEW x \in Resets,
             \/ BeginReset(x) \/ ScanFails(x) \/ EndReset(x)
             \/ \E n \in Names : ScanKey(x, n) \/ RemoveFails(x, n)
      PROVE  LossInv'
  BY <1>7, AsideLoss
     DEF BeginReset, ScanFails, EndReset, ScanKey, RemoveFails, stored, history
<1>8. CASE UNCHANGED vars
  BY <1>8, AsideLoss DEF vars
<1> QED BY <1>1, <1>2, <1>3, <1>4, <1>5, <1>6, <1>7, <1>8 DEF Next

-----------------------------------------------------------------------------
(* A step of one client that writes nothing keeps every part if it keeps the
   client's own. *)
LEMMA LoneWorld ==
  ASSUME FlowInv, WorldInv, NEW r \in Clients, NEW rec, Set(r, rec), UNCHANGED doc,
         \A o \in Requests : o # r => during'[o] = during[o],
         r \in Requests => WorldOf(r)'
  PROVE  WorldInv'
<1>1. \A o \in Clients : o # r => req'[o] = req[o]
  BY SetRecord DEF FlowInv
<1> SUFFICES ASSUME NEW o \in Requests PROVE WorldOf(o)'
  BY DEF WorldInv
<1>2. CASE o # r
  <2>1. req'[o] = req[o] /\ during'[o] = during[o]
    BY <1>1, <1>2 DEF Clients
  <2> QED BY <2>1, OthersWorld DEF WorldInv
<1> QED BY <1>2

(* On to the next candidate: what the request remembers is still what it has
   seen, and it has passed over what that rules out. *)
LEMMA GoOnWorld ==
  ASSUME FlowInv, WorldInv, NEW r \in Requests, NEW rec, Set(r, rec),
         UNCHANGED <<doc, during>>, req[r].pc = "match",
         rec.pc = "match", rec.answer = "pending",
         \A n \in Names : rec.memo[n] \in {None} \cup during[r][n],
         ~rec.failed =>
           \A i \in DOMAIN Candidates[r] : i < rec.at =>
             LET stub == Candidates[r][i]
             IN /\ stub.required \notin {None, rec.memo[stub.scenario]}
                /\ rec.memo[stub.scenario] # None
  PROVE  WorldInv'
<1>1. r \in Clients
  BY DEF Clients
<1>2. req'[r] = rec
  BY <1>1, SetRecord DEF FlowInv
<1>3. \A n \in Names : doc[n].state \in during[r][n]
  BY DEF WorldInv, WorldOf
<1>4. ~rec.failed => \A i \in DOMAIN Candidates[r] : i < rec.at => RuledOut(r, i)'
  BY <1>2 DEF RuledOut
<1>5. WorldOf(r)'
  BY <1>2, <1>3, <1>4 DEF WorldOf, OneWorld
<1> QED BY <1>1, <1>5, LoneWorld

(* Choosing by what is remembered is choosing in a world that was seen. *)
LEMMA ChosenWorld ==
  ASSUME FlowInv, WorldInv, NEW r \in Requests, Choose(r), ~req[r].failed
  PROVE  \E world \in [Names -> States] :
           /\ \A n \in Names : world[n] \in during[r][n]
           /\ PickedIn(r, world) = {req[r].at}
<1> TypeOK /\ WorldOf(r)
  BY DEF FlowInv, WorldInv
<1>1. /\ req[r].pc = "match" /\ Matching(r)
      /\ req[r].at \in DOMAIN Candidates[r] /\ Candidate(r) \in Stub
      /\ DOMAIN Candidates[r] \subseteq Nat
  BY MatchingCandidate, ScenarioAssumption DEF Choose, Matching
<1>2. PICK world \in [Names -> States] :
        /\ \A n \in Names : /\ world[n] \in during[r][n]
                            /\ req[r].memo[n] # None => world[n] = req[r].memo[n]
        /\ \A i \in DOMAIN Candidates[r] : i < req[r].at => ~Passes(Candidates[r][i], world)
  BY <1>1, SeenWorld
<1>3. Passes(Candidates[r][req[r].at], world)
  <2>1. Candidate(r) = Candidates[r][req[r].at] /\ Candidate(r).scenario \in Names
    BY <1>1 DEF Candidate, Stub
  <2> QED BY <1>2, <2>1 DEF Choose, Unread, Passes
<1>4. ASSUME NEW i \in DOMAIN Candidates[r] PROVE i \in PickedIn(r, world) <=> i = req[r].at
  <2>1. CASE i < req[r].at
    BY <1>1, <1>2, <2>1 DEF PickedIn
  <2>2. CASE i = req[r].at
    <3>1. ASSUME NEW j \in 1 .. i - 1 PROVE ~Passes(Candidates[r][j], world)
      <4>1. j \in DOMAIN Candidates[r] /\ j < req[r].at
        BY <1>1, <2>2, <3>1, ScenarioAssumption
      <4> QED BY <1>2, <4>1
    <3> QED BY <1>1, <1>3, <2>2, <3>1 DEF PickedIn
  <2>3. CASE i > req[r].at
    <3>1. req[r].at \in 1 .. i - 1
      BY <1>1, <2>3, ScenarioAssumption
    <3> QED BY <1>1, <1>3, <2>3, <3>1 DEF PickedIn
  <2> QED BY <1>1, <2>1, <2>2, <2>3
<1>5. PickedIn(r, world) = {req[r].at}
  BY <1>1, <1>4 DEF PickedIn
<1> QED BY <1>2, <1>5

(* And running out of candidates is matching none in one. *)
LEMMA UnmatchedWorld ==
  ASSUME FlowInv, WorldInv, NEW r \in Requests, Unmatched(r), ~req[r].failed
  PROVE  \E world \in [Names -> States] :
           /\ \A n \in Names : world[n] \in during[r][n]
           /\ PickedIn(r, world) = {}
<1> TypeOK /\ WorldOf(r)
  BY DEF FlowInv, WorldInv
<1>1. /\ req[r].pc = "match" /\ req[r].at > Len(Candidates[r])
      /\ Candidates[r] \in Seq(Stub) /\ req[r].at \in Nat
  BY ScenarioAssumption DEF Unmatched, TypeOK, ReqState, Clients
<1>2. PICK world \in [Names -> States] :
        /\ \A n \in Names : world[n] \in during[r][n]
        /\ \A i \in DOMAIN Candidates[r] : i < req[r].at => ~Passes(Candidates[r][i], world)
  BY <1>1, SeenWorld
<1>3. \A i \in DOMAIN Candidates[r] : i < req[r].at
  BY <1>1
<1>4. PickedIn(r, world) = {}
  BY <1>2, <1>3 DEF PickedIn
<1> QED BY <1>2, <1>4

(* So matching a request answers it as of one world. *)
LEMMA MatchWorld ==
  ASSUME FlowInv, WorldInv, NEW r \in Requests,
         \/ Arrive(r) \/ ReadState(r) \/ ReadFails(r) \/ PassOver(r)
         \/ Choose(r) \/ Unmatched(r)
  PROVE  WorldInv'
<1> r \in Clients
  BY DEF Clients
<1> TypeOK /\ WorldOf(r)
  BY DEF FlowInv, WorldInv
<1>0. /\ req[r] \in ReqState
      /\ req[r].pc \in {"idle", "match"}
      /\ req[r].answer = "pending"
      /\ during[r] \in [Names -> SUBSET States]
  BY DEF FlowInv, TypeOK, PickInv,
         Arrive, ReadState, ReadFails, PassOver, Choose, Unmatched, Matching
<1>1. CASE Arrive(r)
  <2> DEFINE rec == [req[r] EXCEPT !.pc = "match"]
  <2>1. /\ rec.pc = "match" /\ rec.memo = req[r].memo
        /\ rec.at = req[r].at /\ rec.answer = "pending"
    BY <1>0 DEF ReqState
  <2>2. req[r] = IdleReq
    BY <1>1 DEF Arrive, WorldOf
  <2>3. /\ \A n \in Names : rec.memo[n] = None
        /\ rec.at = 1
    BY <2>1, <2>2 DEF IdleReq
  <2>4. /\ Set(r, rec) /\ UNCHANGED doc
        /\ during' = [during EXCEPT ![r] = [n \in Names |-> {doc[n].state}]]
    BY <1>1 DEF Arrive, Watch, stored
  <2>5. /\ \A o \in Requests : o # r => during'[o] = during[o]
        /\ \A n \in Names : doc[n].state \in during'[r][n]
    BY <2>4 DEF TypeOK
  <2>6. \A i \in DOMAIN Candidates[r] : ~(i < 1)
    BY ScenarioAssumption
  <2> HIDE DEF rec
  <2>7. req'[r] = rec
    BY <2>4, SetRecord
  <2>8. WorldOf(r)'
    BY <2>1, <2>3, <2>4, <2>5, <2>6, <2>7 DEF WorldOf, OneWorld
  <2> QED BY <2>4, <2>5, <2>8, LoneWorld
<1>2. CASE ReadState(r)
  <2> DEFINE n == Candidate(r).scenario
             rec == [req[r] EXCEPT !.memo[n] = doc[n].state]
  <2>0. n \in Names /\ doc[n].state \in States /\ req[r].pc = "match"
    BY <1>2, MatchingCandidate DEF ReadState, TypeOK, Document, Stub, Matching
  <2>1. /\ rec.pc = "match" /\ rec.memo = [req[r].memo EXCEPT ![n] = doc[n].state]
        /\ rec.at = req[r].at /\ rec.failed = req[r].failed /\ rec.answer = "pending"
        /\ req[r].memo \in [Names -> States \cup {None}]
    BY <1>0, <2>0 DEF ReqState
  <2>2. Set(r, rec) /\ UNCHANGED <<doc, during>> /\ req[r].memo[n] = None
    BY <1>2 DEF ReadState, stored, Unread
  <2> HIDE DEF rec, n
  <2>3. \A m \in Names : rec.memo[m] \in {None} \cup during[r][m]
    BY <2>0, <2>1 DEF WorldOf
  <2>4. ASSUME ~rec.failed, NEW i \in DOMAIN Candidates[r], i < rec.at
        PROVE  LET stub == Candidates[r][i]
               IN /\ stub.required \notin {None, rec.memo[stub.scenario]}
                  /\ rec.memo[stub.scenario] # None
    <3>1. RuledOut(r, i)
      BY <2>0, <2>1, <2>4 DEF WorldOf
    <3>2. Candidates[r][i].scenario \in Names
      BY CandidateType DEF Stub
    <3>3. Candidates[r][i].scenario # n
      BY <2>2, <3>1 DEF RuledOut
    <3>4. rec.memo[Candidates[r][i].scenario] = req[r].memo[Candidates[r][i].scenario]
      BY <2>1, <3>2, <3>3
    <3> QED BY <3>1, <3>4 DEF RuledOut
  <2> QED BY <2>0, <2>1, <2>2, <2>3, <2>4, GoOnWorld
<1>3. CASE ReadFails(r)
  <2> DEFINE rec == [req[r] EXCEPT !.failed = TRUE, !.at = @ + 1]
  <2>1. /\ rec.pc = "match" /\ rec.memo = req[r].memo /\ rec.failed
        /\ rec.answer = "pending" /\ req[r].pc = "match"
    BY <1>0, <1>3 DEF ReqState, ReadFails, Matching
  <2>2. Set(r, rec) /\ UNCHANGED <<doc, during>>
    BY <1>3 DEF ReadFails, stored, history
  <2> HIDE DEF rec
  <2>3. \A n \in Names : rec.memo[n] \in {None} \cup during[r][n]
    BY <2>1 DEF WorldOf
  <2> QED BY <2>1, <2>2, <2>3, GoOnWorld
<1>4. CASE PassOver(r)
  <2> DEFINE rec == [req[r] EXCEPT !.at = @ + 1]
  <2>1. /\ rec.pc = "match" /\ rec.memo = req[r].memo /\ rec.failed = req[r].failed
        /\ rec.answer = "pending" /\ req[r].pc = "match" /\ rec.at = req[r].at + 1
    BY <1>0, <1>4 DEF ReqState, PassOver, Matching
  <2>2. Set(r, rec) /\ UNCHANGED <<doc, during>>
    BY <1>4 DEF PassOver, stored, history
  <2>3. RuledOut(r, req[r].at)
    BY <1>4 DEF PassOver, Unread, RuledOut, Candidate
  <2> HIDE DEF rec
  <2>4. \A n \in Names : rec.memo[n] \in {None} \cup during[r][n]
    BY <2>1 DEF WorldOf
  <2>5. ASSUME ~rec.failed, NEW i \in DOMAIN Candidates[r], i < rec.at
        PROVE  RuledOut(r, i)
    <3>1. i \in Nat /\ req[r].at \in Nat
      BY <1>0, ScenarioAssumption DEF ReqState
    <3>2. CASE i < req[r].at
      BY <2>1, <2>5, <3>2 DEF WorldOf
    <3>3. CASE i = req[r].at
      BY <2>3, <3>3
    <3> QED BY <2>1, <2>5, <3>1, <3>2, <3>3
  <2> QED BY <2>1, <2>2, <2>4, <2>5, GoOnWorld DEF RuledOut
<1>5. CASE Choose(r)
  <2> DEFINE answer == IF req[r].failed THEN "unavailable" ELSE "served"
             pc == IF req[r].failed \/ Candidate(r).new = None THEN "done"
                   ELSE IF Candidate(r).required = None THEN "upsert" ELSE "get"
             rec == [req[r] EXCEPT !.answer = answer, !.pc = pc]
  <2>1. Set(r, rec) /\ UNCHANGED <<doc, during>>
    BY <1>5 DEF Choose, stored, history
  <2>2. /\ pc \in {"done", "upsert", "get"}
        /\ answer = "unavailable" \/ (answer = "served" /\ ~req[r].failed)
    OBVIOUS
  <2> HIDE DEF answer, pc
  <2>3. rec.pc = pc /\ rec.at = req[r].at /\ rec.answer = answer
    BY <1>0 DEF ReqState
  <2> HIDE DEF rec
  <2>4. req'[r] = rec
    BY <2>1, SetRecord
  <2>5. OneWorld(r)'
    BY <1>5, <2>1, <2>2, <2>3, <2>4, ChosenWorld DEF OneWorld
  <2>6. WorldOf(r)'
    BY <2>2, <2>3, <2>4, <2>5 DEF WorldOf
  <2> QED BY <2>1, <2>6, LoneWorld
<1>6. CASE Unmatched(r)
  <2> DEFINE answer == IF req[r].failed THEN "unavailable" ELSE "unmatched"
             rec == [req[r] EXCEPT !.pc = "done", !.answer = answer]
  <2>1. Set(r, rec) /\ UNCHANGED <<doc, during>>
    BY <1>6 DEF Unmatched, stored, history
  <2>2. answer = "unavailable" \/ (answer = "unmatched" /\ ~req[r].failed)
    OBVIOUS
  <2> HIDE DEF answer
  <2>3. rec.pc = "done" /\ rec.answer = answer
    BY <1>0 DEF ReqState
  <2> HIDE DEF rec
  <2>4. req'[r] = rec
    BY <2>1, SetRecord
  <2>5. OneWorld(r)'
    BY <1>6, <2>1, <2>2, <2>3, <2>4, UnmatchedWorld DEF OneWorld
  <2>6. WorldOf(r)'
    BY <2>3, <2>4, <2>5 DEF WorldOf
  <2> QED BY <2>1, <2>6, LoneWorld
<1> QED BY <1>1, <1>2, <1>3, <1>4, <1>5, <1>6

(* Once answered, a request's own steps change nothing, nor do the others'. *)
LEMMA AfterWorld ==
  ASSUME FlowInv, WorldInv, NEW r \in Clients, NEW rec, Set(r, rec),
         \/ UNCHANGED <<doc, during>>
         \/ \E n \in Names, d \in Document : Write(n, d),
         r \in Requests => /\ req[r].pc \notin {"idle", "match"}
                           /\ rec.pc \notin {"idle", "match"}
                           /\ rec.answer = req[r].answer /\ rec.at = req[r].at
  PROVE  WorldInv'
<1>1. req'[r] = rec /\ \A o \in Clients : o # r => req'[o] = req[o]
  BY SetRecord DEF FlowInv
<1> SUFFICES ASSUME NEW o \in Requests PROVE WorldOf(o)'
  BY DEF WorldInv
<1>2. CASE o # r
  <2>1. req'[o] = req[o]
    BY <1>1, <1>2 DEF Clients
  <2> QED BY <2>1, OthersWorld DEF WorldInv
<1>3. CASE o = r
  <2>1. during'[o] = during[o]
    <3>1. o \notin Resets
      BY ScenarioAssumption DEF Clients
    <3> QED BY <1>3, <3>1 DEF Write
  <2> QED BY <1>1, <1>3, <2>1, AnsweredWorld DEF WorldInv
<1> QED BY <1>2, <1>3

(* A client that writes has been answered, or is none of the requests. *)
LEMMA PutWorld ==
  ASSUME FlowInv, WorldInv, NEW r \in Clients, NEW n \in Names, NEW s \in States,
         Put(r, n, s), r \in Requests => req[r].pc \notin {"idle", "match"}
  PROVE  WorldInv'
<1> DEFINE d == [state |-> s, cas |-> ver[n] + 1]
           rec == [req[r] EXCEPT !.pc = "note", !.name = n, !.landed = ver[n] + 1]
<1>1. Write(n, d) /\ Set(r, rec)
  BY DEF Put
<1>2. d \in Document /\ req[r] \in ReqState
  BY DEF FlowInv, TypeOK, Document
<1>3. rec.pc = "note" /\ rec.answer = req[r].answer /\ rec.at = req[r].at
  BY <1>2 DEF ReqState
<1> HIDE DEF d, rec
<1> QED BY <1>1, <1>2, <1>3, AfterWorld

(* So do the steps of a transition. *)
LEMMA TransitionWorld ==
  ASSUME FlowInv, WorldInv, NEW r \in Requests,
         Get(r) \/ Swap(r) \/ SwapLost(r) \/ Upsert(r)
  PROVE  WorldInv'
<1> r \in Clients
  BY DEF Clients
<1>0. /\ req[r] \in ReqState
      /\ req[r].pc \in {"get", "put", "upsert"}
  BY DEF FlowInv, TypeOK, Get, Swap, SwapLost, Upsert
<1>1. CASE Get(r) \/ SwapLost(r)
  <2>1. UNCHANGED <<doc, during>>
    BY <1>1 DEF Get, SwapLost, stored, history
  <2>2. ASSUME NEW rec, Set(r, rec), rec.pc \in {"put", "done", "get"},
               rec.answer = req[r].answer, rec.at = req[r].at
        PROVE  WorldInv'
    BY <1>0, <2>1, <2>2, AfterWorld
  <2>3. \/ Set(r, [req[r] EXCEPT !.pc = "done"])
        \/ Set(r, [req[r] EXCEPT !.pc = "put", !.cas = doc[Candidate(r).scenario].cas])
        \/ Set(r, [req[r] EXCEPT !.pc = "get", !.tries = @ - 1])
    BY <1>1 DEF Get, SwapLost
  <2> QED BY <1>0, <2>2, <2>3 DEF ReqState
<1>2. CASE Swap(r) \/ Upsert(r)
  <2>1. PICK n \in Names, s \in States : n = Candidate(r).scenario /\ s = Candidate(r).new
    BY <1>0, PickedStub DEF Stub
  <2>2. Put(r, n, s)
    BY <1>2, <2>1 DEF Swap, Upsert, Put, Write, Set
  <2> QED BY <1>0, <2>2, PutWorld
<1> QED BY <1>1, <1>2

(* And so does the end of a call. *)
LEMMA ClientWorld ==
  ASSUME FlowInv, WorldInv, NEW r \in Clients,
         NoteToken(r) \/ CallFails(r) \/ Unheard(r)
  PROVE  WorldInv'
<1>0. req[r] \in ReqState /\ req[r].pc \in {"get", "put", "upsert", "note"}
  BY DEF FlowInv, TypeOK, NoteToken, CallFails, Unheard
<1>1. UNCHANGED <<doc, during>>
  BY DEF NoteToken, CallFails, Unheard, stored, history
<1>2. ASSUME NEW rec, Set(r, rec), rec.pc = "done",
             rec.answer = req[r].answer, rec.at = req[r].at
      PROVE  WorldInv'
  BY <1>0, <1>1, <1>2, AfterWorld
<1>3. \/ Set(r, [req[r] EXCEPT !.pc = "done"])
      \/ Set(r, [req[r] EXCEPT !.pc = "done", !.failed = TRUE])
  BY DEF NoteToken, CallFails, Unheard
<1> QED BY <1>0, <1>2, <1>3 DEF ReqState

(* A step that leaves the clients alone keeps what they have seen. *)
LEMMA AsideWorld ==
  ASSUME FlowInv, WorldInv, UNCHANGED req,
         \/ UNCHANGED doc /\ \A o \in Requests : during'[o] = during[o]
         \/ \E n \in Names, d \in Document : Write(n, d)
  PROVE  WorldInv'
BY OthersWorld DEF WorldInv

(* Answers stay as of one world. *)
LEMMA WorldInductive == FlowInv /\ WorldInv /\ [Next]_vars => WorldInv'
<1> SUFFICES ASSUME FlowInv, WorldInv, [Next]_vars PROVE WorldInv'
  OBVIOUS
<1>1. ASSUME NEW n \in Names, Persist(n) PROVE WorldInv'
  BY <1>1, AsideWorld DEF Persist, history
<1>2. ASSUME NEW r \in Requests,
             \/ Arrive(r) \/ ReadState(r) \/ ReadFails(r) \/ PassOver(r)
             \/ Choose(r) \/ Unmatched(r)
      PROVE  WorldInv'
  BY <1>2, MatchWorld
<1>3. ASSUME NEW r \in Requests, Get(r) \/ Swap(r) \/ SwapLost(r) \/ Upsert(r)
      PROVE  WorldInv'
  BY <1>3, TransitionWorld
<1>4. ASSUME NEW r \in Setters, SetState(r) PROVE WorldInv'
  <2>1. r \in Clients /\ r \notin Requests
    BY ScenarioAssumption DEF Clients
  <2> QED BY <1>4, <2>1, PossibleType, PutWorld DEF SetState
<1>5. ASSUME NEW r \in Clients, NoteToken(r) \/ CallFails(r) \/ Unheard(r)
      PROVE  WorldInv'
  BY <1>5, ClientWorld
<1>6. ASSUME NEW x \in Resets, NEW n \in Names, RemoveKey(x, n) PROVE WorldInv'
  BY <1>6, AsideWorld, RemoveWrites DEF RemoveKey
<1>7. ASSUME NEW x \in Resets, BeginReset(x) PROVE WorldInv'
  <2>1. \A o \in Requests : o # x
    BY ScenarioAssumption DEF Clients
  <2>2. /\ UNCHANGED <<doc, req>>
        /\ during' = [during EXCEPT ![x] = [n \in Names |-> {doc[n].state}]]
    BY <1>7 DEF BeginReset, Watch, stored
  <2>3. \A o \in Requests : during'[o] = during[o]
    BY <2>1, <2>2 DEF FlowInv, TypeOK
  <2> QED BY <2>2, <2>3, AsideWorld
<1>8. ASSUME NEW x \in Resets,
             \/ ScanFails(x) \/ EndReset(x)
             \/ \E n \in Names : ScanKey(x, n) \/ RemoveFails(x, n)
      PROVE  WorldInv'
  BY <1>8, AsideWorld DEF ScanFails, EndReset, ScanKey, RemoveFails, stored, history
<1>9. CASE UNCHANGED vars
  BY <1>9, AsideWorld DEF vars
<1> QED BY <1>1, <1>2, <1>3, <1>4, <1>5, <1>6, <1>7, <1>8, <1>9 DEF Next

-----------------------------------------------------------------------------
(* Nobody has remembered, or been answered, anything. *)
LEMMA InitAnswer == Init => WorldInv /\ LossInv
<1> SUFFICES ASSUME Init, NEW r \in Requests PROVE WorldOf(r) /\ LossOf(r)
  BY DEF WorldInv, LossInv
<1>1. req[r] = IdleReq
  BY DEF Init, Clients
<1>2. \A n \in Names : IdleReq.memo[n] = None
  BY DEF IdleReq
<1>3. IdleReq.pc = "idle" /\ IdleReq.answer = "pending"
  BY DEF IdleReq
<1>4. WorldOf(r)
  BY <1>1, <1>3 DEF WorldOf, OneWorld
<1>5. LossOf(r)
  BY <1>1, <1>2, <1>3 DEF LossOf, MemoOf, HoldOf, LostOf
<1> QED BY <1>4, <1>5

(* A mock request is answered as of one state of each scenario it looked at,
   which the scenario had while the request was being matched: whatever the
   other requests, setters and resets do meanwhile, it never falls between two
   stubs, nor is served by one that a state it could not read might have barred
   (scenarioGate's memo, ParsedRequest.ScenarioError). *)
THEOREM AlwaysAnsweredInOneWorld == Spec => []AnsweredInOneWorld
<1>1. Init => FlowInv /\ WorldInv
  BY InitFlowInv, InitAnswer
<1>2. FlowInv /\ WorldInv /\ [Next]_vars => FlowInv' /\ WorldInv'
  BY FlowInductive, WorldInductive
<1>3. WorldInv => AnsweredInOneWorld
  BY DEF WorldInv, WorldOf, OneWorld, AnsweredInOneWorld
<1> QED BY <1>1, <1>2, <1>3, PTL DEF Spec

(* A gated transition that is dropped without an error has lost to another
   writer: the scenario was written after its gate was read, whatever the number
   of rounds and of replicas, and the first move of a scenario that has no
   document is no exception (Client.Transition). *)
THEOREM OnlyLostToAnother == Spec => []LostOnlyToAnother
<1>1. Init => FlowInv /\ WorldInv /\ LossInv
  BY InitFlowInv, InitAnswer
<1>2. FlowInv /\ WorldInv /\ LossInv /\ [Next]_vars => FlowInv' /\ WorldInv' /\ LossInv'
  BY FlowInductive, WorldInductive, LossInductive
<1>3. LossInv => LostOnlyToAnother
  BY DEF LossInv, LossOf, LostOf, LostOnlyToAnother
<1> QED BY <1>1, <1>2, <1>3, PTL DEF Spec

-----------------------------------------------------------------------------
(* What a reset has to see.  A document it knew to be settled either goes   *)
(* through Started, or stays in being until the scan has found it and its   *)
(* key waits to be removed.                                                 *)

\* What the disk holds is the document, once it has caught up.
DiskInv ==
  \A n \in Names : /\ disk[n].seq <= ver[n]
                   /\ disk[n].seq = ver[n] => (disk[n].there <=> doc[n].cas # 0)

\* The document is there, and the reset has found it or will.
Pending(rec, n) ==
  /\ rec.pc = "scan"
  /\ doc[n].cas # 0
  /\ n \in rec.left => (disk[n].seq >= rec.need[n] => disk[n].there)
  /\ n \notin rec.left => n \in rec.keys

\* As far as one reset and one document it knew are concerned.
RestartOf(rec, seen, n) == Started \in seen[n] \/ Pending(rec, n)

RestartInv ==
  \A x \in Resets :
    (reset[x].pc # "idle" /\ ~reset[x].failed) =>
      \A n \in reset[x].known : RestartOf(reset[x], during[x], n)

SettledInv == FlowInv /\ DiskInv /\ RestartInv

\* A write of a document is not on disk yet, and a reset sees it.
LEMMA WriteSeen ==
  ASSUME SettledInv, NEW n \in Names, NEW d \in Document, Write(n, d), disk' = disk,
         d.cas # 0 \/ d.state = Started
  PROVE  /\ DiskInv'
         /\ \A x \in Resets, m \in Names :
              /\ RestartOf(reset[x], during[x], m) => RestartOf(reset[x], during[x], m)'
                   \/ reset'[x] # reset[x]
              /\ during'[x][n] = during[x][n] \cup {d.state}
              /\ m # n => during'[x][m] = during[x][m] /\ doc'[m] = doc[m]
<1>0. /\ doc \in [Names -> Document] /\ ver \in [Names -> Nat]
      /\ disk \in [Names -> [seq : Nat, there : BOOLEAN]]
      /\ during \in [Requests \cup Resets -> [Names -> SUBSET States]]
  BY DEF SettledInv, FlowInv, TypeOK
<1>1. /\ doc' = [doc EXCEPT ![n] = d] /\ ver' = [ver EXCEPT ![n] = @ + 1]
      /\ \A x \in Resets : during'[x] = [during[x] EXCEPT ![n] = @ \cup {d.state}]
  BY DEF Write
<1>2. DiskInv'
  <2> SUFFICES ASSUME NEW m \in Names
               PROVE  /\ disk[m].seq <= ver'[m]
                      /\ disk[m].seq = ver'[m] => (disk[m].there <=> doc'[m].cas # 0)
    BY DEF DiskInv
  <2>1. /\ disk[m].seq <= ver[m] /\ disk[m].seq \in Nat /\ ver[m] \in Nat
        /\ disk[m].seq = ver[m] => (disk[m].there <=> doc[m].cas # 0)
    BY <1>0 DEF SettledInv, DiskInv
  <2> QED BY <1>0, <1>1, <2>1
<1>3. ASSUME NEW x \in Resets, NEW m \in Names
      PROVE  /\ during'[x][n] = during[x][n] \cup {d.state}
             /\ m # n => during'[x][m] = during[x][m] /\ doc'[m] = doc[m]
  <2>1. during[x] \in [Names -> SUBSET States]
    BY <1>0
  <2> QED BY <1>0, <1>1, <2>1
<1>4. ASSUME NEW x \in Resets, NEW m \in Names, RestartOf(reset[x], during[x], m),
             reset'[x] = reset[x]
      PROVE  RestartOf(reset[x], during[x], m)'
  <2>1. CASE m # n
    BY <1>3, <1>4, <2>1 DEF RestartOf, Pending
  <2>2. CASE m = n
    <3>1. doc'[n] = d
      BY <1>0, <1>1
    <3> QED BY <1>3, <1>4, <2>2, <3>1 DEF RestartOf, Pending
  <2> QED BY <2>1, <2>2
<1> QED BY <1>2, <1>3, <1>4

\* A client's write.
LEMMA PutSettles ==
  ASSUME SettledInv, FlowInv', NEW r \in Clients, NEW n \in Names, NEW s \in States, Put(r, n, s)
  PROVE  SettledInv'
<1> DEFINE d == [state |-> s, cas |-> ver[n] + 1]
<1>1. Write(n, d) /\ disk' = disk /\ reset' = reset
  BY DEF Put
<1>2. d \in Document /\ d.cas # 0
  BY DEF SettledInv, FlowInv, TypeOK, Document
<1> HIDE DEF d
<1>3. /\ DiskInv'
      /\ \A x \in Resets, m \in Names :
           RestartOf(reset[x], during[x], m) => RestartOf(reset[x], during[x], m)'
  BY <1>1, <1>2, WriteSeen
<1>4. \A x \in Resets : reset[x].known \subseteq Names
  BY DEF SettledInv, FlowInv, TypeOK, ResetState
<1>5. RestartInv'
  BY <1>1, <1>3, <1>4 DEF SettledInv, RestartInv
<1> QED BY <1>3, <1>5 DEF SettledInv

\* A step that leaves the documents, the disk and the resets alone.
LEMMA AsideSettles ==
  ASSUME SettledInv, FlowInv', UNCHANGED <<doc, ver, disk, reset>>,
         \A x \in Resets : during'[x] = during[x]
  PROVE  SettledInv'
<1>1. DiskInv'
  BY DEF SettledInv, DiskInv
<1>2. RestartInv'
  BY DEF SettledInv, RestartInv, RestartOf, Pending
<1> QED BY <1>1, <1>2 DEF SettledInv

LEMMA PersistSettles ==
  ASSUME SettledInv, FlowInv', NEW n \in Names, Persist(n)
  PROVE  SettledInv'
<1>1. /\ disk \in [Names -> [seq : Nat, there : BOOLEAN]] /\ ver \in [Names -> Nat]
      /\ disk' = [disk EXCEPT ![n] = [seq |-> ver[n], there |-> doc[n].cas # 0]]
      /\ UNCHANGED <<doc, ver, reset, during>>
  BY DEF SettledInv, FlowInv, TypeOK, Persist, history
<1>2. /\ disk'[n].seq = ver[n] /\ (disk'[n].there <=> doc[n].cas # 0)
      /\ \A m \in Names : m # n => disk'[m] = disk[m]
  BY <1>1
<1>3. DiskInv'
  BY <1>1, <1>2 DEF SettledInv, DiskInv
<1>4. RestartInv'
  <2> SUFFICES ASSUME NEW x \in Resets, reset[x].pc # "idle", ~reset[x].failed,
                      NEW m \in reset[x].known
               PROVE  RestartOf(reset[x], during[x], m)'
    BY <1>1 DEF RestartInv
  <2>1. RestartOf(reset[x], during[x], m) /\ m \in Names
    BY DEF SettledInv, RestartInv, FlowInv, TypeOK, ResetState
  <2> QED BY <1>1, <1>2, <2>1 DEF RestartOf, Pending
<1> QED BY <1>3, <1>4 DEF SettledInv

\* A step of one reset that keeps its part.
LEMMA ResetSettles ==
  ASSUME SettledInv, FlowInv', DiskInv', NEW x \in Resets, NEW rec, SetReset(x, rec),
         \A y \in Resets \ {x} : \A m \in reset[y].known :
           RestartOf(reset[y], during[y], m) => RestartOf(reset[y], during[y], m)',
         (rec.pc # "idle" /\ ~rec.failed) =>
           \A m \in rec.known : RestartOf(rec, during[x], m)'
  PROVE  SettledInv'
<1>1. reset'[x] = rec /\ \A y \in Resets \ {x} : reset'[y] = reset[y]
  BY DEF SetReset, SettledInv, FlowInv, TypeOK
<1>2. rec' = rec
  OBVIOUS
<1>3. RestartInv'
  <2> SUFFICES ASSUME NEW y \in Resets, reset'[y].pc # "idle", ~reset'[y].failed,
                      NEW m \in reset'[y].known
               PROVE  RestartOf(reset[y], during[y], m)'
    BY DEF RestartInv
  <2>1. CASE y = x
    BY <1>1, <2>1 DEF RestartOf, Pending
  <2>2. CASE y # x
    BY <1>1, <2>2 DEF SettledInv, RestartInv
  <2> QED BY <2>1, <2>2
<1> QED BY <1>3 DEF SettledInv

\* A reset begins, and what it knows is on disk or waited for.
LEMMA BeginSettles ==
  ASSUME SettledInv, FlowInv', NEW x \in Resets, BeginReset(x)
  PROVE  SettledInv'
<1> PICK noted \in [Names -> Nat] : noted = tokens[PodOf[x]]
  BY ScenarioAssumption DEF SettledInv, FlowInv, TypeOK
<1> PICK known \in SUBSET Names : known = {n \in Names : ver[n] \in {noted[n], disk[n].seq}}
  OBVIOUS
<1> PICK old \in ResetState : old = reset[x]
  BY DEF SettledInv, FlowInv, TypeOK
<1> PICK rec : rec = [old EXCEPT !.pc = "scan", !.need = noted, !.left = Names, !.known = known]
  OBVIOUS
<1>1. SetReset(x, rec) /\ UNCHANGED <<doc, ver, disk>>
  BY DEF BeginReset, stored
<1>2. rec.pc = "scan" /\ rec.need = noted /\ rec.left = Names /\ rec.known = known
  BY DEF ResetState
<1>3. /\ \A n \in Names : during'[x][n] = {doc[n].state}
      /\ \A y \in Resets \ {x} : during'[y] = during[y]
  BY DEF BeginReset, Watch, SettledInv, FlowInv, TypeOK
<1>4. ASSUME NEW m \in known PROVE RestartOf(rec, during[x], m)'
  <2>1. CASE doc[m].cas = 0
    <3>1. doc[m].state = Started
      BY <2>1 DEF SettledInv, FlowInv, DocInv
    <3> QED BY <1>3, <3>1 DEF RestartOf
  <2>2. CASE doc[m].cas # 0
    <3>1. /\ ver[m] = noted[m] \/ ver[m] = disk[m].seq
          /\ disk[m].seq <= ver[m] /\ disk[m].seq \in Nat /\ ver[m] \in Nat
          /\ disk[m].seq = ver[m] => disk[m].there
      BY <2>2 DEF SettledInv, DiskInv, FlowInv, TypeOK
    <3>2. disk[m].seq >= noted[m] => disk[m].there
      BY <3>1
    <3> QED BY <1>1, <1>2, <2>2, <3>2 DEF RestartOf, Pending
  <2> QED BY <2>1, <2>2
<1>5. DiskInv'
  BY <1>1 DEF SettledInv, DiskInv
<1>6. ASSUME NEW y \in Resets \ {x}, NEW m \in reset[y].known, RestartOf(reset[y], during[y], m)
      PROVE  RestartOf(reset[y], during[y], m)'
  <2>1. reset'[y] = reset[y]
    BY <1>1 DEF SetReset, SettledInv, FlowInv, TypeOK
  <2> QED BY <1>1, <1>3, <1>6, <2>1 DEF RestartOf, Pending
<1> QED BY <1>1, <1>2, <1>4, <1>5, <1>6, ResetSettles

\* The scan reaches a document, fails, or is over; a removal fails.
LEMMA ScanSettles ==
  ASSUME SettledInv, FlowInv', NEW x \in Resets,
         \/ ScanFails(x) \/ EndReset(x)
         \/ \E n \in Names : ScanKey(x, n) \/ RemoveFails(x, n)
  PROVE  SettledInv'
<1> PICK old \in ResetState : old = reset[x]
  BY DEF SettledInv, FlowInv, TypeOK
<1>1. UNCHANGED <<doc, ver, disk, during>>
  BY DEF ScanFails, EndReset, ScanKey, RemoveFails, stored, history
<1>2. old.pc # "idle" /\ ~old.failed => \A m \in old.known : RestartOf(old, during[x], m)
  BY DEF SettledInv, RestartInv
<1>3. PICK rec :
        /\ SetReset(x, rec)
        /\ (rec.pc # "idle" /\ ~rec.failed) => \A m \in rec.known : RestartOf(rec, during[x], m)
  <2>1. CASE ScanFails(x)
    <3>1. SetReset(x, [old EXCEPT !.left = {}, !.keys = {}, !.failed = TRUE])
      BY <2>1 DEF ScanFails
    <3> PICK rec : rec = [old EXCEPT !.left = {}, !.keys = {}, !.failed = TRUE]
      OBVIOUS
    <3>2. rec.failed
      BY DEF ResetState
    <3> QED BY <3>1, <3>2
  <2>2. CASE EndReset(x)
    <3>1. /\ SetReset(x, [old EXCEPT !.pc = "done"])
          /\ old.pc = "scan" /\ old.left = {} /\ old.keys = {}
      BY <2>2 DEF EndReset, Removing
    <3> PICK rec : rec = [old EXCEPT !.pc = "done"]
      OBVIOUS
    <3>2. rec.failed = old.failed /\ rec.known = old.known
      BY DEF ResetState
    <3>3. ~old.failed => \A m \in old.known : Started \in during[x][m]
      BY <1>2, <3>1 DEF RestartOf, Pending
    <3> QED BY <3>1, <3>2, <3>3 DEF RestartOf
  <2>3. ASSUME NEW n \in Names, RemoveFails(x, n)
        PROVE  \E rec : /\ SetReset(x, rec)
                        /\ (rec.pc # "idle" /\ ~rec.failed) =>
                             \A m \in rec.known : RestartOf(rec, during[x], m)
    <3>1. SetReset(x, [old EXCEPT !.keys = @ \ {n}, !.failed = TRUE])
      BY <2>3 DEF RemoveFails
    <3> PICK rec : rec = [old EXCEPT !.keys = @ \ {n}, !.failed = TRUE]
      OBVIOUS
    <3>2. rec.failed
      BY DEF ResetState
    <3> QED BY <3>1, <3>2
  <2>4. ASSUME NEW n \in Names, ScanKey(x, n)
        PROVE  \E rec : /\ SetReset(x, rec)
                        /\ (rec.pc # "idle" /\ ~rec.failed) =>
                             \A m \in rec.known : RestartOf(rec, during[x], m)
    <3> PICK k : k = IF disk[n].there THEN old.keys \cup {n} ELSE old.keys
      OBVIOUS
    <3>1. /\ SetReset(x, [old EXCEPT !.left = @ \ {n}, !.keys = k])
          /\ old.pc = "scan" /\ n \in old.left /\ disk[n].seq >= old.need[n]
      BY <2>4 DEF ScanKey
    <3> PICK rec : rec = [old EXCEPT !.left = @ \ {n}, !.keys = k]
      OBVIOUS
    <3>2. /\ rec.failed = old.failed /\ rec.known = old.known /\ rec.pc = old.pc
          /\ rec.need = old.need /\ rec.left = old.left \ {n} /\ rec.keys = k
      BY DEF ResetState
    <3>3. ASSUME NEW m \in old.known, RestartOf(old, during[x], m)
          PROVE  RestartOf(rec, during[x], m)
      <4>1. CASE m = n
        BY <3>1, <3>2, <3>3, <4>1 DEF RestartOf, Pending
      <4>2. CASE m # n
        BY <3>2, <3>3, <4>2 DEF RestartOf, Pending
      <4> QED BY <4>1, <4>2
    <3>4. (rec.pc # "idle" /\ ~rec.failed) => \A m \in rec.known : RestartOf(rec, during[x], m)
      BY <1>2, <3>2, <3>3
    <3> QED BY <3>1, <3>4
  <2> QED BY <2>1, <2>2, <2>3, <2>4
<1>4. DiskInv'
  BY <1>1 DEF SettledInv, DiskInv
<1>5. ASSUME NEW y \in Resets \ {x}, NEW m \in reset[y].known, RestartOf(reset[y], during[y], m)
      PROVE  RestartOf(reset[y], during[y], m)'
  <2>1. reset'[y] = reset[y]
    BY <1>3 DEF SetReset, SettledInv, FlowInv, TypeOK
  <2> QED BY <1>1, <1>5, <2>1 DEF RestartOf, Pending
<1>6. (rec.pc # "idle" /\ ~rec.failed) => \A m \in rec.known : RestartOf(rec, during[x], m)'
  BY <1>1, <1>3 DEF RestartOf, Pending
<1> QED BY <1>3, <1>4, <1>5, <1>6, ResetSettles

\* The document of a key that is removed has been in Started by then.
LEMMA RemoveSettles ==
  ASSUME SettledInv, FlowInv', NEW x \in Resets, NEW n \in Names, RemoveKey(x, n)
  PROVE  SettledInv'
<1> PICK old \in ResetState : old = reset[x]
  BY DEF SettledInv, FlowInv, TypeOK
<1> PICK rec : rec = [old EXCEPT !.keys = @ \ {n}]
  OBVIOUS
<1>1. SetReset(x, rec) /\ disk' = disk
  BY DEF RemoveKey, stored
<1>2. /\ rec.failed = old.failed /\ rec.known = old.known /\ rec.pc = old.pc
      /\ rec.need = old.need /\ rec.left = old.left /\ rec.keys = old.keys \ {n}
  BY DEF ResetState
<1>3. \A y \in Resets \ {x} : reset'[y] = reset[y]
  BY <1>1 DEF SetReset, SettledInv, FlowInv, TypeOK
<1>4. \A y \in Resets : reset[y].known \subseteq Names
  BY DEF SettledInv, FlowInv, TypeOK, ResetState
<1>5. old.pc # "idle" /\ ~old.failed => \A m \in old.known : RestartOf(old, during[x], m)
  BY DEF SettledInv, RestartInv
<1>6. CASE doc[n].cas = 0
  <2>1. UNCHANGED <<doc, ver, disk, during>>
    BY <1>6 DEF RemoveKey, stored
  <2>2. DiskInv'
    BY <2>1 DEF SettledInv, DiskInv
  <2>3. ASSUME NEW m \in old.known, RestartOf(old, during[x], m)
        PROVE  RestartOf(rec, during[x], m)'
    BY <1>2, <1>6, <2>1, <2>3 DEF RestartOf, Pending
  <2>4. (rec.pc # "idle" /\ ~rec.failed) => \A m \in rec.known : RestartOf(rec, during[x], m)'
    BY <1>2, <1>5, <2>3
  <2>5. ASSUME NEW y \in Resets \ {x}, NEW m \in reset[y].known, RestartOf(reset[y], during[y], m)
        PROVE  RestartOf(reset[y], during[y], m)'
    BY <1>3, <2>1, <2>5 DEF RestartOf, Pending
  <2> QED BY <1>1, <2>2, <2>4, <2>5, ResetSettles
<1>7. CASE doc[n].cas # 0
  <2>1. Write(n, Absent) /\ Absent \in Document /\ Absent.state = Started
    BY <1>7, ScenarioAssumption DEF RemoveKey, Absent, Document
  <2>2. /\ DiskInv'
        /\ \A y \in Resets, m \in Names :
             /\ RestartOf(reset[y], during[y], m) => RestartOf(reset[y], during[y], m)'
                  \/ reset'[y] # reset[y]
             /\ during'[y][n] = during[y][n] \cup {Absent.state}
             /\ m # n => during'[y][m] = during[y][m] /\ doc'[m] = doc[m]
    BY <1>1, <2>1, WriteSeen
  <2>3. ASSUME NEW m \in old.known, RestartOf(old, during[x], m)
        PROVE  RestartOf(rec, during[x], m)'
    <3>1. CASE m = n
      BY <1>4, <2>1, <2>2, <3>1 DEF RestartOf
    <3>2. CASE m # n
      BY <1>1, <1>2, <1>4, <2>2, <2>3, <3>2 DEF RestartOf, Pending
    <3> QED BY <3>1, <3>2
  <2>4. (rec.pc # "idle" /\ ~rec.failed) => \A m \in rec.known : RestartOf(rec, during[x], m)'
    BY <1>2, <1>5, <2>3
  <2>5. ASSUME NEW y \in Resets \ {x}, NEW m \in reset[y].known, RestartOf(reset[y], during[y], m)
        PROVE  RestartOf(reset[y], during[y], m)'
    BY <1>3, <1>4, <2>2, <2>5
  <2> QED BY <1>1, <2>2, <2>4, <2>5, ResetSettles
<1> QED BY <1>6, <1>7

LEMMA SettledInductive ==
  ASSUME SettledInv, [Next]_vars PROVE SettledInv'
<1>0. FlowInv'
  BY FlowInductive DEF SettledInv
<1>1. ASSUME NEW n \in Names, Persist(n) PROVE SettledInv'
  BY <1>0, <1>1, PersistSettles
<1>2. ASSUME NEW r \in Requests,
             \/ Arrive(r) \/ ReadState(r) \/ ReadFails(r) \/ PassOver(r)
             \/ Choose(r) \/ Unmatched(r)
      PROVE  SettledInv'
  <2>1. UNCHANGED <<doc, ver, disk, reset>>
    BY <1>2 DEF Arrive, ReadState, ReadFails, PassOver, Choose, Unmatched, stored
  <2>2. \A x \in Resets : during'[x] = during[x]
    <3>1. CASE Arrive(r)
      <4>1. during' = [during EXCEPT ![r] = [n \in Names |-> {doc[n].state}]]
        BY <3>1 DEF Arrive, Watch
      <4>2. \A x \in Resets : x # r
        BY ScenarioAssumption DEF Clients
      <4> QED BY <4>1, <4>2 DEF SettledInv, FlowInv, TypeOK
    <3>2. CASE ~Arrive(r)
      BY <1>2, <3>2 DEF ReadState, ReadFails, PassOver, Choose, Unmatched, history
    <3> QED BY <3>1, <3>2
  <2> QED BY <1>0, <2>1, <2>2, AsideSettles
<1>3. ASSUME NEW r \in Clients, NEW n \in Names, NEW s \in States, Put(r, n, s) PROVE SettledInv'
  BY <1>0, <1>3, PutSettles
<1>4. ASSUME NEW r \in Requests, Swap(r) \/ Upsert(r) PROVE SettledInv'
  <2>1. Candidate(r).scenario \in Names /\ Candidate(r).new \in States
    <3>1. Candidates[r][req[r].at] \in Stub /\ Candidate(r).new # None
      BY <1>4, CandidateType DEF SettledInv, FlowInv, PickInv, Swap, Upsert
    <3> QED BY <3>1 DEF Candidate, Stub
  <2> QED BY <1>3, <1>4, <2>1 DEF Swap, Upsert, Clients
<1>5. ASSUME NEW r \in Requests, Get(r) \/ SwapLost(r) PROVE SettledInv'
  <2>1. UNCHANGED <<doc, ver, disk, reset, during>>
    BY <1>5 DEF Get, SwapLost, stored, history
  <2> QED BY <1>0, <2>1, AsideSettles
<1>6. ASSUME NEW r \in Setters, SetState(r) PROVE SettledInv'
  BY <1>3, <1>6, PossibleType DEF SetState, Clients
<1>7. ASSUME NEW r \in Clients, NoteToken(r) \/ CallFails(r) \/ Unheard(r) PROVE SettledInv'
  <2>1. UNCHANGED <<doc, ver, disk, reset, during>>
    BY <1>7 DEF NoteToken, CallFails, Unheard, stored, history
  <2> QED BY <1>0, <2>1, AsideSettles
<1>8. ASSUME NEW x \in Resets, BeginReset(x) PROVE SettledInv'
  BY <1>0, <1>8, BeginSettles
<1>9. ASSUME NEW x \in Resets, NEW n \in Names, RemoveKey(x, n) PROVE SettledInv'
  BY <1>0, <1>9, RemoveSettles
<1>10. ASSUME NEW x \in Resets,
              \/ ScanFails(x) \/ EndReset(x)
              \/ \E n \in Names : ScanKey(x, n) \/ RemoveFails(x, n)
       PROVE  SettledInv'
  BY <1>0, <1>10, ScanSettles
<1>11. CASE UNCHANGED vars
  BY <1>0, <1>11, AsideSettles DEF vars
<1> QED BY <1>1, <1>2, <1>4, <1>5, <1>6, <1>7, <1>8, <1>9, <1>10, <1>11 DEF Next

LEMMA InitSettled == Init => SettledInv
<1> SUFFICES ASSUME Init PROVE SettledInv
  OBVIOUS
<1>1. DiskInv
  BY DEF Init, DiskInv, Absent
<1>2. RestartInv
  BY DEF Init, RestartInv, IdleReset
<1> QED BY <1>1, <1>2, InitFlowInv DEF SettledInv

(* A reset that answers 200 has restarted every scenario: each was in Started at
   some moment since it began, unless another pod had just written it and the
   disk did not hold that yet.  The pod's own writes it waits for, and a write
   that comes while it runs only delays the removal (DeleteAllScenarios). *)
THEOREM ResetsRestart == Spec => []ResetRestarts
<1>1. SettledInv /\ [Next]_vars => SettledInv'
  BY SettledInductive
<1>2. SettledInv => ResetRestarts
  BY DEF SettledInv, RestartInv, RestartOf, Pending, ResetRestarts
<1> QED BY <1>1, <1>2, InitSettled, PTL DEF Spec
=============================================================================
