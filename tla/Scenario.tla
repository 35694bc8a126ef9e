------------------------------ MODULE Scenario ------------------------------
(***************************************************************************)
(* Stateful mocks: the gate a stub may declare on its scenario's state, and *)
(* the transition that follows once it has been chosen.                    *)
(*                                                                         *)
(* The state is a document of the store, so requests served by different   *)
(* replicas share it.  A request reads it while it is being matched, once  *)
(* per scenario, and moves it later under compare-and-swap; the admin API  *)
(* writes it unconditionally, lists it and removes it.                     *)
(*                                                                         *)
(* Matching on everything but the scenario is left out: Candidates are the *)
(* stubs whose other criteria the request meets, in selection order.  A    *)
(* stub outside every scenario requires no state and names no new one.     *)
(*                                                                         *)
(* A mutation of a document is numbered; the number is its CAS token and   *)
(* its position.  Reset works from a bulk read, which answers from what is *)
(* on disk, made to wait for the positions the pod itself has noted; when  *)
(* those are dropped again they are on disk already (module Watermark).    *)
(***************************************************************************)
EXTENDS Naturals, Sequences, FiniteSets

CONSTANTS
  Pods,         \* mockulus replicas
  Names,        \* scenarios
  States,       \* the states stubs name
  Started,      \* the initial state of every scenario
  None,         \* a stub that requires no state, or names no new one
  Requests,     \* mock requests
  Setters,      \* PUT /__admin/scenarios/{name}/state
  Resets,       \* POST /__admin/scenarios/reset
  PodOf,        \* the pod that serves each of them
  Candidates,   \* per request, the stubs that match it, in selection order
  CasAttempts,  \* rounds of a gated transition
  MaxFaults     \* bound: failed store calls

Stub == [scenario : Names, required : States \cup {None}, new : States \cup {None}]
Clients == Requests \cup Setters

ASSUME ScenarioAssumption ==
  /\ Started \in States /\ None \notin States
  /\ Requests \cap Setters = {} /\ Clients \cap Resets = {}
  /\ PodOf \in [Clients \cup Resets -> Pods]
  /\ Candidates \in [Requests -> Seq(Stub)]
  /\ CasAttempts \in Nat \ {0} /\ MaxFaults \in Nat

VARIABLES
  doc,     \* per scenario: the stored state and its CAS, 0 when there is none
  ver,     \* per scenario: mutations of its document so far
  disk,    \* per scenario: the last mutation on disk, and whether it left one
  tokens,  \* per pod and scenario: the position of the pod's last write
  req,     \* per client: where it is
  reset,   \* per reset: where it is
  during,  \* history, per client and reset: states each scenario has had since
  readAt,  \* history, per request: ver when the request read the scenario
  faults   \* how many store calls have failed

vars == <<doc, ver, disk, tokens, req, reset, during, readAt, faults>>

-----------------------------------------------------------------------------
\* An absent document reads as Started.
Absent == [state |-> Started, cas |-> 0]

IdleReq == [pc |-> "idle", at |-> 1, memo |-> [n \in Names |-> None],
            failed |-> FALSE, answer |-> "pending", tries |-> CasAttempts, cas |-> 0,
            name |-> None, landed |-> 0]

IdleReset == [pc |-> "idle", need |-> [n \in Names |-> 0], left |-> {},
              keys |-> {}, failed |-> FALSE, known |-> {}]

Init ==
  /\ doc = [n \in Names |-> Absent]
  /\ ver = [n \in Names |-> 0]
  /\ disk = [n \in Names |-> [seq |-> 0, there |-> FALSE]]
  /\ tokens = [p \in Pods |-> [n \in Names |-> 0]]
  /\ req = [r \in Clients |-> IdleReq]
  /\ reset = [x \in Resets |-> IdleReset]
  /\ during = [c \in Requests \cup Resets |-> [n \in Names |-> {}]]
  /\ readAt = [r \in Requests |-> [n \in Names |-> 0]]
  /\ faults = 0

Set(r, rec) == req' = [req EXCEPT ![r] = rec]
SetReset(x, rec) == reset' = [reset EXCEPT ![x] = rec]
Fault == faults < MaxFaults /\ faults' = faults + 1

\* The client sees every state a scenario goes through from now on.
Watch(c) == during' = [during EXCEPT ![c] = [n \in Names |-> {doc[n].state}]]

\* A mutation of one document.
Write(n, d) ==
  /\ doc' = [doc EXCEPT ![n] = d]
  /\ ver' = [ver EXCEPT ![n] = @ + 1]
  /\ during' = [c \in Requests \cup Resets |->
                  IF c \in Resets \/ req[c].pc = "match"
                    THEN [during[c] EXCEPT ![n] = @ \cup {d.state}]
                    ELSE during[c]]

\* writeWatermark.note.
Note(p, n, seq) == tokens' = [tokens EXCEPT ![p][n] = IF seq > @ THEN seq ELSE @]

stored == <<doc, ver, disk, tokens>>
history == <<during, readAt>>

\* The disk queue drains (external).
Persist(n) ==
  /\ disk[n].seq # ver[n]
  /\ disk' = [disk EXCEPT ![n] = [seq |-> ver[n], there |-> doc[n].cas # 0]]
  /\ UNCHANGED <<doc, ver, tokens, req, reset, history, faults>>

-----------------------------------------------------------------------------
(* Snapshot.Match and the gate.                                            *)

Candidate(r) == Candidates[r][req[r].at]
Matching(r) == req[r].pc = "match" /\ req[r].at <= Len(Candidates[r])
Unread(r) == /\ Candidate(r).required # None
             /\ req[r].memo[Candidate(r).scenario] = None

Arrive(r) ==
  /\ req[r].pc = "idle"
  /\ Set(r, [req[r] EXCEPT !.pc = "match"])
  /\ Watch(r)
  /\ UNCHANGED <<stored, reset, readAt, faults>>

\* Mutant of ReadState: the state is read again for every gated candidate.
ReadStateEachTime(r) ==
  /\ Matching(r) /\ Candidate(r).required # None
  /\ LET n == Candidate(r).scenario IN
       /\ IF doc[n].state = Candidate(r).required
            THEN Set(r, [req[r] EXCEPT !.memo[n] = doc[n].state])
            ELSE Set(r, [req[r] EXCEPT !.at = @ + 1])
       /\ readAt' = [readAt EXCEPT ![r][n] = ver[n]]
  /\ UNCHANGED <<stored, reset, during, faults>>

\* The gate reads a scenario's state the first time a candidate asks for it.
ReadState(r) ==
  /\ Matching(r) /\ Unread(r)
  /\ LET n == Candidate(r).scenario IN
       /\ Set(r, [req[r] EXCEPT !.memo[n] = doc[n].state])
       /\ readAt' = [readAt EXCEPT ![r][n] = ver[n]]
  /\ UNCHANGED <<stored, reset, during, faults>>

\* The read fails: the request is marked, and matching goes on without it.
ReadFails(r) ==
  /\ Fault
  /\ Matching(r) /\ Unread(r)
  /\ Set(r, [req[r] EXCEPT !.failed = TRUE, !.at = @ + 1])
  /\ UNCHANGED <<stored, reset, history>>

\* The scenario is in another state: on to the next candidate.
PassOver(r) ==
  /\ Matching(r) /\ ~Unread(r)
  /\ Candidate(r).required \notin {None, req[r].memo[Candidate(r).scenario]}
  /\ Set(r, [req[r] EXCEPT !.at = @ + 1])
  /\ UNCHANGED <<stored, reset, history, faults>>

\* The first candidate whose gate holds is the stub that answers, unless a
\* state could not be read on the way; its transition comes before the answer.
Choose(r) ==
  /\ Matching(r) /\ ~Unread(r)
  /\ LET stub == Candidate(r) IN
       /\ stub.required \in {None, req[r].memo[stub.scenario]}
       /\ Set(r, [req[r] EXCEPT
                    !.answer = IF req[r].failed THEN "unavailable" ELSE "served",
                    !.pc = IF req[r].failed \/ stub.new = None THEN "done"
                           ELSE IF stub.required = None THEN "upsert" ELSE "get"])
  /\ UNCHANGED <<stored, reset, history, faults>>

\* No candidate is left: 404, or 500 when a state could not be read.
Unmatched(r) ==
  /\ req[r].pc = "match" /\ req[r].at > Len(Candidates[r])
  /\ Set(r, [req[r] EXCEPT !.pc = "done",
               !.answer = IF req[r].failed THEN "unavailable"
                          ELSE "unmatched"])
  /\ UNCHANGED <<stored, reset, history, faults>>

-----------------------------------------------------------------------------
(* Client.Transition, SetState.                                            *)

\* A round of a gated transition: read the document and re-check the gate.
Get(r) ==
  /\ req[r].pc = "get"
  /\ LET n == Candidate(r).scenario IN
       Set(r, IF doc[n].state = Candidate(r).required
                THEN [req[r] EXCEPT !.pc = "put", !.cas = doc[n].cas]
                ELSE [req[r] EXCEPT !.pc = "done"])
  /\ UNCHANGED <<stored, reset, history, faults>>

\* The client writes state s to scenario n; what follows is the note.
Put(r, n, s) ==
  /\ Write(n, [state |-> s, cas |-> ver[n] + 1])
  /\ Set(r, [req[r] EXCEPT !.pc = "note", !.name = n, !.landed = ver[n] + 1])
  /\ UNCHANGED <<disk, tokens, reset, readAt>>

\* Mutant of Swap: the document is replaced whatever its CAS.
SwapUnchecked(r) ==
  /\ req[r].pc = "put"
  /\ Put(r, Candidate(r).scenario, Candidate(r).new)
  /\ UNCHANGED faults

\* Mutant of Swap: the first move of a scenario is a replace too, and finds
\* nothing to replace.
SwapReplaces(r) ==
  /\ req[r].pc = "put"
  /\ LET n == Candidate(r).scenario IN
       IF doc[n].cas = req[r].cas /\ req[r].cas # 0
         THEN Put(r, n, Candidate(r).new)
         ELSE /\ Set(r, [req[r] EXCEPT !.pc = "done"])
              /\ UNCHANGED <<stored, reset, history>>
  /\ UNCHANGED faults

\* InsertScenario when the document was absent, else ReplaceScenario: nobody
\* has written it since it was read.
Swap(r) ==
  /\ req[r].pc = "put"
  /\ LET n == Candidate(r).scenario IN
       /\ doc[n].cas = req[r].cas
       /\ Put(r, n, Candidate(r).new)
  /\ UNCHANGED faults

\* Somebody has.  A replace that finds no document is an error, which ends the
\* transition; any other lost race starts the next round, the last one gives up.
SwapLost(r) ==
  /\ req[r].pc = "put"
  /\ LET now == doc[Candidate(r).scenario].cas IN
       /\ now # req[r].cas
       /\ Set(r, IF now = 0 \/ req[r].tries = 1
                   THEN [req[r] EXCEPT !.pc = "done"]
                   ELSE [req[r] EXCEPT !.pc = "get", !.tries = @ - 1])
  /\ UNCHANGED <<stored, reset, history, faults>>

\* A stub that requires no state: an unconditional write.
Upsert(r) ==
  /\ req[r].pc = "upsert"
  /\ Put(r, Candidate(r).scenario, Candidate(r).new)
  /\ UNCHANGED faults

\* The token of the write is noted and the client answered.
NoteToken(r) ==
  /\ req[r].pc = "note"
  /\ Note(PodOf[r], req[r].name, req[r].landed)
  /\ Set(r, [req[r] EXCEPT !.pc = "done"])
  /\ UNCHANGED <<doc, ver, disk, reset, history, faults>>

\* A call of the transition fails: it is over, and the response goes out.
CallFails(r) ==
  /\ Fault
  /\ req[r].pc \in {"get", "put", "upsert"}
  /\ Set(r, [req[r] EXCEPT !.pc = "done", !.failed = TRUE])
  /\ UNCHANGED <<stored, reset, history>>

\* A write is reported as failed after it has landed: its token is not noted.
Unheard(r) ==
  /\ Fault
  /\ req[r].pc = "note"
  /\ Set(r, [req[r] EXCEPT !.pc = "done", !.failed = TRUE])
  /\ UNCHANGED <<stored, reset, history>>

\* The states of a scenario: those its stubs mention, and Started.
Stubs == UNION {{Candidates[r][i] : i \in DOMAIN Candidates[r]} : r \in Requests}
Mentioned(n) == UNION {{s.required, s.new} : s \in {t \in Stubs : t.scenario = n}}
Possible(n) == IF Mentioned(n) = {} THEN {}
               ELSE (Mentioned(n) \cup {Started}) \ {None}

\* Mutant of SetState: the state is not checked against the stubs.
SetAnyState(r) ==
  /\ req[r].pc = "idle"
  /\ \E n \in Names : \E s \in States \cup {None} : Put(r, n, s)
  /\ UNCHANGED faults

\* The admin API accepts a state the stubs know and writes it.
SetState(r) ==
  /\ req[r].pc = "idle"
  /\ \E n \in Names : \E s \in Possible(n) : Put(r, n, s)
  /\ UNCHANGED faults

-----------------------------------------------------------------------------
(* DeleteAllScenarios.                                                     *)

\* requireFor.  known: the documents whose last mutation this pod has noted or
\* the disk already holds, when the reset begins.
BeginReset(x) ==
  /\ reset[x].pc = "idle"
  /\ LET noted == tokens[PodOf[x]] IN
       SetReset(x, [reset[x] EXCEPT
         !.pc = "scan", !.need = noted, !.left = Names,
         !.known = {n \in Names : ver[n] \in {noted[n], disk[n].seq}}])
  /\ Watch(x)
  /\ UNCHANGED <<stored, req, readAt, faults>>

\* Mutant of ScanKey: the bulk read carries no positions.
ScanKeyAtOnce(x, n) ==
  /\ reset[x].pc = "scan" /\ n \in reset[x].left
  /\ SetReset(x, [reset[x] EXCEPT !.left = @ \ {n},
                    !.keys = IF disk[n].there THEN @ \cup {n} ELSE @])
  /\ UNCHANGED <<stored, req, history, faults>>

\* The bulk read reaches a document: it waits for the pod's own position.
ScanKey(x, n) ==
  /\ reset[x].pc = "scan" /\ n \in reset[x].left
  /\ disk[n].seq >= reset[x].need[n]
  /\ SetReset(x, [reset[x] EXCEPT !.left = @ \ {n},
                    !.keys = IF disk[n].there THEN @ \cup {n} ELSE @])
  /\ UNCHANGED <<stored, req, history, faults>>

Removing(x) == reset[x].pc = "scan" /\ reset[x].left = {}

\* One key is removed, and its token noted; a key already gone is passed over.
\* No reader can tell the removal from its note: the scan that would miss it
\* finds the key and passes it over.
RemoveKey(x, n) ==
  /\ Removing(x) /\ n \in reset[x].keys
  /\ SetReset(x, [reset[x] EXCEPT !.keys = @ \ {n}])
  /\ IF doc[n].cas # 0
       THEN /\ Write(n, Absent)
            /\ Note(PodOf[x], n, ver[n] + 1)
            /\ UNCHANGED disk
       ELSE UNCHANGED <<stored, during>>
  /\ UNCHANGED <<req, readAt, faults>>

\* The bulk read fails, so nothing is removed.
ScanFails(x) ==
  /\ Fault
  /\ reset[x].pc = "scan" /\ reset[x].left # {}
  /\ SetReset(x, [reset[x] EXCEPT !.left = {}, !.keys = {}, !.failed = TRUE])
  /\ UNCHANGED <<stored, req, history>>

\* The removal of one key fails; the others are still carried out.
RemoveFails(x, n) ==
  /\ Fault
  /\ Removing(x) /\ n \in reset[x].keys
  /\ SetReset(x, [reset[x] EXCEPT !.keys = @ \ {n}, !.failed = TRUE])
  /\ UNCHANGED <<stored, req, history>>

\* 200, or 503 if a call failed.
EndReset(x) ==
  /\ Removing(x) /\ reset[x].keys = {}
  /\ SetReset(x, [reset[x] EXCEPT !.pc = "done"])
  /\ UNCHANGED <<stored, req, history, faults>>

-----------------------------------------------------------------------------
Next ==
  \/ \E n \in Names : Persist(n)
  \/ \E r \in Requests :
       \/ Arrive(r) \/ ReadState(r) \/ ReadFails(r) \/ PassOver(r)
       \/ Choose(r) \/ Unmatched(r)
       \/ Get(r) \/ Swap(r) \/ SwapLost(r) \/ Upsert(r)
  \/ \E r \in Setters : SetState(r)
  \/ \E r \in Clients : NoteToken(r) \/ CallFails(r) \/ Unheard(r)
  \/ \E x \in Resets :
       \/ BeginReset(x) \/ ScanFails(x) \/ EndReset(x)
       \/ \E n \in Names : ScanKey(x, n) \/ RemoveKey(x, n) \/ RemoveFails(x, n)

Spec == Init /\ [][Next]_vars

-----------------------------------------------------------------------------
Document == [state : States, cas : Nat]
Pcs == {"idle", "match", "get", "put", "upsert", "note", "done"}
ReqState == [pc : Pcs, at : Nat \ {0}, memo : [Names -> States \cup {None}],
             failed : BOOLEAN, tries : Nat \ {0}, cas : Nat,
             answer : {"pending", "served", "unmatched", "unavailable"},
             name : Names \cup {None}, landed : Nat]
ResetState == [pc : {"idle", "scan", "done"}, need : [Names -> Nat],
               left : SUBSET Names, keys : SUBSET Names, failed : BOOLEAN,
               known : SUBSET Names]

\* Every variable keeps its shape.
TypeOK ==
  /\ doc \in [Names -> Document]
  /\ ver \in [Names -> Nat]
  /\ disk \in [Names -> [seq : Nat, there : BOOLEAN]]
  /\ tokens \in [Pods -> [Names -> Nat]]
  /\ req \in [Clients -> ReqState]
  /\ reset \in [Resets -> ResetState]
  /\ during \in [Requests \cup Resets -> [Names -> SUBSET States]]
  /\ readAt \in [Requests -> [Names -> Nat]]
  /\ faults \in Nat

\* The stub a request picks when the scenarios are in the states of world.
Passes(stub, world) == stub.required \in {None, world[stub.scenario]}
PickedIn(r, world) ==
  {i \in DOMAIN Candidates[r] :
     /\ Passes(Candidates[r][i], world)
     /\ \A j \in 1 .. i - 1 : ~Passes(Candidates[r][j], world)}

\* A request is answered as of ONE state of each scenario it looked at, which
\* the scenario had while the request was being matched: the stub that serves
\* it is the one selection picks there, and it goes unmatched only if nothing
\* matches there.  A move made by another request half way through never lets
\* a request fall between two stubs, and a state that could not be read is
\* never guessed (scenarioGate's memo, ParsedRequest.ScenarioError).
AnsweredInOneWorld ==
  \A r \in Requests :
    req[r].answer \in {"served", "unmatched"} =>
      \E world \in [Names -> States] :
        /\ \A n \in Names : world[n] \in during[r][n]
        /\ PickedIn(r, world) = IF req[r].answer = "served" THEN {req[r].at} ELSE {}

\* A gated transition is dropped only if somebody else wrote the scenario after
\* the gate was read, or a call failed (Client.Transition): the first move of a
\* scenario that has no document included.
LostOnlyToAnother ==
  \A r \in Requests :
    (/\ req[r].pc = "done" /\ req[r].answer = "served"
     /\ Candidate(r).required # None /\ Candidate(r).new # None
     /\ req[r].landed = 0 /\ ~req[r].failed)
      => ver[Candidate(r).scenario] > readAt[r][Candidate(r).scenario]

\* A reset that answers 200 has seen every scenario in Started at some moment
\* since it began, save those another pod wrote a moment before and the disk
\* does not hold yet (DeleteAllScenarios).
ResetRestarts ==
  \A x \in Resets :
    (reset[x].pc = "done" /\ ~reset[x].failed)
      => \A n \in reset[x].known : Started \in during[x][n]

\* Scenarios are one shared state machine: no stub with a required state ever
\* moves its scenario out of another state, and no request moves one twice,
\* whatever replicas and failures (scenario.Client implements ScenarioFlow).
Flow == INSTANCE ScenarioFlow WITH
          state <- [n \in Names |-> doc[n].state],
          moved <- {r \in Clients : req[r].landed # 0}
OneSharedMachine == Flow!FlowSpec
=============================================================================
