------------------------------ MODULE Journal ------------------------------
(***************************************************************************)
(* The request journal of one pod, and the life of the process around it.  *)
(*                                                                         *)
(*   process    cmd/mockulus run(): listeners, store and writer             *)
(*              come up in one order and go down in another;               *)
(*   writer     a served request leaves an entry on a bounded queue under  *)
(*              two caps, or is counted as dropped; flush workers batch    *)
(*              the queue into the store; Stop drains it;                  *)
(*   store      entries land one by one, a bulk read may lag behind them,  *)
(*              and the admin API clears and removes them.                 *)
(*                                                                         *)
(* An entry is identified by the request that left it (ksuid.New gives     *)
(* each its own key), and only its payload size matters.                   *)
(***************************************************************************)
EXTENDS Integers, Sequences, FiniteSets, FiniteSetsExt, Functions

CONSTANTS
  Requests,       \* mock requests, each of which leaves at most one entry
  Unmatched,      \* those no stub matched; POST /requests/remove selects them
  Settings,       \* what a run may start from: start_without_store, and the
                  \* payload size of each request's entry
  Workers,        \* flush goroutines: max(1, FlushWorkers)
  Clears,         \* admin calls that empty the journal, or part of it
  BufferEntries,  \* capacity of the queue
  BufferBytes,    \* cap on the payload bytes held; 0: no cap
  BatchSize,
  UseRangeScan,   \* ClearJournal lists by range scan, not by query
  MaxFaults       \* bound: failed calls

ASSUME JournalAssumption ==
  /\ Unmatched \subseteq Requests
  /\ Settings \subseteq [lenient : BOOLEAN, size : [Requests -> Nat]]
  /\ Workers # {} /\ IsFiniteSet(Workers)
  /\ BufferEntries \in Nat \ {0} /\ BatchSize \in Nat \ {0} /\ BufferBytes \in Nat
  /\ UseRangeScan \in BOOLEAN
  /\ MaxFaults \in Nat

VARIABLES
  phase,    \* where run() is
  pod,      \* what the process has up: listeners, readiness, store
  setting,  \* the member of Settings this run has
  stopAsked,\* a signal, or POST /__admin/shutdown, waits to be taken up
  req,      \* per request: where it is between its arrival and its entry
  bytes,    \* Writer.bytes
  queue,    \* Writer.queue
  stop,     \* Writer.stop is closed
  worker,   \* per flusher: its loop, its batch, and the AppendJournal it is in
  enqueued, \* entries JournalEnqueued has counted
  dropped,  \* entries JournalDropped has counted
  stored,   \* the journal collection
  clear,    \* per admin call: where it is, the keys it read, and the entries
            \* a 200 would say are gone
  landed,   \* history: entries that were in the collection at some time
  outlived, \* history: requests still running when the listeners gave up
  faults

process == <<phase, pod, stopAsked>>
writer  == <<bytes, queue, stop, worker, enqueued, dropped>>
store   == <<stored, landed>>
vars    == <<setting, process, writer, store, req, clear, outlived, faults>>

-----------------------------------------------------------------------------
IdleWorker == [pc |-> "off", batch |-> <<>>, next |-> 1, failed |-> FALSE, then |-> "loop"]

IdleClear == [pc |-> "idle", keys |-> {}, owed |-> {}]

NothingUp == [adminUp |-> FALSE, api |-> FALSE, mockUp |-> FALSE, ready |-> FALSE,
              loaded |-> FALSE, store |-> "none"]

lenient == setting.lenient
size == setting.size

Init ==
  /\ phase = "boot"
  /\ pod = NothingUp
  /\ stopAsked = FALSE
  /\ setting \in Settings
  /\ req = [r \in Requests |-> "idle"]
  /\ bytes = 0 /\ queue = <<>> /\ stop = FALSE
  /\ worker = [w \in Workers |-> IdleWorker]
  /\ enqueued = {} /\ dropped = {}
  /\ stored = {} /\ landed = {}
  /\ clear = [c \in Clears |-> IdleClear]
  /\ outlived = {}
  /\ faults = 0

Fault == faults < MaxFaults /\ faults' = faults + 1

Live == phase # "exited"

\* The process is gone, and with it all that it held in memory.
Exit ==
  /\ phase' = "exited"
  /\ pod' = [NothingUp EXCEPT !.store = "closed"]
  /\ stopAsked' = FALSE /\ stop' = FALSE
  /\ bytes' = 0 /\ queue' = <<>> /\ enqueued' = {} /\ dropped' = {}
  /\ worker' = [w \in Workers |-> IdleWorker]
  /\ req' = [r \in Requests |-> "idle"]
  /\ clear' = [c \in Clears |-> IdleClear]
  /\ outlived' = {}
  /\ UNCHANGED store

-----------------------------------------------------------------------------
(* run(): the way up.                                                      *)

\* The admin listener answers /healthz and /readyz before the store is there;
\* /__admin itself answers 503 until SetAdmin.
StartAdmin ==
  /\ phase = "boot"
  /\ phase' = "connect"
  /\ pod' = [pod EXCEPT !.adminUp = TRUE]
  /\ UNCHANGED <<stopAsked, writer, store, req, clear, outlived, faults>>

\* openStore: Couchbase is tried again for as long as it takes, and a signal
\* ends the wait.  With start_without_store the first failure puts an
\* in-process store in its place, for good.
OpenStore ==
  /\ phase = "connect"
  /\ \/ /\ phase' = "journal"
        /\ pod' = [pod EXCEPT !.store = "open"]
        /\ UNCHANGED <<stopAsked, writer, store, req, clear, outlived, faults>>
     \/ /\ lenient /\ Fault
        /\ phase' = "journal"
        /\ pod' = [pod EXCEPT !.store = "private"]
        /\ UNCHANGED <<stopAsked, writer, store, req, clear, outlived>>
     \/ /\ stopAsked /\ ~lenient
        /\ Exit
        /\ UNCHANGED faults

\* Writer.Start launches the flushers and the engine gets its recorder.
StartJournal ==
  /\ phase = "journal"
  /\ phase' = "api"
  /\ worker' = [w \in Workers |-> [IdleWorker EXCEPT !.pc = "loop"]]
  /\ UNCHANGED <<pod, stopAsked, bytes, queue, stop, enqueued, dropped, store, req,
                 clear, outlived, faults>>

SetAdmin ==
  /\ phase = "api"
  /\ phase' = "load"
  /\ pod' = [pod EXCEPT !.api = TRUE]
  /\ UNCHANGED <<stopAsked, writer, store, req, clear, outlived, faults>>

\* A call of the store fails, or the signal has cancelled its context.
LoadFails == Fault \/ (stopAsked /\ UNCHANGED faults)

\* The first Rebuild.  If it fails the process gives up on the spot, unless it
\* may start without a store; the engine then keeps its empty snapshot.
InitialLoad ==
  /\ phase = "load"
  /\ \/ /\ phase' = "mock"
        /\ pod' = [pod EXCEPT !.loaded = TRUE]
        /\ UNCHANGED <<stopAsked, writer, store, req, clear, outlived, faults>>
     \/ /\ lenient /\ LoadFails
        /\ phase' = "mock"
        /\ UNCHANGED <<pod, stopAsked, writer, store, req, clear, outlived>>
     \/ ~lenient /\ LoadFails /\ Exit

\* The mock port is bound, or is taken and the process gives up.
StartMock ==
  /\ phase = "mock"
  /\ \/ /\ phase' = "ready"
        /\ pod' = [pod EXCEPT !.mockUp = TRUE]
        /\ UNCHANGED <<stopAsked, writer, store, req, clear, outlived, faults>>
     \/ Fault /\ Exit

SetReady ==
  /\ phase = "ready"
  /\ phase' = "serve"
  /\ pod' = [pod EXCEPT !.ready = TRUE]
  /\ UNCHANGED <<stopAsked, writer, store, req, clear, outlived, faults>>

-----------------------------------------------------------------------------
(* run(): the way down.                                                    *)

\* SIGTERM or SIGINT at any time, or POST /__admin/shutdown once the API is
\* there: both wait in a channel until run() selects on them.
AskToStop ==
  /\ Live /\ ~stopAsked
  /\ stopAsked' = TRUE
  /\ UNCHANGED <<phase, pod, writer, store, req, clear, outlived, faults>>

\* Mutant of TakeStop: the listener closes with the readiness flag still up.
TakeStopReadyLast ==
  /\ phase = "serve" /\ stopAsked
  /\ phase' = "drain"
  /\ pod' = [pod EXCEPT !.mockUp = FALSE]
  /\ UNCHANGED <<stopAsked, writer, store, req, clear, outlived, faults>>

\* run() leaves its select, stop() ends the context either way, and
\* Server.Shutdown drops readiness first: the pod serves on through the drain
\* window.
TakeStop ==
  /\ phase = "serve" /\ stopAsked
  /\ phase' = "drain"
  /\ pod' = [pod EXCEPT !.ready = FALSE]
  /\ UNCHANGED <<stopAsked, writer, store, req, clear, outlived, faults>>

\* The window over, mock.Shutdown closes the mock listener ...
CloseMock ==
  /\ phase = "drain"
  /\ phase' = "closing"
  /\ pod' = [pod EXCEPT !.mockUp = FALSE]
  /\ UNCHANGED <<stopAsked, writer, store, req, clear, outlived, faults>>

Running == {r \in Requests : req[r] \in {"serving", "reserved"}}

\* Mutant of ListenersDone: the wait has no end of its own.
ListenersDoneWaits ==
  /\ phase = "closing" /\ Running = {}
  /\ phase' = "flush" /\ stop' = TRUE
  /\ pod' = [pod EXCEPT !.adminUp = FALSE]
  /\ outlived' = {}
  /\ UNCHANGED <<stopAsked, bytes, queue, worker, enqueued, dropped, store, req, clear, faults>>

\* ... and waits for the requests it tracks, which a hijacked connection is
\* not; admin.Shutdown then does the same under what is left of
\* shutdown_timeout.  Either wait may end with requests still running.
\* Writer.Stop follows, and closes stop.
ListenersDone ==
  /\ phase = "closing"
  /\ phase' = "flush" /\ stop' = TRUE
  /\ pod' = [pod EXCEPT !.adminUp = FALSE]
  /\ outlived' = Running
  /\ UNCHANGED <<stopAsked, bytes, queue, worker, enqueued, dropped, store, req, clear, faults>>

\* Mutant of WriterDone: Stop does not wait.
WriterDoneAtOnce ==
  /\ phase = "flush"
  /\ phase' = "return"
  /\ pod' = [pod EXCEPT !.store = "closed"]
  /\ UNCHANGED <<stopAsked, writer, store, req, clear, outlived, faults>>

\* Stop waits for the flushers, and then the store is closed.
WriterDone ==
  /\ phase = "flush"
  /\ \A w \in Workers : worker[w].pc = "exited"
  /\ phase' = "return"
  /\ pod' = [pod EXCEPT !.store = "closed"]
  /\ UNCHANGED <<stopAsked, writer, store, req, clear, outlived, faults>>

\* run() returns, and whatever goroutine is left dies.
Return ==
  /\ phase = "return"
  /\ Exit
  /\ UNCHANGED faults

\* The process is killed: by SIGKILL, by a second signal, or it crashes.
Kill == Live /\ Fault /\ Exit

-----------------------------------------------------------------------------
(* A served request (Engine.ServeHTTP, finish, Writer.Record).             *)

Arrive(r) ==
  /\ Live /\ pod.mockUp
  /\ req[r] = "idle"
  /\ req' = [req EXCEPT ![r] = "serving"]
  /\ UNCHANGED <<process, writer, store, clear, outlived, faults>>

\* A body past max_body_bytes is answered 413 and leaves no entry.
Refuse(r) ==
  /\ Live
  /\ req[r] = "serving"
  /\ req' = [req EXCEPT ![r] = "done"]
  /\ UNCHANGED <<process, writer, store, clear, outlived, faults>>

\* Mutant of Reserve: the cap is looked at and nothing is charged.
ReserveUncharged(r) ==
  /\ Live
  /\ req[r] = "serving"
  /\ req' = [req EXCEPT ![r] = "reserved"]
  /\ UNCHANGED <<process, writer, store, clear, outlived, faults>>

\* enqueue, under the mutex: the response is out; its entry reserves its bytes
\* or is dropped over the byte cap.
Reserve(r) ==
  /\ Live
  /\ req[r] = "serving"
  /\ IF BufferBytes > 0 /\ bytes + size[r] > BufferBytes
       THEN /\ dropped' = dropped \cup {r}
            /\ req' = [req EXCEPT ![r] = "done"]
            /\ UNCHANGED bytes
       ELSE /\ bytes' = bytes + size[r]
            /\ req' = [req EXCEPT ![r] = "reserved"]
            /\ UNCHANGED dropped
  /\ UNCHANGED <<process, queue, stop, worker, enqueued, store, clear, outlived, faults>>

\* Mutant of Send: a full queue keeps the reservation.
SendKeepsBytes(r) ==
  /\ Live
  /\ req[r] = "reserved"
  /\ req' = [req EXCEPT ![r] = "done"]
  /\ IF Len(queue) < BufferEntries
       THEN /\ queue' = Append(queue, r) /\ enqueued' = enqueued \cup {r}
            /\ UNCHANGED dropped
       ELSE dropped' = dropped \cup {r} /\ UNCHANGED <<queue, enqueued>>
  /\ UNCHANGED <<process, bytes, stop, worker, store, clear, outlived, faults>>

\* The send that never blocks: the entry is on the queue, or the queue is full
\* and the reservation is given back.
Send(r) ==
  /\ Live
  /\ req[r] = "reserved"
  /\ req' = [req EXCEPT ![r] = "done"]
  /\ IF Len(queue) < BufferEntries
       THEN /\ queue' = Append(queue, r)
            /\ enqueued' = enqueued \cup {r}
            /\ UNCHANGED <<bytes, dropped>>
       ELSE /\ bytes' = bytes - size[r]
            /\ dropped' = dropped \cup {r}
            /\ UNCHANGED <<queue, enqueued>>
  /\ UNCHANGED <<process, stop, worker, store, clear, outlived, faults>>

-----------------------------------------------------------------------------
(* A flush worker (Writer.flushLoop, flush).                               *)

Set(w, rec) == worker' = [worker EXCEPT ![w] = rec]

\* flush(batch): nothing to do for an empty one, AppendJournal otherwise.
\* then is what the loop does with the emptied batch.
Flushing(rec, then) ==
  IF rec.batch = <<>> THEN [rec EXCEPT !.pc = then]
  ELSE [rec EXCEPT !.pc = "append", !.next = 1, !.failed = FALSE, !.then = then]

\* An entry comes off the queue, in the loop or in the drain after Stop.
Receive(w) ==
  /\ Live
  /\ worker[w].pc \in {"loop", "drain"} /\ queue # <<>>
  /\ queue' = Tail(queue)
  /\ LET got == [worker[w] EXCEPT !.batch = Append(@, Head(queue))]
     IN Set(w, IF Len(got.batch) >= BatchSize THEN Flushing(got, got.pc) ELSE got)
  /\ UNCHANGED <<process, bytes, stop, enqueued, dropped, store, req, clear, outlived, faults>>

\* Mutant of Tick: the ticker, too, waits for a full batch.
TickWhenFull(w) ==
  /\ Live
  /\ worker[w].pc = "loop" /\ Len(worker[w].batch) >= BatchSize
  /\ Set(w, Flushing(worker[w], "loop"))
  /\ UNCHANGED <<process, bytes, queue, stop, enqueued, dropped, store, req, clear,
                 outlived, faults>>

\* flush_interval has passed.
Tick(w) ==
  /\ Live
  /\ worker[w].pc = "loop" /\ worker[w].batch # <<>>
  /\ Set(w, Flushing(worker[w], "loop"))
  /\ UNCHANGED <<process, bytes, queue, stop, enqueued, dropped, store, req, clear,
                 outlived, faults>>

\* Mutant of SeeStop: the worker leaves with what it holds.
SeeStopLeaves(w) ==
  /\ Live /\ stop
  /\ worker[w].pc = "loop"
  /\ Set(w, Flushing(worker[w], "exited"))
  /\ UNCHANGED <<process, bytes, queue, stop, enqueued, dropped, store, req, clear,
                 outlived, faults>>

\* The closed stop channel is one of the ready cases of the select.
SeeStop(w) ==
  /\ Live /\ stop
  /\ worker[w].pc = "loop"
  /\ Set(w, [worker[w] EXCEPT !.pc = "drain"])
  /\ UNCHANGED <<process, bytes, queue, stop, enqueued, dropped, store, req, clear,
                 outlived, faults>>

\* Nothing is left to receive: flush what is held and leave.
Drained(w) ==
  /\ Live
  /\ worker[w].pc = "drain" /\ queue = <<>>
  /\ Set(w, Flushing(worker[w], "exited"))
  /\ UNCHANGED <<process, bytes, queue, stop, enqueued, dropped, store, req, clear,
                 outlived, faults>>

\* AppendJournal writes the entries one by one.  One that fails, and one that
\* times out after it has landed, is not the end of the others.
AppendOne(w) ==
  /\ Live
  /\ worker[w].pc = "append" /\ worker[w].next <= Len(worker[w].batch)
  /\ LET e == worker[w].batch[worker[w].next] IN
       \/ /\ stored' = stored \cup {e} /\ landed' = landed \cup {e}
          /\ Set(w, [worker[w] EXCEPT !.next = @ + 1])
          /\ UNCHANGED faults
       \/ /\ pod.store = "open" /\ Fault
          /\ \/ stored' = stored \cup {e} /\ landed' = landed \cup {e}
             \/ UNCHANGED <<stored, landed>>
          /\ Set(w, [worker[w] EXCEPT !.next = @ + 1, !.failed = TRUE])
  /\ UNCHANGED <<process, bytes, queue, stop, enqueued, dropped, req, clear, outlived>>

\* Mutant of FlushDone: an error is logged, not counted.
FlushDoneUncounted(w) ==
  /\ Live
  /\ worker[w].pc = "append" /\ worker[w].next > Len(worker[w].batch)
  /\ bytes' = bytes - SumFunction([i \in DOMAIN worker[w].batch |-> size[worker[w].batch[i]]])
  /\ Set(w, [IdleWorker EXCEPT !.pc = worker[w].then])
  /\ UNCHANGED <<process, queue, stop, enqueued, dropped, store, req, clear, outlived, faults>>

\* The batch is over: counted as dropped as a whole if any of it failed, and
\* its bytes given back either way.
FlushDone(w) ==
  /\ Live
  /\ worker[w].pc = "append" /\ worker[w].next > Len(worker[w].batch)
  /\ dropped' = IF worker[w].failed THEN dropped \cup Range(worker[w].batch) ELSE dropped
  /\ bytes' = bytes - SumFunction([i \in DOMAIN worker[w].batch |-> size[worker[w].batch[i]]])
  /\ Set(w, [IdleWorker EXCEPT !.pc = worker[w].then])
  /\ UNCHANGED <<process, queue, stop, enqueued, store, req, clear, outlived, faults>>

-----------------------------------------------------------------------------
(* The collection, and the admin calls that empty it.                      *)

\* What a read that waits for nothing may return: the disk queue or the indexer
\* has seen any of the entries that are there, or not yet (external; one that is
\* gone and still listed makes no difference).  The in-process store has no lag.
Lagging == IF pod.store = "open" THEN SUBSET stored ELSE {stored}

\* What ClearJournal lists: a query is told to catch up first, a range scan
\* only to the positions the driver noted, and AppendJournal notes none.
BulkRead == IF UseRangeScan THEN Lagging ELSE {stored}

SetClear(c, rec) == clear' = [clear EXCEPT ![c] = rec]

CanCall(c) == Live /\ pod.adminUp /\ pod.api /\ clear[c].pc = "idle"

\* DELETE /__admin/requests: ClearJournal reads the keys of the collection.
BeginClear(c) ==
  /\ CanCall(c)
  /\ \E seen \in BulkRead :
       SetClear(c, [IdleClear EXCEPT !.pc = "removing", !.keys = seen, !.owed = stored])
  /\ UNCHANGED <<process, writer, store, req, outlived, faults>>

\* matchRequests: the criteria are applied to the entries the query returned.
MatchRequests(seen) == seen \cap Unmatched

\* POST /__admin/requests/remove: the query answers from an index nothing asks
\* to catch up.
BeginRemove(c) ==
  /\ CanCall(c)
  /\ \E seen \in Lagging :
       SetClear(c, [IdleClear EXCEPT !.pc = "removing", !.keys = MatchRequests(seen)])
  /\ UNCHANGED <<process, writer, store, req, outlived, faults>>

\* DELETE /__admin/requests/{id}: no read, one removal by key.
BeginDelete(c) ==
  /\ CanCall(c)
  /\ \E e \in stored : SetClear(c, [IdleClear EXCEPT !.pc = "removing", !.keys = {e}])
  /\ UNCHANGED <<process, writer, store, req, outlived, faults>>

\* removeKeys and DeleteJournalEntry: the keys read are removed one by one, each
\* of them from the moment of this step on or not at all; an entry that is gone
\* already is no error.  When one fails a clear goes on with the others and
\* answers 503 in the end, a removal by criteria stops there.
RemoveKeys(c) ==
  /\ Live /\ pod.store # "closed"
  /\ clear[c].pc = "removing"
  /\ \E gone \in SUBSET clear[c].keys :
       /\ stored' = stored \ gone
       /\ IF gone = clear[c].keys THEN UNCHANGED faults ELSE pod.store = "open" /\ Fault
       /\ SetClear(c, [IdleClear EXCEPT !.pc = "done",
              !.owed = IF gone = clear[c].keys THEN clear[c].owed \ gone ELSE {}])
  /\ UNCHANGED <<process, writer, landed, req, outlived>>

-----------------------------------------------------------------------------
Up == \/ StartAdmin \/ OpenStore \/ StartJournal \/ SetAdmin \/ InitialLoad
      \/ StartMock \/ SetReady

Down == TakeStop \/ CloseMock \/ ListenersDone \/ WriterDone \/ Return

Serve(r) == Arrive(r) \/ Refuse(r) \/ Reserve(r) \/ Send(r)

Flush(w) == \/ Receive(w) \/ Tick(w) \/ SeeStop(w) \/ Drained(w)
            \/ AppendOne(w) \/ FlushDone(w)

Call(c) == BeginClear(c) \/ BeginRemove(c) \/ BeginDelete(c) \/ RemoveKeys(c)

Step ==
  \/ Up \/ Down \/ AskToStop \/ Kill
  \/ \E r \in Requests : Serve(r)
  \/ \E w \in Workers : Flush(w)
  \/ \E c \in Clears : Call(c)

Next == Step /\ UNCHANGED setting

Spec == Init /\ [][Next]_vars

\* run() goes on, and a flusher is scheduled: its ticker keeps ticking,
\* AppendJournal has a budget of its own, and a closed stop channel is chosen
\* in the end.  Of a request nothing is assumed: its client may be slow.
Fairness ==
  /\ WF_vars(Up /\ UNCHANGED setting) /\ WF_vars(Down /\ UNCHANGED setting)
  /\ \A w \in Workers :
       /\ WF_vars(/\ Receive(w) \/ Tick(w) \/ Drained(w) \/ AppendOne(w) \/ FlushDone(w)
                  /\ UNCHANGED setting)
       /\ SF_vars(SeeStop(w) /\ UNCHANGED setting)

FairSpec == Spec /\ Fairness

-----------------------------------------------------------------------------
Holding(w) == Range(worker[w].batch)

InFlight == Range(queue) \cup UNION {Holding(w) : w \in Workers}

\* Every variable keeps its shape.
TypeOK ==
  /\ phase \in {"boot", "connect", "journal", "api", "load", "mock", "ready",
                "serve", "drain", "closing", "flush", "return", "exited"}
  /\ pod \in [adminUp : BOOLEAN, api : BOOLEAN, mockUp : BOOLEAN, ready : BOOLEAN,
              loaded : BOOLEAN,
              store : {"none", "open", "private", "closed"}]
  /\ stopAsked \in BOOLEAN /\ stop \in BOOLEAN
  /\ req \in [Requests -> {"idle", "serving", "reserved", "done"}]
  /\ setting \in Settings /\ bytes \in Nat
  /\ queue \in Seq(Requests)
  /\ worker \in [Workers -> [pc : {"off", "loop", "drain", "append", "exited"},
                            batch : Seq(Requests), next : Nat, failed : BOOLEAN,
                            then : {"loop", "drain", "exited"}]]
  /\ enqueued \subseteq Requests /\ dropped \subseteq Requests
  /\ stored \subseteq Requests /\ landed \subseteq Requests
  /\ clear \in [Clears -> [pc : {"idle", "removing", "done"}, keys : SUBSET Requests,
                          owed : SUBSET Requests]]
  /\ outlived \subseteq Requests
  /\ faults \in Nat

\* The byte cap's account: Writer.bytes is what the requests between their two
\* steps, the queue and the batches hold, whatever was dropped, failed or
\* timed out on the way; so a leak never ends in dropping everything, and the
\* cap is never passed.
BytesAccounted ==
  /\ bytes = SumFunction([r \in Requests |->
                 IF req[r] = "reserved" \/ r \in InFlight THEN size[r] ELSE 0])
  /\ BufferBytes > 0 => bytes <= BufferBytes

\* "A dropped entry is a counted loss": an entry that was put on the queue is
\* still on its way, or was in the journal, or has been counted as dropped.
LossIsCounted == enqueued \subseteq InFlight \cup landed \cup dropped

\* "A verification just before SIGTERM still finds its entry": once Stop has
\* returned, nothing that was recorded before the listeners gave up is left
\* behind in the queue or in a batch, however many workers drained it.
StopFlushes ==
  phase = "return" => enqueued \ outlived \subseteq landed \cup dropped

\* No batch is written to a store that is not there yet or is closed already.
AppendsToOpenStore ==
  \A w \in Workers : (Live /\ worker[w].pc = "append") => pod.store \in {"open", "private"}

\* Kubernetes sends traffic while /readyz says so: the listener is up then, a
\* snapshot has been loaded (or start_without_store let an empty one pass),
\* and the API can reach a store.
ReadyServes ==
  (Live /\ pod.ready) => /\ pod.mockUp /\ pod.api
                        /\ (pod.loaded \/ lenient)
                        /\ pod.store \in {"open", "private"}

\* couchbase/journal.go:131: "an entry written moments earlier is invisible to it
\* and survives a clear that answered 200" is what ClearJournal is there to
\* prevent: a clear that answered 200 leaves no entry behind that was in the
\* journal when it began.  (JournalClear.cfg finds that it does: the range scan
\* is asked for the positions the driver noted, and the entries have none.)
ClearEmpties ==
  \A c \in Clears : clear[c].pc = "done" => clear[c].owed \cap stored = {}

\* Every recorded entry leaves the pod: flushed by a full batch, by the ticker
\* or by the drain, unless the process is gone first.
EntriesLeave == \A r \in Requests : (r \in enqueued) ~> (r \in landed \cup dropped \/ ~Live)

\* A pod that was asked to stop exits: no wait on a request, on a flusher or
\* on the store holds the shutdown for ever.
StopsInTheEnd == stopAsked ~> ~Live

\* journal.go:13: the queue is bounded twice, an entry past either cap is dropped
\* and counted, and (journal.go:221) so is a batch that failed.  Writer and store
\* together are one bounded bag that writes an entry at most once and never lets
\* go of one unnoticed: Journal implements JournalBag.
Bag == INSTANCE JournalBag WITH
         Room <- BufferEntries,
         Hands <- BatchSize * Cardinality(Workers),
         ByteCap <- BufferBytes,
         alive <- Live,
         sizes <- size,
         waiting <- Range(queue),
         writing <- UNION {Holding(w) : w \in Workers},
         kept <- stored,
         counted <- dropped
BoundedBag == Bag!BagSpec
=============================================================================
