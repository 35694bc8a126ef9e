--------------------------- MODULE JournalProofs ---------------------------
(* The journal loses nothing uncounted, and a pod that stops flushes what   *)
(* was recorded, to a store that is open; it is ready only while it can     *)
(* answer; and the bytes it charges are those of the entries it holds.      *)
(* Writer and store together implement JournalBag.  For any number of       *)
(* requests, flushers, admin calls and failures.                            *)
EXTENDS Journal, FiniteSetTheorems, TLAPS

Phases == {"boot", "connect", "journal", "api", "load", "mock", "ready",
           "serve", "drain", "closing", "flush", "return", "exited"}
PodState == [adminUp : BOOLEAN, api : BOOLEAN, mockUp : BOOLEAN, ready : BOOLEAN,
             loaded : BOOLEAN, store : {"none", "open", "private", "closed"}]
ReqState == {"idle", "serving", "reserved", "done"}
WorkerState == [pc : {"off", "loop", "drain", "append", "exited"},
                batch : Seq(Requests), next : Nat, failed : BOOLEAN,
                then : {"loop", "drain", "exited"}]

TypeInv ==
  /\ phase \in Phases /\ pod \in PodState
  /\ req \in [Requests -> ReqState]
  /\ queue \in Seq(Requests)
  /\ worker \in [Workers -> WorkerState]

\* What is up in each phase of run().
PhaseInv ==
  /\ pod.ready => phase = "serve"
  /\ phase \in {"ready", "serve"} => pod.mockUp
  /\ pod.mockUp => phase \in {"ready", "serve", "drain"}
  /\ phase \in {"load", "mock", "ready", "serve"} => pod.api
  /\ phase \in {"mock", "ready", "serve"} => pod.loaded \/ lenient
  /\ phase \notin {"boot", "connect", "return", "exited"} => pod.store \in {"open", "private"}

\* What the requests and the flushers can be doing in a phase.
StopInv ==
  /\ stop => phase \in {"flush", "return"}
  /\ phase \in {"flush", "return"} => Running \subseteq outlived
  /\ phase \in {"boot", "connect", "journal"} => \A w \in Workers : worker[w].pc = "off"
  /\ phase = "return" => \A w \in Workers : worker[w].pc = "exited"

\* The flusher is gone, or goes with the batch it writes.
Leaving(rec) == rec.pc = "exited" \/ (rec.pc = "append" /\ rec.then = "exited")

\* A flusher with a queue and the entries that have landed.  It leaves only after
\* it has seen the queue empty, and what comes later has outlived the drain.
FlusherOK(rec, q, l) ==
  /\ rec.pc = "append" => \A i \in 1..Len(rec.batch) : i < rec.next => rec.failed \/ rec.batch[i] \in l
  /\ (rec.pc \in {"drain", "exited"} \/ (rec.pc = "append" /\ rec.then # "loop")) => stop
  /\ rec.pc \in {"off", "exited"} => rec.batch = <<>>
  /\ Leaving(rec) => Range(q) \subseteq outlived

FlushInv == \A w \in Workers : FlusherOK(worker[w], queue, landed)

IInv == TypeInv /\ PhaseInv /\ StopInv /\ FlushInv /\ LossIsCounted /\ StopFlushes

-----------------------------------------------------------------------------
\* The entries of a queue that has grown by one.
LEMMA RangeAppend ==
  ASSUME NEW q \in Seq(Requests), NEW r \in Requests
  PROVE  Append(q, r) \in Seq(Requests) /\ Range(Append(q, r)) = Range(q) \cup {r}
  <1>1. Append(q, r) \in Seq(Requests) /\ Len(Append(q, r)) = Len(q) + 1
    OBVIOUS
  <1>2. \A i \in 1..Len(q) : Append(q, r)[i] = q[i]
    OBVIOUS
  <1>3. Append(q, r)[Len(q) + 1] = r
    OBVIOUS
  <1>4. DOMAIN q = 1..Len(q) /\ DOMAIN Append(q, r) = 1..(Len(q) + 1) /\ Len(q) \in Nat
    OBVIOUS
  <1>5. DOMAIN Append(q, r) = DOMAIN q \cup {Len(q) + 1}
    BY <1>4
  <1> HIDE <1>1
  <1> QED
    BY <1>1, <1>2, <1>3, <1>4, <1>5 DEF Range

LEMMA AppendFull ==
  ASSUME NEW q \in Seq(Requests), NEW r \in Requests
  PROVE  Append(q, r) # <<>>
  <1>1. Len(Append(q, r)) = Len(q) + 1 /\ Len(q) \in Nat /\ Len(<<>>) = 0
    OBVIOUS
  <1>2. Len(Append(q, r)) # Len(<<>>)
    BY <1>1
  <1> QED BY <1>2

\* The entries of a queue that has shrunk by one.
LEMMA RangeTail ==
  ASSUME NEW q \in Seq(Requests), q # <<>>
  PROVE  /\ Head(q) \in Requests /\ Tail(q) \in Seq(Requests)
         /\ Range(q) = Range(Tail(q)) \cup {Head(q)}
  <1>1. Head(q) \in Requests /\ Tail(q) \in Seq(Requests) /\ Len(q) \in Nat \ {0}
    OBVIOUS
  <1>2. DOMAIN q = 1..Len(q) /\ DOMAIN Tail(q) = 1..(Len(q) - 1) /\ Head(q) = q[1]
    OBVIOUS
  <1>3. \A i \in 1..(Len(q) - 1) : Tail(q)[i] = q[i + 1]
    OBVIOUS
  <1>4. \A j \in 1..Len(q) : j = 1 \/ (j - 1 \in 1..(Len(q) - 1) /\ q[j] = Tail(q)[j - 1])
    BY <1>1, <1>3
  <1>5. Range(q) \subseteq Range(Tail(q)) \cup {Head(q)}
    <2>1. ASSUME NEW j \in 1..Len(q) PROVE q[j] \in Range(Tail(q)) \cup {Head(q)}
      <3>1. CASE j = 1
        BY <1>2, <3>1
      <3>2. CASE j - 1 \in 1..(Len(q) - 1) /\ q[j] = Tail(q)[j - 1]
        BY <1>2, <3>2 DEF Range
      <3> QED BY <1>4, <2>1, <3>1, <3>2
    <2> QED BY <1>2, <2>1 DEF Range
  <1>6. Range(Tail(q)) \subseteq Range(q)
    <2>1. \A i \in 1..(Len(q) - 1) : i + 1 \in 1..Len(q)
      BY <1>1
    <2> QED
      BY <1>2, <1>3, <2>1 DEF Range
  <1>7. Head(q) \in Range(q)
    BY <1>1, <1>2 DEF Range
  <1> QED
    BY <1>1, <1>5, <1>6, <1>7

\* Nothing is in an empty queue or batch.
LEMMA RangeEmpty == Range(<<>>) = {}
  BY DEF Range

-----------------------------------------------------------------------------
\* A pod, field by field.
PodIs(p, api, mockUp, ready, loaded, st) ==
  /\ p \in PodState
  /\ p.api = api /\ p.mockUp = mockUp /\ p.ready = ready /\ p.loaded = loaded /\ p.store = st

\* What an assignment to one field of the pod leaves of the others.
LEMMA PodWith ==
  ASSUME NEW p \in PodState, NEW b \in BOOLEAN, NEW s \in {"none", "open", "private", "closed"}
  PROVE  /\ PodIs([p EXCEPT !.adminUp = b], p.api, p.mockUp, p.ready, p.loaded, p.store)
         /\ PodIs([p EXCEPT !.api = b], b, p.mockUp, p.ready, p.loaded, p.store)
         /\ PodIs([p EXCEPT !.mockUp = b], p.api, b, p.ready, p.loaded, p.store)
         /\ PodIs([p EXCEPT !.ready = b], p.api, p.mockUp, b, p.loaded, p.store)
         /\ PodIs([p EXCEPT !.loaded = b], p.api, p.mockUp, p.ready, b, p.store)
         /\ PodIs([p EXCEPT !.store = s], p.api, p.mockUp, p.ready, p.loaded, s)
  <1>1. PodIs([p EXCEPT !.adminUp = b], p.api, p.mockUp, p.ready, p.loaded, p.store)
    BY DEF PodState, PodIs
  <1>2. PodIs([p EXCEPT !.api = b], b, p.mockUp, p.ready, p.loaded, p.store)
    BY DEF PodState, PodIs
  <1>3. PodIs([p EXCEPT !.mockUp = b], p.api, b, p.ready, p.loaded, p.store)
    BY DEF PodState, PodIs
  <1>4. PodIs([p EXCEPT !.ready = b], p.api, p.mockUp, b, p.loaded, p.store)
    BY DEF PodState, PodIs
  <1>5. PodIs([p EXCEPT !.loaded = b], p.api, p.mockUp, p.ready, b, p.store)
    BY DEF PodState, PodIs
  <1>6. PodIs([p EXCEPT !.store = s], p.api, p.mockUp, p.ready, p.loaded, s)
    BY DEF PodState, PodIs
  <1> QED
    BY <1>1, <1>2, <1>3, <1>4, <1>5, <1>6

\* The pod before the process has done anything, and after it is gone.
LEMMA NothingIsUp ==
  /\ PodIs(NothingUp, FALSE, FALSE, FALSE, FALSE, "none")
  /\ PodIs([NothingUp EXCEPT !.store = "closed"], FALSE, FALSE, FALSE, FALSE, "closed")
  <1>1. PodIs(NothingUp, FALSE, FALSE, FALSE, FALSE, "none")
    BY DEF NothingUp, PodState, PodIs
  <1>2. NothingUp \in PodState
    BY <1>1 DEF PodIs
  <1>3. PodIs([NothingUp EXCEPT !.store = "closed"], NothingUp.api, NothingUp.mockUp,
              NothingUp.ready, NothingUp.loaded, "closed")
    BY <1>2, PodWith
  <1> QED
    BY <1>1, <1>3 DEF PodIs

\* What an assignment to the place or the batch of a flusher leaves of the rest.
LEMMA WorkerWith ==
  ASSUME NEW rec \in WorkerState, NEW c \in {"off", "loop", "drain", "append", "exited"},
         NEW b \in Seq(Requests)
  PROVE  /\ [rec EXCEPT !.pc = c] \in WorkerState
         /\ [rec EXCEPT !.pc = c].pc = c /\ [rec EXCEPT !.pc = c].batch = rec.batch
         /\ [rec EXCEPT !.batch = b] \in WorkerState
         /\ [rec EXCEPT !.batch = b].pc = rec.pc /\ [rec EXCEPT !.batch = b].batch = b
  BY DEF WorkerState

\* An idle flusher is well typed, wherever it is put.
LEMMA IdleTyped ==
  /\ IdleWorker \in WorkerState
  /\ IdleWorker.pc = "off" /\ IdleWorker.batch = <<>>
  /\ \A c \in {"off", "loop", "drain", "append", "exited"} :
       /\ [IdleWorker EXCEPT !.pc = c] \in WorkerState
       /\ [IdleWorker EXCEPT !.pc = c].pc = c /\ [IdleWorker EXCEPT !.pc = c].batch = <<>>
  <1>1. IdleWorker \in WorkerState /\ IdleWorker.pc = "off" /\ IdleWorker.batch = <<>>
    BY DEF IdleWorker, WorkerState
  <1>2. <<>> \in Seq(Requests)
    OBVIOUS
  <1>3. ASSUME NEW c \in {"off", "loop", "drain", "append", "exited"}
        PROVE  /\ [IdleWorker EXCEPT !.pc = c] \in WorkerState
               /\ [IdleWorker EXCEPT !.pc = c].pc = c
               /\ [IdleWorker EXCEPT !.pc = c].batch = IdleWorker.batch
    <2> PICK rec \in WorkerState : rec = IdleWorker
      BY <1>1
    <2>1. [rec EXCEPT !.pc = c] \in WorkerState
      BY <1>2, WorkerWith
    <2>2. [rec EXCEPT !.pc = c].pc = c
      BY <1>2, WorkerWith
    <2>3. [rec EXCEPT !.pc = c].batch = rec.batch
      BY <1>2, WorkerWith
    <2> QED
      BY <2>1, <2>2, <2>3
  <1> QED
    BY <1>1, <1>3

LEMMA InitInv == Init => IInv
  <1> SUFFICES ASSUME Init PROVE IInv
    OBVIOUS
  <1>1. worker = [w \in Workers |-> IdleWorker] /\ \A w \in Workers : worker[w] = IdleWorker
    BY DEF Init
  <1>2. PodIs(pod, FALSE, FALSE, FALSE, FALSE, "none")
    BY NothingIsUp DEF Init
  <1>3. TypeInv
    BY <1>1, <1>2, IdleTyped DEF Init, TypeInv, Phases, PodIs, ReqState
  <1>4. PhaseInv
    BY <1>2 DEF Init, PhaseInv, PodIs
  <1>5. StopInv
    BY <1>1, IdleTyped DEF Init, StopInv
  <1>6. FlushInv
    BY <1>1, IdleTyped DEF FlushInv, FlusherOK, Leaving
  <1>7. LossIsCounted /\ StopFlushes
    BY DEF Init, LossIsCounted, StopFlushes
  <1> QED
    BY <1>3, <1>4, <1>5, <1>6, <1>7 DEF IInv

\* With the process everything goes that the invariant is about.
LEMMA ExitKeeps ==
  ASSUME IInv, Exit PROVE IInv'
  <1>1. worker' = [w \in Workers |-> IdleWorker] /\ \A w \in Workers : worker'[w] = IdleWorker
    BY DEF Exit
  <1>2. PodIs(pod', FALSE, FALSE, FALSE, FALSE, "closed")
    BY NothingIsUp DEF Exit
  <1>3. TypeInv'
    <2>1. queue' \in Seq(Requests) /\ phase' \in Phases /\ req' \in [Requests -> ReqState]
      BY DEF Exit, Phases, ReqState
    <2> QED
      BY <1>1, <1>2, <2>1, IdleTyped DEF TypeInv, PodIs
  <1>4. PhaseInv'
    BY <1>2 DEF Exit, PhaseInv, PodIs
  <1>5. StopInv'
    BY DEF Exit, StopInv
  <1>6. FlushInv'
    BY <1>1, IdleTyped DEF FlushInv, FlusherOK, Leaving
  <1>7. LossIsCounted' /\ StopFlushes'
    BY DEF Exit, LossIsCounted, StopFlushes
  <1> QED
    BY <1>3, <1>4, <1>5, <1>6, <1>7 DEF IInv

-----------------------------------------------------------------------------
\* A step of run() that touches only what is up.
LEMMA MoveKeeps ==
  ASSUME IInv, TypeInv', PhaseInv', StopInv',
         UNCHANGED <<queue, worker, stop, enqueued, dropped, landed, outlived>>,
         phase' # "return"
  PROVE  IInv'
  <1>1. FlushInv'
    BY DEF IInv, FlushInv, FlusherOK
  <1>2. LossIsCounted' /\ StopFlushes'
    BY DEF IInv, LossIsCounted, StopFlushes, InFlight, Holding
  <1> QED
    BY <1>1, <1>2 DEF IInv

\* The same, from what the step does to the phase and to the pod.
LEMMA PodMoveKeeps ==
  ASSUME IInv, phase' \in Phases \ {"flush", "return"}, ~stop, PhaseInv', pod' \in PodState,
         phase' \in {"boot", "connect", "journal"} => phase \in {"boot", "connect", "journal"},
         UNCHANGED <<queue, worker, stop, enqueued, dropped, landed, outlived, req>>
  PROVE  IInv'
  <1>1. TypeInv'
    BY DEF IInv, TypeInv
  <1>2. StopInv'
    BY DEF IInv, StopInv, Running
  <1> QED
    BY <1>1, <1>2, MoveKeeps

LEMMA UpKeeps ==
  ASSUME IInv, Up, setting' = setting PROVE IInv'
  <1> USE DEF Phases
  <1>0. /\ pod \in PodState
        /\ PhaseInv
        /\ stop => phase \in {"flush", "return"}
    BY DEF IInv, TypeInv, StopInv
  <1>1. CASE StartAdmin
    <2>1. /\ phase = "boot" /\ phase' = "connect" /\ pod' = [pod EXCEPT !.adminUp = TRUE]
          /\ UNCHANGED <<queue, worker, stop, enqueued, dropped, landed, outlived, req>>
      BY <1>1 DEF StartAdmin, writer, store
    <2>2. PodIs(pod', pod.api, pod.mockUp, pod.ready, pod.loaded, pod.store)
      BY <1>0, <2>1, PodWith
    <2>3. PhaseInv' /\ pod' \in PodState
      BY <1>0, <2>1, <2>2 DEF PhaseInv, PodIs
    <2> QED
      BY <1>0, <2>1, <2>3, PodMoveKeeps
  <1>2. CASE OpenStore
    <2>1. CASE Exit
      BY <2>1, ExitKeeps
    <2>2. CASE phase' = "journal"
      <3>1. /\ phase = "connect" /\ phase' = "journal"
            /\ pod' = [pod EXCEPT !.store = "open"] \/ pod' = [pod EXCEPT !.store = "private"]
            /\ UNCHANGED <<queue, worker, stop, enqueued, dropped, landed, outlived, req>>
        BY <1>2, <2>2 DEF OpenStore, writer, store, Exit
      <3>2. PICK s \in {"open", "private"} :
              PodIs(pod', pod.api, pod.mockUp, pod.ready, pod.loaded, s)
        <4>1. CASE pod' = [pod EXCEPT !.store = "open"]
          BY <1>0, <4>1, PodWith
        <4>2. CASE pod' = [pod EXCEPT !.store = "private"]
          BY <1>0, <4>2, PodWith
        <4> QED
          BY <3>1, <4>1, <4>2
      <3>3. PhaseInv' /\ pod' \in PodState
        BY <1>0, <3>1, <3>2 DEF PhaseInv, PodIs
      <3> QED
        BY <1>0, <3>1, <3>3, PodMoveKeeps
    <2> QED
      BY <1>2, <2>1, <2>2 DEF OpenStore
  <1>3. CASE StartJournal
    <2>1. /\ phase = "journal" /\ phase' = "api" /\ pod' = pod
          /\ worker' = [w \in Workers |-> [IdleWorker EXCEPT !.pc = "loop"]]
          /\ UNCHANGED <<queue, stop, enqueued, dropped, landed, outlived, req>>
      BY <1>3 DEF StartJournal, store
    <2>2. PICK rec \in WorkerState :
            rec = [IdleWorker EXCEPT !.pc = "loop"] /\ rec.pc = "loop"
      BY IdleTyped
    <2>3. worker' = [w \in Workers |-> rec]
      BY <2>1, <2>2
    <2>4. TypeInv'
      BY <2>1, <2>3 DEF IInv, TypeInv
    <2>5. PhaseInv'
      BY <1>0, <2>1 DEF PhaseInv, lenient
    <2>6. StopInv'
      BY <1>0, <2>1 DEF StopInv
    <2>7. FlushInv'
      BY <2>2, <2>3 DEF FlushInv, FlusherOK, Leaving
    <2>8. \A w \in Workers : worker[w].batch = <<>>
      BY <2>1 DEF IInv, StopInv, FlushInv, FlusherOK
    <2>9. LossIsCounted' /\ StopFlushes'
      BY <2>1, <2>8, RangeEmpty DEF IInv, LossIsCounted, StopFlushes, InFlight, Holding
    <2> QED
      BY <2>4, <2>5, <2>6, <2>7, <2>9 DEF IInv
  <1>4. CASE SetAdmin
    <2>1. /\ phase = "api" /\ phase' = "load" /\ pod' = [pod EXCEPT !.api = TRUE]
          /\ UNCHANGED <<queue, worker, stop, enqueued, dropped, landed, outlived, req>>
      BY <1>4 DEF SetAdmin, writer, store
    <2>2. PodIs(pod', TRUE, pod.mockUp, pod.ready, pod.loaded, pod.store)
      BY <1>0, <2>1, PodWith
    <2>3. PhaseInv' /\ pod' \in PodState
      BY <1>0, <2>1, <2>2 DEF PhaseInv, PodIs
    <2> QED
      BY <1>0, <2>1, <2>3, PodMoveKeeps
  <1>5. CASE InitialLoad
    <2>1. CASE Exit
      BY <2>1, ExitKeeps
    <2>2. CASE phase' = "mock"
      <3>1. /\ phase = "load" /\ phase' = "mock"
            /\ pod' = [pod EXCEPT !.loaded = TRUE] \/ (lenient /\ pod' = pod)
            /\ UNCHANGED <<queue, worker, stop, enqueued, dropped, landed, outlived, req>>
        BY <1>5, <2>2 DEF InitialLoad, writer, store, Exit
      <3>2. /\ pod' \in PodState /\ pod'.api = pod.api /\ pod'.mockUp = pod.mockUp
            /\ pod'.ready = pod.ready /\ pod'.store = pod.store
            /\ pod'.loaded \/ lenient
        <4>1. CASE pod' = [pod EXCEPT !.loaded = TRUE]
          <5>1. PodIs(pod', pod.api, pod.mockUp, pod.ready, TRUE, pod.store)
            BY <1>0, <4>1, PodWith
          <5> QED
            BY <5>1 DEF PodIs
        <4>2. CASE lenient /\ pod' = pod
          BY <1>0, <4>2
        <4> QED
          BY <3>1, <4>1, <4>2
      <3>3. PhaseInv'
        BY <1>0, <3>1, <3>2 DEF PhaseInv, lenient
      <3> QED
        BY <1>0, <3>1, <3>2, <3>3, PodMoveKeeps
    <2> QED
      BY <1>5, <2>1, <2>2 DEF InitialLoad
  <1>6. CASE StartMock
    <2>1. CASE Exit
      BY <2>1, ExitKeeps
    <2>2. CASE phase' = "ready"
      <3>1. /\ phase = "mock" /\ phase' = "ready" /\ pod' = [pod EXCEPT !.mockUp = TRUE]
            /\ UNCHANGED <<queue, worker, stop, enqueued, dropped, landed, outlived, req>>
        BY <1>6, <2>2 DEF StartMock, writer, store, Exit
      <3>2. PodIs(pod', pod.api, TRUE, pod.ready, pod.loaded, pod.store)
        BY <1>0, <3>1, PodWith
      <3>3. PhaseInv' /\ pod' \in PodState
        BY <1>0, <3>1, <3>2 DEF PhaseInv, PodIs, lenient
      <3> QED
        BY <1>0, <3>1, <3>3, PodMoveKeeps
    <2> QED
      BY <1>6, <2>1, <2>2 DEF StartMock
  <1>7. CASE SetReady
    <2>1. /\ phase = "ready" /\ phase' = "serve" /\ pod' = [pod EXCEPT !.ready = TRUE]
          /\ UNCHANGED <<queue, worker, stop, enqueued, dropped, landed, outlived, req>>
      BY <1>7 DEF SetReady, writer, store
    <2>2. PodIs(pod', pod.api, pod.mockUp, TRUE, pod.loaded, pod.store)
      BY <1>0, <2>1, PodWith
    <2>3. PhaseInv' /\ pod' \in PodState
      BY <1>0, <2>1, <2>2 DEF PhaseInv, PodIs, lenient
    <2> QED
      BY <1>0, <2>1, <2>3, PodMoveKeeps
  <1> QED
    BY <1>1, <1>2, <1>3, <1>4, <1>5, <1>6, <1>7 DEF Up

-----------------------------------------------------------------------------
LEMMA DownKeeps ==
  ASSUME IInv, Down, setting' = setting PROVE IInv'
  <1> USE DEF Phases
  <1>0. /\ pod \in PodState
        /\ PhaseInv
        /\ stop => phase \in {"flush", "return"}
    BY DEF IInv, TypeInv, StopInv
  <1>1. CASE TakeStop
    <2>1. /\ phase = "serve" /\ phase' = "drain" /\ pod' = [pod EXCEPT !.ready = FALSE]
          /\ UNCHANGED <<queue, worker, stop, enqueued, dropped, landed, outlived, req>>
      BY <1>1 DEF TakeStop, writer, store
    <2>2. PodIs(pod', pod.api, pod.mockUp, FALSE, pod.loaded, pod.store)
      BY <1>0, <2>1, PodWith
    <2>3. PhaseInv' /\ pod' \in PodState
      BY <1>0, <2>1, <2>2 DEF PhaseInv, PodIs
    <2> QED
      BY <1>0, <2>1, <2>3, PodMoveKeeps
  <1>2. CASE CloseMock
    <2>1. /\ phase = "drain" /\ phase' = "closing" /\ pod' = [pod EXCEPT !.mockUp = FALSE]
          /\ UNCHANGED <<queue, worker, stop, enqueued, dropped, landed, outlived, req>>
      BY <1>2 DEF CloseMock, writer, store
    <2>2. PodIs(pod', pod.api, FALSE, pod.ready, pod.loaded, pod.store)
      BY <1>0, <2>1, PodWith
    <2>3. PhaseInv' /\ pod' \in PodState
      BY <1>0, <2>1, <2>2 DEF PhaseInv, PodIs
    <2> QED
      BY <1>0, <2>1, <2>3, PodMoveKeeps
  \* No flusher has seen the stop signal yet, so none has left.
  <1>3. CASE ListenersDone
    <2>1. /\ phase = "closing" /\ phase' = "flush" /\ stop' = TRUE
          /\ pod' = [pod EXCEPT !.adminUp = FALSE] /\ outlived' = Running
          /\ UNCHANGED <<queue, worker, enqueued, dropped, landed, req>>
      BY <1>3 DEF ListenersDone, store
    <2>2. PodIs(pod', pod.api, pod.mockUp, pod.ready, pod.loaded, pod.store)
      BY <1>0, <2>1, PodWith
    <2>3. TypeInv'
      BY <2>1, <2>2 DEF IInv, TypeInv, PodIs
    <2>4. PhaseInv'
      BY <1>0, <2>1, <2>2 DEF PhaseInv, PodIs
    <2>5. StopInv'
      BY <2>1 DEF StopInv, Running
    <2>6. \A w \in Workers : ~Leaving(worker[w])
      BY <1>0, <2>1 DEF IInv, FlushInv, FlusherOK, Leaving
    <2>7. FlushInv'
      <3> SUFFICES ASSUME NEW w \in Workers PROVE FlusherOK(worker[w], queue, landed)'
        BY DEF FlushInv
      <3> QED
        BY <2>1, <2>6 DEF IInv, FlushInv, FlusherOK, Leaving
    <2>8. LossIsCounted' /\ StopFlushes'
      BY <2>1 DEF IInv, LossIsCounted, StopFlushes, InFlight, Holding
    <2> QED
      BY <2>3, <2>4, <2>5, <2>7, <2>8 DEF IInv
  \* Every flusher has left with nothing in hand, and the queue holds only what
  \* came after the listeners gave up.
  <1>4. CASE WriterDone
    <2>1. /\ phase = "flush" /\ phase' = "return"
          /\ \A w \in Workers : worker[w].pc = "exited"
          /\ pod' = [pod EXCEPT !.store = "closed"]
          /\ UNCHANGED <<queue, worker, stop, enqueued, dropped, landed, outlived, req>>
      BY <1>4 DEF WriterDone, writer, store
    <2>2. PodIs(pod', pod.api, pod.mockUp, pod.ready, pod.loaded, "closed")
      BY <1>0, <2>1, PodWith
    <2>3. TypeInv'
      BY <2>1, <2>2 DEF IInv, TypeInv, PodIs
    <2>4. PhaseInv'
      BY <1>0, <2>1, <2>2 DEF PhaseInv, PodIs
    <2>5. StopInv'
      BY <2>1 DEF IInv, StopInv, Running
    <2>6. FlushInv'
      BY <2>1 DEF IInv, FlushInv, FlusherOK
    <2>7. LossIsCounted'
      BY <2>1 DEF IInv, LossIsCounted, InFlight, Holding
    <2>8. /\ Range(queue) \subseteq outlived
          /\ \A w \in Workers : worker[w].batch = <<>>
      BY <2>1, JournalAssumption DEF IInv, FlushInv, FlusherOK, Leaving
    <2>9. InFlight \subseteq outlived
      BY <2>8, RangeEmpty DEF InFlight, Holding
    <2>10. StopFlushes'
      BY <2>1, <2>9 DEF IInv, LossIsCounted, StopFlushes
    <2> QED
      BY <2>3, <2>4, <2>5, <2>6, <2>7, <2>10 DEF IInv
  <1>5. CASE Return
    BY <1>5, ExitKeeps DEF Return
  <1> QED
    BY <1>1, <1>2, <1>3, <1>4, <1>5 DEF Down

-----------------------------------------------------------------------------
\* A step of a request that leaves the queue alone.
LEMMA RequestKeeps ==
  ASSUME IInv, NEW r \in Requests, NEW s \in ReqState,
         req' = [req EXCEPT ![r] = s], s \in {"serving", "reserved"} => pod.mockUp \/ r \in Running,
         dropped \subseteq dropped',
         UNCHANGED <<phase, pod, setting, queue, worker, stop, enqueued, landed, outlived>>
  PROVE  IInv'
  <1>1. TypeInv'
    BY DEF IInv, TypeInv
  <1>2. PhaseInv'
    BY DEF IInv, PhaseInv, lenient
  <1>3. phase \in {"flush", "return"} => Running' \subseteq Running
    BY DEF IInv, TypeInv, PhaseInv, Running
  <1>4. StopInv'
    BY <1>3 DEF IInv, StopInv
  <1>5. FlushInv'
    BY DEF IInv, FlushInv, FlusherOK
  <1>6. LossIsCounted' /\ StopFlushes'
    BY DEF IInv, LossIsCounted, StopFlushes, InFlight, Holding
  <1> QED
    BY <1>1, <1>2, <1>4, <1>5, <1>6 DEF IInv

\* An entry on the queue.  If a flusher is leaving, the listeners have given up
\* and this request is one of those that outlived them.
LEMMA EnqueueKeeps ==
  ASSUME IInv, NEW r \in Requests, req[r] = "reserved", req' = [req EXCEPT ![r] = "done"],
         queue' = Append(queue, r), enqueued' = enqueued \cup {r},
         UNCHANGED <<phase, pod, setting, worker, stop, dropped, landed, outlived>>
  PROVE  IInv'
  <1>1. queue' \in Seq(Requests) /\ Range(queue') = Range(queue) \cup {r}
    BY RangeAppend DEF IInv, TypeInv
  <1>2. TypeInv'
    BY <1>1 DEF IInv, TypeInv, ReqState
  <1>3. PhaseInv'
    BY DEF IInv, PhaseInv, lenient
  <1>4. Running' \subseteq Running /\ r \in Running
    BY DEF IInv, TypeInv, Running
  <1>5. StopInv'
    BY <1>4 DEF IInv, StopInv
  <1>6. stop => r \in outlived
    BY <1>4 DEF IInv, StopInv
  <1>7. FlushInv'
    <2> SUFFICES ASSUME NEW w \in Workers PROVE FlusherOK(worker[w], queue, landed)'
      BY DEF FlushInv
    <2>1. FlusherOK(worker[w], queue, landed)
      BY DEF IInv, FlushInv
    <2>2. Leaving(worker[w]) => stop
      BY <2>1 DEF FlusherOK, Leaving
    <2> QED
      BY <1>1, <1>6, <2>1, <2>2 DEF FlusherOK, Leaving
  <1>8. LossIsCounted'
    BY <1>1 DEF IInv, LossIsCounted, InFlight, Holding
  <1>9. StopFlushes'
    BY <1>4 DEF IInv, StopInv, StopFlushes
  <1> QED
    BY <1>2, <1>3, <1>5, <1>7, <1>8, <1>9 DEF IInv

LEMMA ServeKeeps ==
  ASSUME IInv, NEW r \in Requests, Serve(r), setting' = setting PROVE IInv'
  <1>0. "serving" \in ReqState /\ "reserved" \in ReqState /\ "done" \in ReqState
    BY DEF ReqState
  <1>1. CASE Arrive(r)
    BY <1>0, <1>1, RequestKeeps DEF Arrive, process, writer, store
  <1>2. CASE Refuse(r)
    BY <1>0, <1>2, RequestKeeps DEF Refuse, process, writer, store
  <1>3. CASE Reserve(r)
    <2>1. /\ r \in Running /\ dropped \subseteq dropped'
          /\ req' = [req EXCEPT ![r] = "done"] \/ req' = [req EXCEPT ![r] = "reserved"]
          /\ UNCHANGED <<phase, pod, setting, queue, worker, stop, enqueued, landed, outlived>>
      BY <1>3 DEF Reserve, Running, process, store
    <2> QED
      BY <1>0, <2>1, RequestKeeps
  <1>4. CASE Send(r)
    <2>1. CASE Len(queue) < BufferEntries
      BY <1>4, <2>1, EnqueueKeeps DEF Send, process, store
    <2>2. CASE ~(Len(queue) < BufferEntries)
      <3>1. /\ dropped \subseteq dropped' /\ req' = [req EXCEPT ![r] = "done"]
            /\ UNCHANGED <<phase, pod, setting, queue, worker, stop, enqueued, landed, outlived>>
        BY <1>4, <2>2 DEF Send, process, store
      <3> QED
        BY <1>0, <3>1, RequestKeeps
    <2> QED
      BY <2>1, <2>2
  <1> QED
    BY <1>1, <1>2, <1>3, <1>4 DEF Serve

-----------------------------------------------------------------------------
\* A step of one flusher: it may take entries off the queue, and lets go of one
\* only once it has landed or is counted.
LEMMA FlusherKeeps ==
  ASSUME IInv, NEW w \in Workers, NEW rec \in WorkerState,
         worker' = [worker EXCEPT ![w] = rec],
         worker[w].pc \in {"loop", "drain", "append"}, rec.pc # "off",
         queue' \in Seq(Requests), Range(queue') \subseteq Range(queue),
         landed \subseteq landed', dropped \subseteq dropped',
         Range(queue) \cup Range(worker[w].batch)
           \subseteq Range(queue') \cup Range(rec.batch) \cup landed' \cup dropped',
         FlusherOK(rec, queue', landed'),
         UNCHANGED <<phase, pod, setting, req, stop, enqueued, outlived>>
  PROVE  IInv'
  <1>1. worker'[w] = rec /\ \A v \in Workers \ {w} : worker'[v] = worker[v]
    BY DEF IInv, TypeInv
  <1>2. TypeInv'
    BY DEF IInv, TypeInv
  <1>3. PhaseInv'
    BY DEF IInv, PhaseInv, lenient
  <1>4. phase \notin {"boot", "connect", "journal", "return"}
    BY DEF IInv, StopInv
  <1>5. StopInv'
    BY <1>4 DEF IInv, StopInv, Running
  <1>6. FlushInv'
    <2> SUFFICES ASSUME NEW v \in Workers PROVE FlusherOK(worker[v], queue, landed)'
      BY DEF FlushInv
    <2>1. CASE v = w
      BY <1>1, <2>1 DEF FlusherOK, Leaving
    <2>2. CASE v # w
      <3>1. FlusherOK(worker[v], queue, landed) /\ worker'[v] = worker[v]
        BY <1>1, <2>2 DEF IInv, FlushInv
      <3> QED
        BY <3>1 DEF FlusherOK, Leaving
    <2> QED
      BY <2>1, <2>2
  <1>7. LossIsCounted'
    <2>1. InFlight \subseteq InFlight' \cup landed' \cup dropped'
      <3> SUFFICES ASSUME NEW e \in InFlight PROVE e \in InFlight' \cup landed' \cup dropped'
        OBVIOUS
      <3>1. e \in Range(queue) \cup Range(worker[w].batch) \/
              \E v \in Workers \ {w} : e \in Range(worker[v].batch)
        BY DEF InFlight, Holding
      <3> QED
        BY <1>1, <3>1 DEF InFlight, Holding
    <2> QED
      BY <2>1 DEF IInv, LossIsCounted
  <1>8. StopFlushes'
    BY <1>4 DEF StopFlushes
  <1> QED
    BY <1>2, <1>3, <1>5, <1>6, <1>7, <1>8 DEF IInv

\* A flusher with a full or a last batch: it leaves at once if it holds nothing.
LEMMA FlushingIs ==
  ASSUME NEW rec \in WorkerState, NEW then \in {"loop", "drain", "exited"}
  PROVE  /\ Flushing(rec, then) \in WorkerState
         /\ Flushing(rec, then).batch = rec.batch
         /\ rec.batch = <<>> => Flushing(rec, then).pc = then
         /\ rec.batch # <<>> => /\ Flushing(rec, then).pc = "append"
                                /\ Flushing(rec, then).next = 1
                                /\ Flushing(rec, then).then = then
  <1>1. CASE rec.batch = <<>>
    <2>1. Flushing(rec, then) = [rec EXCEPT !.pc = then]
      BY <1>1 DEF Flushing
    <2>2. <<>> \in Seq(Requests) /\ then \in {"off", "loop", "drain", "append", "exited"}
      OBVIOUS
    <2>3. [rec EXCEPT !.pc = then] \in WorkerState
      BY <2>2, WorkerWith
    <2>4. [rec EXCEPT !.pc = then].pc = then
      BY <2>2, WorkerWith
    <2>5. [rec EXCEPT !.pc = then].batch = rec.batch
      BY <2>2, WorkerWith
    <2> QED
      BY <1>1, <2>1, <2>3, <2>4, <2>5
  <1>2. CASE rec.batch # <<>>
    <2> DEFINE new == [rec EXCEPT !.pc = "append", !.next = 1, !.failed = FALSE, !.then = then]
    <2>1. Flushing(rec, then) = new
      BY <1>2 DEF Flushing
    <2>2. /\ new \in WorkerState /\ new.batch = rec.batch
          /\ new.pc = "append" /\ new.next = 1 /\ new.then = then
      BY DEF WorkerState
    <2> HIDE DEF new
    <2> QED
      BY <1>2, <2>1, <2>2
  <1> QED
    BY <1>1, <1>2

\* What the flusher that moves is, before it moves.
LEMMA FlusherIs ==
  ASSUME IInv, NEW w \in Workers
  PROVE  worker[w] \in WorkerState /\ FlusherOK(worker[w], queue, landed) /\ queue \in Seq(Requests)
  BY DEF IInv, TypeInv, FlushInv

LEMMA ReceiveKeeps ==
  ASSUME IInv, NEW w \in Workers, Receive(w), setting' = setting PROVE IInv'
  <1> PICK old \in WorkerState : old = worker[w]
    BY FlusherIs
  <1> PICK b \in Seq(Requests) : b = Append(old.batch, Head(queue))
    BY RangeTail, RangeAppend, FlusherIs DEF Receive, WorkerState
  <1>1. /\ queue \in Seq(Requests) /\ queue # <<>> /\ FlusherOK(old, queue, landed)
        /\ old.batch \in Seq(Requests) /\ old.pc \in {"loop", "drain"}
        /\ queue' = Tail(queue)
        /\ UNCHANGED <<phase, pod, setting, req, stop, enqueued, outlived, landed, dropped>>
    BY FlusherIs DEF Receive, WorkerState, process, store
  <1>2. /\ queue' \in Seq(Requests) /\ Range(queue) = Range(queue') \cup {Head(queue)}
        /\ Head(queue) \in Requests
    BY <1>1, RangeTail
  <1>3. Range(b) = Range(old.batch) \cup {Head(queue)} /\ b # <<>>
    <2>1. Range(b) = Range(old.batch) \cup {Head(queue)}
      BY <1>1, <1>2, RangeAppend
    <2>2. b # <<>>
      BY <1>1, <1>2, AppendFull
    <2> QED BY <2>1, <2>2
  <1>4. PICK got \in WorkerState : got = [old EXCEPT !.batch = b] /\ got.pc = old.pc /\ got.batch = b
    <2>1. [old EXCEPT !.batch = b] \in WorkerState
      BY WorkerWith
    <2>2. [old EXCEPT !.batch = b].pc = old.pc /\ [old EXCEPT !.batch = b].batch = b
      BY WorkerWith
    <2> QED
      BY <2>1, <2>2
  <1>5. PICK rec \in WorkerState :
          /\ worker' = [worker EXCEPT ![w] = rec]
          /\ rec.batch = b
          /\ rec.pc = old.pc \/ (rec.pc = "append" /\ rec.next = 1 /\ rec.then = old.pc)
    <2>1. worker' = [worker EXCEPT ![w] = IF Len(b) >= BatchSize THEN Flushing(got, old.pc) ELSE got]
      BY <1>4 DEF Receive, Set
    <2>2. CASE Len(b) >= BatchSize
      <3> PICK then \in {"loop", "drain"} : then = old.pc
        BY <1>1
      <3>1. PICK rec \in WorkerState : rec = Flushing(got, then)
        BY FlushingIs
      <3>2. rec.batch = b /\ rec.pc = "append" /\ rec.next = 1 /\ rec.then = then
        <4>1. rec.batch = got.batch
          BY <3>1, FlushingIs
        <4>2. got.batch # <<>>
          BY <1>3, <1>4
        <4>3. rec.pc = "append" /\ rec.next = 1 /\ rec.then = then
          BY <3>1, <4>2, FlushingIs
        <4> QED
          BY <1>4, <4>1, <4>3
      <3>3. worker' = [worker EXCEPT ![w] = rec]
        BY <2>1, <2>2, <3>1
      <3> QED
        BY <3>2, <3>3
    <2>3. CASE ~(Len(b) >= BatchSize)
      BY <1>4, <2>1, <2>3
    <2> QED
      BY <2>2, <2>3
  <1>6. FlusherOK(rec, queue', landed')
    BY <1>1, <1>5 DEF FlusherOK, Leaving
  <1> QED
    BY <1>1, <1>2, <1>3, <1>5, <1>6, FlusherKeeps

LEMMA TickKeeps ==
  ASSUME IInv, NEW w \in Workers, Tick(w), setting' = setting PROVE IInv'
  <1> PICK old \in WorkerState : old = worker[w]
    BY FlusherIs
  <1> PICK rec \in WorkerState : rec = Flushing(old, "loop")
    BY FlushingIs
  <1>1. /\ old.batch # <<>> /\ old.pc = "loop"
        /\ queue \in Seq(Requests)
        /\ worker' = [worker EXCEPT ![w] = rec]
        /\ UNCHANGED <<phase, pod, setting, req, stop, enqueued, outlived, landed, dropped, queue>>
    BY FlusherIs DEF Tick, Set, process, store
  <1>2. rec.batch = old.batch /\ rec.pc = "append" /\ rec.next = 1 /\ rec.then = "loop"
    BY <1>1, FlushingIs
  <1>3. FlusherOK(rec, queue', landed')
    BY <1>1, <1>2 DEF FlusherOK, Leaving
  <1> QED
    BY <1>1, <1>2, <1>3, FlusherKeeps

LEMMA SeeStopKeeps ==
  ASSUME IInv, NEW w \in Workers, SeeStop(w), setting' = setting PROVE IInv'
  <1> PICK old \in WorkerState : old = worker[w]
    BY FlusherIs
  <1>1. PICK rec \in WorkerState :
          rec = [old EXCEPT !.pc = "drain"] /\ rec.pc = "drain" /\ rec.batch = old.batch
    <2>1. [old EXCEPT !.pc = "drain"] \in WorkerState
      BY DEF WorkerState
    <2>2. [old EXCEPT !.pc = "drain"].pc = "drain" /\ [old EXCEPT !.pc = "drain"].batch = old.batch
      BY DEF WorkerState
    <2> QED
      BY <2>1, <2>2
  <1>2. /\ stop /\ old.pc = "loop"
        /\ queue \in Seq(Requests)
        /\ worker' = [worker EXCEPT ![w] = rec]
        /\ UNCHANGED <<phase, pod, setting, req, stop, enqueued, outlived, landed, dropped, queue>>
    BY <1>1, FlusherIs DEF SeeStop, Set, process, store
  <1>3. FlusherOK(rec, queue', landed')
    BY <1>1, <1>2 DEF FlusherOK, Leaving
  <1> QED
    BY <1>1, <1>2, <1>3, FlusherKeeps

LEMMA DrainedKeeps ==
  ASSUME IInv, NEW w \in Workers, Drained(w), setting' = setting PROVE IInv'
  <1> PICK old \in WorkerState : old = worker[w]
    BY FlusherIs
  <1> PICK rec \in WorkerState : rec = Flushing(old, "exited")
    BY FlushingIs
  <1>1. /\ old.pc = "drain" /\ queue = <<>> /\ queue \in Seq(Requests)
        /\ FlusherOK(old, queue, landed)
        /\ worker' = [worker EXCEPT ![w] = rec]
        /\ UNCHANGED <<phase, pod, setting, req, stop, enqueued, outlived, landed, dropped, queue>>
    BY FlusherIs DEF Drained, Set, process, store
  <1>2. /\ rec.batch = old.batch
        /\ \/ rec.batch = <<>> /\ rec.pc = "exited"
           \/ rec.pc = "append" /\ rec.next = 1 /\ rec.then = "exited"
    BY FlushingIs
  <1>3. stop /\ Range(queue) = {}
    BY <1>1, RangeEmpty DEF FlusherOK
  <1>4. FlusherOK(rec, queue', landed')
    BY <1>1, <1>2, <1>3 DEF FlusherOK, Leaving
  <1> QED
    BY <1>1, <1>2, <1>4, FlusherKeeps

LEMMA AppendOneKeeps ==
  ASSUME IInv, NEW w \in Workers, AppendOne(w), setting' = setting PROVE IInv'
  <1> PICK old \in WorkerState : old = worker[w]
    BY FlusherIs
  <1> PICK e : e = old.batch[old.next]
    OBVIOUS
  <1>1. /\ old.pc = "append" /\ queue \in Seq(Requests)
        /\ FlusherOK(old, queue, landed)
        /\ UNCHANGED <<phase, pod, setting, req, stop, enqueued, outlived, dropped, queue>>
    BY FlusherIs DEF AppendOne, process
  <1>2. /\ landed \subseteq landed'
        /\ \/ e \in landed' /\ worker' = [worker EXCEPT ![w] = [old EXCEPT !.next = @ + 1]]
           \/ worker' = [worker EXCEPT ![w] = [old EXCEPT !.next = @ + 1, !.failed = TRUE]]
    BY DEF AppendOne, Set
  <1>3. PICK rec \in WorkerState :
          /\ worker' = [worker EXCEPT ![w] = rec]
          /\ rec.pc = old.pc /\ rec.batch = old.batch /\ rec.then = old.then
          /\ rec.next = old.next + 1
          /\ rec.failed \/ (rec.failed = old.failed /\ e \in landed')
    <2>1. /\ [old EXCEPT !.next = @ + 1] \in WorkerState
          /\ [old EXCEPT !.next = @ + 1].pc = old.pc /\ [old EXCEPT !.next = @ + 1].batch = old.batch
          /\ [old EXCEPT !.next = @ + 1].then = old.then
          /\ [old EXCEPT !.next = @ + 1].next = old.next + 1
          /\ [old EXCEPT !.next = @ + 1].failed = old.failed
      BY DEF WorkerState
    <2> PICK mid \in WorkerState : mid = [old EXCEPT !.next = @ + 1]
      BY <2>1
    <2> DEFINE bad == [mid EXCEPT !.failed = TRUE]
    <2>2. /\ bad \in WorkerState /\ bad.pc = old.pc /\ bad.batch = old.batch
          /\ bad.then = old.then /\ bad.next = old.next + 1 /\ bad.failed = TRUE
      <3>1. bad \in WorkerState
        BY DEF WorkerState
      <3>2. bad.pc = mid.pc /\ bad.batch = mid.batch /\ bad.then = mid.then
        BY DEF WorkerState
      <3>3. bad.next = mid.next /\ bad.failed = TRUE
        BY DEF WorkerState
      <3> QED
        BY <2>1, <3>1, <3>2, <3>3
    <2>5. [old EXCEPT !.next = @ + 1, !.failed = TRUE] = bad
      OBVIOUS
    <2> HIDE DEF bad
    <2>3. CASE e \in landed' /\ worker' = [worker EXCEPT ![w] = [old EXCEPT !.next = @ + 1]]
      BY <2>1, <2>3
    <2>4. CASE worker' = [worker EXCEPT ![w] = bad]
      BY <2>2, <2>4
    <2> QED
      BY <1>2, <2>3, <2>4, <2>5
  <1>4. ASSUME NEW i \in 1..Len(rec.batch), i < rec.next PROVE rec.failed \/ rec.batch[i] \in landed'
    <2>1. i \in Nat /\ old.next \in Nat /\ (i < old.next \/ i = old.next)
      BY <1>3, <1>4 DEF WorkerState
    <2> QED
      BY <1>1, <1>2, <1>3, <2>1 DEF FlusherOK
  <1>5. FlusherOK(rec, queue', landed')
    <2>1. rec.pc = "append" /\ (rec.then = "exited" <=> old.then = "exited") /\ queue' = queue
      BY <1>1, <1>3
    <2> QED
      BY <1>1, <1>3, <1>4, <2>1 DEF FlusherOK, Leaving
  <1> QED
    BY <1>1, <1>2, <1>3, <1>5, FlusherKeeps

LEMMA FlushDoneKeeps ==
  ASSUME IInv, NEW w \in Workers, FlushDone(w), setting' = setting PROVE IInv'
  <1> PICK old \in WorkerState : old = worker[w]
    BY FlusherIs
  <1>1. /\ old.pc = "append" /\ old.next > Len(old.batch) /\ queue \in Seq(Requests)
        /\ old.then \in {"loop", "drain", "exited"} /\ old.batch \in Seq(Requests) /\ old.next \in Nat
        /\ FlusherOK(old, queue, landed)
        /\ dropped' = IF old.failed THEN dropped \cup Range(old.batch) ELSE dropped
        /\ worker' = [worker EXCEPT ![w] = [IdleWorker EXCEPT !.pc = old.then]]
        /\ UNCHANGED <<phase, pod, setting, req, stop, enqueued, outlived, landed, queue>>
    BY FlusherIs DEF FlushDone, Set, WorkerState, process, store
  <1>2. PICK rec \in WorkerState :
          /\ worker' = [worker EXCEPT ![w] = rec]
          /\ rec.pc = old.then /\ rec.batch = <<>>
    BY <1>1, IdleTyped
  <1>3. Range(old.batch) \subseteq landed' \cup dropped'
    <2>1. \A i \in 1..Len(old.batch) : old.failed \/ old.batch[i] \in landed
      BY <1>1 DEF FlusherOK
    <2>2. DOMAIN old.batch = 1..Len(old.batch)
      BY <1>1
    <2> QED
      BY <1>1, <2>1, <2>2 DEF Range
  <1>4. FlusherOK(rec, queue', landed')
    BY <1>1, <1>2 DEF FlusherOK, Leaving
  <1> QED
    BY <1>1, <1>2, <1>3, <1>4, FlusherKeeps

-----------------------------------------------------------------------------
LEMMA NextKeeps == IInv /\ [Next]_vars => IInv'
  <1> SUFFICES ASSUME IInv, [Next]_vars PROVE IInv'
    OBVIOUS
  <1>1. CASE UNCHANGED vars
    <2>1. UNCHANGED <<phase, pod, setting, req, queue, stop, worker, enqueued, dropped, landed, outlived>>
      BY <1>1 DEF vars, process, writer, store
    <2>2. TypeInv' /\ PhaseInv' /\ StopInv'
      BY <2>1 DEF IInv, TypeInv, PhaseInv, StopInv, lenient, Running
    <2>3. FlushInv' /\ LossIsCounted' /\ StopFlushes'
      BY <2>1 DEF IInv, FlushInv, FlusherOK, LossIsCounted, StopFlushes, InFlight, Holding
    <2> QED
      BY <2>2, <2>3 DEF IInv
  <1>2. CASE Up /\ setting' = setting
    BY <1>2, UpKeeps
  <1>3. CASE Down /\ setting' = setting
    BY <1>3, DownKeeps
  <1>4. CASE AskToStop \/ \E c \in Clears : Call(c)
    <2>1. UNCHANGED <<phase, pod, req, queue, stop, worker, enqueued, dropped, landed, outlived>>
      BY <1>4 DEF AskToStop, Call, BeginClear, BeginRemove, BeginDelete, RemoveKeys, process, writer, store
    <2>2. setting' = setting
      BY <1>4 DEF Next, vars
    <2>3. TypeInv' /\ PhaseInv' /\ StopInv'
      BY <2>1, <2>2 DEF IInv, TypeInv, PhaseInv, StopInv, lenient, Running
    <2>4. FlushInv' /\ LossIsCounted' /\ StopFlushes'
      BY <2>1 DEF IInv, FlushInv, FlusherOK, LossIsCounted, StopFlushes, InFlight, Holding
    <2> QED
      BY <2>3, <2>4 DEF IInv
  <1>5. CASE Kill
    BY <1>5, ExitKeeps DEF Kill
  <1>6. ASSUME NEW r \in Requests, Serve(r), setting' = setting PROVE IInv'
    BY <1>6, ServeKeeps
  <1>7. ASSUME NEW w \in Workers, Flush(w), setting' = setting PROVE IInv'
    BY <1>7, ReceiveKeeps, TickKeeps, SeeStopKeeps, DrainedKeeps, AppendOneKeeps, FlushDoneKeeps DEF Flush
  <1> QED
    BY <1>1, <1>2, <1>3, <1>4, <1>5, <1>6, <1>7 DEF Next, Step

LEMMA Invariance == Spec => []IInv
  <1> QED
    BY InitInv, NextKeeps, PTL DEF Spec

\* An entry that Record put on the queue is on its way, has been in the journal,
\* or is counted as dropped.
THEOREM NothingLostUncounted == Spec => []LossIsCounted
  <1>1. IInv => LossIsCounted
    BY DEF IInv
  <1> QED
    BY Invariance, <1>1, PTL

\* When Stop has returned, what was recorded before the listeners gave up has
\* landed or is counted, however many flushers drained the queue.
THEOREM StopLeavesNothing == Spec => []StopFlushes
  <1>1. IInv => StopFlushes
    BY DEF IInv
  <1> QED
    BY Invariance, <1>1, PTL

\* A batch is written only while the store is there.
THEOREM BatchesHaveStore == Spec => []AppendsToOpenStore
  <1>1. IInv => AppendsToOpenStore
    BY DEF IInv, PhaseInv, StopInv, AppendsToOpenStore, Live
  <1> QED
    BY Invariance, <1>1, PTL

\* While /readyz answers 200 the mock port is bound, the API and the store are
\* there, and a snapshot is loaded or start_without_store let the pod do without.
THEOREM ReadyCanServe == Spec => []ReadyServes
  <1>1. IInv => ReadyServes
    BY DEF IInv, PhaseInv, ReadyServes
  <1> QED
    BY Invariance, <1>1, PTL

-----------------------------------------------------------------------------
(* Sums.  SumFunction of a function on a finite set is the number of pairs of *)
(* an argument and a positive number up to its value.                        *)

Units(f, S) == {p \in S \X Nat : 1 <= p[2] /\ p[2] <= f[p[1]]}

\* A set of subsets of a finite set has a minimal one.
LEMMA LeastSubset ==
  ASSUME NEW S, IsFiniteSet(S), NEW T, T \subseteq SUBSET S, T # {}
  PROVE  \E x \in T : \A y \in T : ~(y \subseteq x /\ y # x)
<1>1. FiniteSubsetsOf(S) = SUBSET S
  BY FS_FiniteSubsetsOfFinite
<1>2. \E x \in T : \A y \in T : ~ (<<y, x>> \in StrictSubsetOrdering(S))
  BY <1>1, FS_StrictSubsetOrderingWellFounded, WFMin
<1> QED BY <1>2 DEF StrictSubsetOrdering

\* The units of one argument.
LEMMA UnitsOfOne ==
  ASSUME NEW x, NEW n \in Nat
  PROVE  IsFiniteSet({x} \X (1 .. n)) /\ Cardinality({x} \X (1 .. n)) = n
<1>1. IsFiniteSet({x}) /\ Cardinality({x}) = 1
  BY FS_Singleton
<1>2. IsFiniteSet(1 .. n) /\ Cardinality(1 .. n) = n
  <2>1. IsFiniteSet(1 .. n) /\ Cardinality(1 .. n) = IF 1 > n THEN 0 ELSE n - 1 + 1
    BY FS_Interval
  <2> QED BY <2>1
<1> PICK A : A = {x}
  OBVIOUS
<1> PICK B : B = 1 .. n
  OBVIOUS
<1>3. IsFiniteSet(A \X B) /\ Cardinality(A \X B) = Cardinality(A) * Cardinality(B)
  BY <1>1, <1>2, FS_Product
<1>4. Cardinality(A \X B) = 1 * n
  BY <1>1, <1>2, <1>3
<1> QED BY <1>3, <1>4

\* Two sets of units that have nothing in common.
LEMMA UnitsAdd ==
  ASSUME NEW A, NEW B, IsFiniteSet(A), IsFiniteSet(B), A \cap B = {}
  PROVE  /\ IsFiniteSet(A \cup B) /\ Cardinality(A \cup B) = Cardinality(A) + Cardinality(B)
         /\ Cardinality(A) \in Nat /\ Cardinality(B) \in Nat
<1>1. Cardinality(A) \in Nat /\ Cardinality(B) \in Nat
  BY FS_CardinalityType
<1>2. Cardinality({}) = 0
  BY FS_EmptySet
<1>3. IsFiniteSet(A \cup B)
  BY FS_Union
<1>4. Cardinality(A \cup B) = Cardinality(A) + Cardinality(B) - Cardinality(A \cap B)
  BY FS_Union
<1>5. Cardinality(A \cap B) = 0
  BY <1>2, Zenon
<1> QED BY <1>1, <1>3, <1>4, <1>5

\* One argument more.
LEMMA UnitsStep ==
  ASSUME NEW S, NEW f \in [S -> Nat], NEW s \in SUBSET S, NEW x \in s,
         IsFiniteSet(Units(f, s \ {x}))
  PROVE  /\ IsFiniteSet(Units(f, s))
         /\ Cardinality(Units(f, s)) = f[x] + Cardinality(Units(f, s \ {x}))
         /\ Cardinality(Units(f, s \ {x})) \in Nat
<1> DEFINE A == {x} \X (1 .. f[x])
           B == Units(f, s \ {x})
<1>1. f[x] \in Nat
  OBVIOUS
<1>2. Units(f, s) = A \cup B
  <2>1. \A p : p \in Units(f, s) <=> p \in A \/ p \in B
    BY <1>1 DEF Units
  <2> QED BY <2>1
<1>3. A \cap B = {}
  BY DEF Units
<1>4. IsFiniteSet(A) /\ Cardinality(A) = f[x]
  BY <1>1, UnitsOfOne
<1> HIDE DEF A, B
<1>5. IsFiniteSet(A \cup B) /\ Cardinality(A \cup B) = Cardinality(A) + Cardinality(B)
      /\ Cardinality(B) \in Nat
  <2>1. IsFiniteSet(A) /\ IsFiniteSet(B)
    BY <1>4 DEF B
  <2> QED BY <1>3, <2>1, UnitsAdd
<1> QED BY <1>2, <1>4, <1>5 DEF B

LEMMA UnitsFinite ==
  ASSUME NEW S, IsFiniteSet(S), NEW f \in [S -> Nat], NEW s \in SUBSET S
  PROVE  IsFiniteSet(Units(f, s)) /\ Cardinality(Units(f, s)) \in Nat
<1> DEFINE T == {t \in SUBSET S : ~IsFiniteSet(Units(f, t))}
<1>1. ASSUME T # {} PROVE FALSE
  <2>0. T \subseteq SUBSET S
    OBVIOUS
  <2> HIDE DEF T
  <2>1. PICK t \in T : \A u \in T : ~(u \subseteq t /\ u # t)
    BY <1>1, <2>0, LeastSubset
  <2> USE DEF T
  <2>2. CASE t = {}
    <3>1. Units(f, t) = {}
      BY <2>2 DEF Units
    <3> QED BY <2>1, <3>1, FS_EmptySet
  <2>3. CASE t # {}
    <3>1. PICK x : x \in t
      BY <2>3
    <3>2. t \ {x} \in SUBSET S /\ t \ {x} \subseteq t /\ t \ {x} # t
      BY <3>1
    <3>3. IsFiniteSet(Units(f, t \ {x}))
      BY <2>1, <3>2
    <3> QED BY <2>1, <3>1, <3>3, UnitsStep
  <2> QED BY <2>2, <2>3
<1>2. IsFiniteSet(Units(f, s))
  BY <1>1
<1> QED BY <1>2, FS_CardinalityType

LEMMA SumIs ==
  ASSUME NEW S, IsFiniteSet(S), NEW f \in [S -> Nat]
  PROVE  SumFunction(f) = Cardinality(Units(f, S)) /\ SumFunction(f) \in Nat
<1> DEFINE some(s) == CHOOSE x \in s : TRUE
           body(g, s) == IF s = {} THEN 0 ELSE f[some(s)] + g[s \ {some(s)}]
           iter == CHOOSE g : g = [s \in SUBSET S |-> body(g, s)]
           h == [s \in SUBSET S |-> Cardinality(Units(f, s))]
<1>0. DOMAIN f = S
  OBVIOUS
<1>1. SumFunction(f) = iter[S]
  BY <1>0 DEF SumFunction, SumFunctionOnSet, FoldFunctionOnSet, MapThenFoldSet
<1>2. \A s : s # {} => some(s) \in s
  OBVIOUS
<1> HIDE DEF some
<1>3. ASSUME NEW s \in SUBSET S PROVE Cardinality(Units(f, s)) = body(h, s)
  <2>1. CASE s = {}
    <3>1. Units(f, s) = {}
      BY <2>1 DEF Units
    <3> QED BY <2>1, <3>1, FS_EmptySet
  <2>2. CASE s # {}
    <3>1. some(s) \in s /\ s \ {some(s)} \in SUBSET S
      BY <1>2, <2>2
    <3>2. IsFiniteSet(Units(f, s \ {some(s)}))
      BY <3>1, UnitsFinite
    <3>3. Cardinality(Units(f, s)) = f[some(s)] + Cardinality(Units(f, s \ {some(s)}))
      BY <3>1, <3>2, UnitsStep
    <3> QED BY <2>2, <3>1, <3>3
  <2> QED BY <2>1, <2>2
<1>4. h = [s \in SUBSET S |-> body(h, s)]
  BY <1>3
<1>5. iter = [s \in SUBSET S |-> body(iter, s)]
  BY <1>4
<1> HIDE DEF iter, h
<1>6. \A s \in SUBSET S : iter[s] = body(iter, s) /\ h[s] = body(h, s)
  BY <1>4, <1>5
<1> DEFINE T == {s \in SUBSET S : iter[s] # h[s]}
<1>7. ASSUME T # {} PROVE FALSE
  <2>0. T \subseteq SUBSET S
    OBVIOUS
  <2> HIDE DEF T
  <2>1. PICK t \in T : \A u \in T : ~(u \subseteq t /\ u # t)
    BY <1>7, <2>0, LeastSubset
  <2> USE DEF T
  <2>2. CASE t = {}
    BY <1>6, <2>1, <2>2
  <2>3. CASE t # {}
    <3>1. some(t) \in t
      BY <1>2, <2>3
    <3>2. t \ {some(t)} \in SUBSET S /\ t \ {some(t)} \subseteq t /\ t \ {some(t)} # t
      BY <3>1
    <3>3. iter[t \ {some(t)}] = h[t \ {some(t)}]
      BY <2>1, <3>2
    <3> QED BY <1>6, <2>1, <2>3, <3>3
  <2> QED BY <2>2, <2>3
<1>8. iter[S] = h[S] /\ h[S] = Cardinality(Units(f, S))
  BY <1>7 DEF h
<1> QED BY <1>1, <1>8, UnitsFinite

\* A function that is the one where the other is 0 sums up to both.
LEMMA SumParts ==
  ASSUME NEW S, IsFiniteSet(S), NEW f \in [S -> Nat], NEW g \in [S -> Nat], NEW h \in [S -> Nat],
         \A x \in S : (g[x] = 0 /\ f[x] = h[x]) \/ (h[x] = 0 /\ f[x] = g[x])
  PROVE  SumFunction(f) = SumFunction(g) + SumFunction(h)
<1>1. \A p : p \in Units(f, S) <=> p \in Units(g, S) \/ p \in Units(h, S)
  BY DEF Units
<1>2. \A p : ~(p \in Units(g, S) /\ p \in Units(h, S))
  BY DEF Units
<1>3. /\ SumFunction(f) = Cardinality(Units(f, S))
      /\ SumFunction(g) = Cardinality(Units(g, S))
      /\ SumFunction(h) = Cardinality(Units(h, S))
  BY SumIs
<1>4. IsFiniteSet(Units(g, S)) /\ IsFiniteSet(Units(h, S))
  BY UnitsFinite
<1> PICK A : A = Units(g, S)
  OBVIOUS
<1> PICK B : B = Units(h, S)
  OBVIOUS
<1>5. Units(f, S) = A \cup B /\ A \cap B = {}
  BY <1>1, <1>2
<1>6. Cardinality(A \cup B) = Cardinality(A) + Cardinality(B)
  BY <1>4, <1>5, UnitsAdd
<1> QED BY <1>3, <1>5, <1>6

\* Nothing sums up to 0, and one argument to its value.
LEMMA SumOfOne ==
  ASSUME NEW S, IsFiniteSet(S), NEW f \in [S -> Nat], NEW x \in S,
         \A y \in S : y # x => f[y] = 0
  PROVE  SumFunction(f) = f[x]
<1>1. f[x] \in Nat
  OBVIOUS
<1>2. \A p : p \in Units(f, S) <=> p \in {x} \X (1 .. f[x])
  BY <1>1 DEF Units
<1>3. Units(f, S) = {x} \X (1 .. f[x])
  BY <1>2
<1>4. Cardinality({x} \X (1 .. f[x])) = f[x]
  BY <1>1, UnitsOfOne
<1>5. SumFunction(f) = Cardinality(Units(f, S))
  BY SumIs
<1> QED BY <1>3, <1>4, <1>5

LEMMA SumOfNone ==
  ASSUME NEW S, IsFiniteSet(S), NEW f \in [S -> Nat], \A y \in S : f[y] = 0
  PROVE  SumFunction(f) = 0
<1>1. \A p : p \notin Units(f, S)
  BY DEF Units
<1>2. Units(f, S) = {}
  BY <1>1
<1> QED BY <1>2, SumIs, FS_EmptySet

\* A sequence without repetition sums up to what its elements do.
SumsAlike(S, b, f, g) ==
  (/\ b \in Seq(S) /\ IsInjective(b) /\ f \in [DOMAIN b -> Nat] /\ g \in [S -> Nat]
   /\ \A i \in DOMAIN b : f[i] = g[b[i]]
   /\ \A x \in S : x \notin Range(b) => g[x] = 0)
     => SumFunction(f) = SumFunction(g)

LEMMA SumOfSeq ==
  ASSUME NEW S, IsFiniteSet(S), NEW b, NEW f, NEW g
  PROVE  SumsAlike(S, b, f, g)
<1> SUFFICES ASSUME b \in Seq(S), IsInjective(b), f \in [DOMAIN b -> Nat], g \in [S -> Nat],
                    \A i \in DOMAIN b : f[i] = g[b[i]],
                    \A x \in S : x \notin Range(b) => g[x] = 0
             PROVE  SumFunction(f) = SumFunction(g)
  BY DEF SumsAlike
<1> DEFINE D == DOMAIN b
           A == Units(f, D)
           B == Units(g, S)
           m == [p \in A |-> <<b[p[1]], p[2]>>]
<1>1. D = 1 .. Len(b) /\ Len(b) \in Nat /\ \A i \in D : b[i] \in S
  OBVIOUS
<1>2. IsFiniteSet(D)
  BY <1>1, FS_Interval
<1>3. \A x \in Range(b) : \E i \in D : x = b[i]
  BY DEF Range
<1>4. f \in [D -> Nat] /\ \A i \in D : f[i] = g[b[i]]
  OBVIOUS
<1> HIDE DEF D
<1>5. m \in [A -> B]
  <2> SUFFICES ASSUME NEW p \in A PROVE <<b[p[1]], p[2]>> \in B
    OBVIOUS
  <2> QED BY <1>1, <1>4 DEF Units
<1>6. \A p, q \in A : m[p] = m[q] => p = q
  <2> SUFFICES ASSUME NEW p \in A, NEW q \in A, m[p] = m[q] PROVE p = q
    OBVIOUS
  <2>1. b[p[1]] = b[q[1]] /\ p[2] = q[2]
    OBVIOUS
  <2>2. p[1] \in D /\ q[1] \in D /\ p = <<p[1], p[2]>> /\ q = <<q[1], q[2]>>
    BY DEF Units
  <2>3. p[1] = q[1]
    BY <2>1, <2>2 DEF D, IsInjective
  <2> QED BY <2>1, <2>2, <2>3
<1>7. \A q \in B : \E p \in A : m[p] = q
  <2> SUFFICES ASSUME NEW q \in B PROVE \E p \in A : m[p] = q
    OBVIOUS
  <2>1. q[1] \in S /\ q[2] \in Nat /\ 1 <= q[2] /\ q[2] <= g[q[1]] /\ q = <<q[1], q[2]>>
    BY DEF Units
  <2>2. q[1] \in Range(b)
    BY <2>1
  <2>3. PICK i \in D : q[1] = b[i]
    BY <1>3, <2>2
  <2>4. <<i, q[2]>> \in A
    BY <1>4, <2>1, <2>3 DEF Units
  <2>5. m[<<i, q[2]>>] = q
    BY <2>1, <2>3, <2>4
  <2> QED BY <2>4, <2>5
<1>8. IsFiniteSet(A)
  BY <1>2, <1>4, UnitsFinite
<1> HIDE DEF m, A, B
<1>9. ExistsBijection(A, B)
  BY <1>5, <1>6, <1>7 DEF ExistsBijection, Bijection, Injection, Surjection, IsInjective
<1>10. Cardinality(A) = Cardinality(B)
  BY <1>8, <1>9, FS_Bijection
<1>11. SumFunction(f) = Cardinality(A) /\ SumFunction(g) = Cardinality(B)
  BY <1>2, <1>4, SumIs DEF A, B
<1> QED BY <1>10, <1>11

-----------------------------------------------------------------------------
(* The byte cap's account.  An entry is charged from the reservation of its *)
(* bytes until its batch is over, and is in one place only: a request that  *)
(* reserves is on no queue, and what is taken off the queue is in one batch.*)

Charged == {r \in Requests : req[r] = "reserved"} \cup InFlight

Weight(H) == [r \in Requests |-> IF r \in H THEN size[r] ELSE 0]

OnceInv ==
  /\ IsInjective(queue)
  /\ \A w \in Workers : IsInjective(worker[w].batch) /\ Holding(w) \cap Range(queue) = {}
  /\ \A v, w \in Workers : v # w => Holding(v) \cap Holding(w) = {}
  /\ \A r \in InFlight : req[r] = "done"

AccountInv ==
  /\ setting \in Settings
  /\ bytes = SumFunction(Weight(Charged))
  /\ BufferBytes > 0 => bytes <= BufferBytes

HoldInv == IInv /\ OnceInv /\ AccountInv

\* Of a queue that has grown or shrunk by one.
LEMMA InjectiveAppend ==
  ASSUME NEW q \in Seq(Requests), NEW r \in Requests, IsInjective(q), r \notin Range(q)
  PROVE  IsInjective(Append(q, r))
<1>1. /\ Len(q) \in Nat /\ DOMAIN q = 1 .. Len(q)
      /\ DOMAIN Append(q, r) = 1 .. (Len(q) + 1)
      /\ \A i \in 1 .. Len(q) : Append(q, r)[i] = q[i]
      /\ Append(q, r)[Len(q) + 1] = r
  OBVIOUS
<1>2. \A i \in 1 .. Len(q) : q[i] # r
  BY <1>1 DEF Range
<1> QED BY <1>1, <1>2 DEF IsInjective

LEMMA InjectiveTail ==
  ASSUME NEW q \in Seq(Requests), q # <<>>, IsInjective(q)
  PROVE  IsInjective(Tail(q)) /\ Head(q) \notin Range(Tail(q))
<1>1. /\ Len(q) \in Nat \ {0} /\ DOMAIN q = 1 .. Len(q)
      /\ DOMAIN Tail(q) = 1 .. (Len(q) - 1) /\ Head(q) = q[1]
      /\ \A i \in 1 .. (Len(q) - 1) : Tail(q)[i] = q[i + 1]
  OBVIOUS
<1>2. \A i \in 1 .. (Len(q) - 1) : i + 1 \in 1 .. Len(q) /\ i + 1 # 1
  BY <1>1
<1>3. IsInjective(Tail(q))
  BY <1>1, <1>2 DEF IsInjective
<1>4. Head(q) \notin Range(Tail(q))
  BY <1>1, <1>2 DEF IsInjective, Range
<1> QED BY <1>3, <1>4

LEMMA InjectiveEmpty == IsInjective(<<>>)
BY DEF IsInjective

\* The weight of what is charged when one request more, or a batch, is.
LEMMA WeightType ==
  ASSUME AccountInv, NEW H PROVE Weight(H) \in [Requests -> Nat] /\ size \in [Requests -> Nat]
BY JournalAssumption DEF AccountInv, Weight, size

LEMMA WeightAdd ==
  ASSUME AccountInv, IsFiniteSet(Requests), NEW H, NEW r \in Requests, r \notin H
  PROVE  /\ SumFunction(Weight(H \cup {r})) = SumFunction(Weight(H)) + size[r]
         /\ SumFunction(Weight(H)) \in Nat
<1>1. \A G : Weight(G) \in [Requests -> Nat]
  BY WeightType
<1>2. \A G, x : x \in Requests => Weight(G)[x] = IF x \in G THEN size[x] ELSE 0
  BY DEF Weight
<1>3. SumFunction(Weight({r})) = size[r]
  <2>1. Weight({r})[r] = size[r] /\ \A y \in Requests : y # r => Weight({r})[y] = 0
    BY <1>2
  <2>2. Weight({r}) \in [Requests -> Nat]
    BY <1>1
  <2> HIDE DEF Weight
  <2> PICK f \in [Requests -> Nat] : f = Weight({r})
    BY <2>2
  <2>3. SumFunction(f) = f[r]
    BY <2>1, SumOfOne
  <2> QED BY <2>1, <2>3
<1>4. \A x \in Requests :
        \/ Weight(H)[x] = 0 /\ Weight(H \cup {r})[x] = Weight({r})[x]
        \/ Weight({r})[x] = 0 /\ Weight(H \cup {r})[x] = Weight(H)[x]
  BY <1>2
<1> PICK f \in [Requests -> Nat] : f = Weight(H \cup {r})
  BY <1>1
<1> PICK g \in [Requests -> Nat] : g = Weight(H)
  BY <1>1
<1> PICK h \in [Requests -> Nat] : h = Weight({r})
  BY <1>1
<1>5. SumFunction(f) = SumFunction(g) + SumFunction(h)
  <2>1. \A x \in Requests : (g[x] = 0 /\ f[x] = h[x]) \/ (h[x] = 0 /\ f[x] = g[x])
    BY <1>4
  <2> QED BY <2>1, SumParts
<1>6. SumFunction(g) \in Nat
  BY SumIs
<1> QED BY <1>3, <1>5, <1>6

LEMMA WeightSplit ==
  ASSUME AccountInv, IsFiniteSet(Requests), NEW H, NEW B, B \subseteq H
  PROVE  /\ SumFunction(Weight(H)) = SumFunction(Weight(H \ B)) + SumFunction(Weight(B))
         /\ SumFunction(Weight(H \ B)) \in Nat
<1>1. \A G : Weight(G) \in [Requests -> Nat]
  BY WeightType
<1>2. \A G, x : x \in Requests => Weight(G)[x] = IF x \in G THEN size[x] ELSE 0
  BY DEF Weight
<1>3. \A x \in Requests :
        \/ Weight(H \ B)[x] = 0 /\ Weight(H)[x] = Weight(B)[x]
        \/ Weight(B)[x] = 0 /\ Weight(H)[x] = Weight(H \ B)[x]
  BY <1>2
<1> PICK f \in [Requests -> Nat] : f = Weight(H)
  BY <1>1
<1> PICK g \in [Requests -> Nat] : g = Weight(H \ B)
  BY <1>1
<1> PICK h \in [Requests -> Nat] : h = Weight(B)
  BY <1>1
<1>4. SumFunction(f) = SumFunction(g) + SumFunction(h)
  <2>1. \A x \in Requests : (g[x] = 0 /\ f[x] = h[x]) \/ (h[x] = 0 /\ f[x] = g[x])
    BY <1>3
  <2> QED BY <2>1, SumParts
<1>5. SumFunction(g) \in Nat
  BY SumIs
<1> QED BY <1>4, <1>5

LEMMA WeightBatch ==
  ASSUME AccountInv, IsFiniteSet(Requests), NEW b \in Seq(Requests), IsInjective(b)
  PROVE  SumFunction([i \in DOMAIN b |-> size[b[i]]]) = SumFunction(Weight(Range(b)))
<1>1. \A i \in DOMAIN b : b[i] \in Requests /\ b[i] \in Range(b)
  BY DEF Range
<1>2. \A x \in Requests : Weight(Range(b))[x] = IF x \in Range(b) THEN size[x] ELSE 0
  BY DEF Weight
<1> PICK g \in [Requests -> Nat] : g = Weight(Range(b))
  BY WeightType
<1> DEFINE f == [i \in DOMAIN b |-> size[b[i]]]
<1>3. f \in [DOMAIN b -> Nat] /\ \A i \in DOMAIN b : f[i] = size[b[i]]
  BY <1>1, WeightType
<1>4. /\ \A i \in DOMAIN b : f[i] = g[b[i]]
      /\ \A x \in Requests : x \notin Range(b) => g[x] = 0
  BY <1>1, <1>2, <1>3
<1> HIDE DEF f
<1>5. SumsAlike(Requests, b, f, g)
  BY SumOfSeq
<1>6. SumFunction(f) = SumFunction(g)
  BY <1>3, <1>4, <1>5 DEF SumsAlike
<1> QED BY <1>6 DEF f

LEMMA WeightNone ==
  ASSUME AccountInv, IsFiniteSet(Requests) PROVE SumFunction(Weight({})) = 0
<1> PICK f \in [Requests -> Nat] : f = Weight({})
  BY WeightType
<1>1. \A x \in Requests : f[x] = 0
  BY DEF Weight
<1> QED BY <1>1, SumOfNone

-----------------------------------------------------------------------------
\* What the account has to be after a step, from what is charged then.
LEMMA AccountIs ==
  ASSUME AccountInv, setting' = setting, NEW H, Charged' = H,
         bytes' = SumFunction(Weight(H)), BufferBytes > 0 => bytes' <= BufferBytes
  PROVE  AccountInv'
<1>1. Weight(Charged)' = Weight(H)
  BY DEF Weight, size
<1> QED BY <1>1 DEF AccountInv

\* A step that moves no entry.
LEMMA SameCharge ==
  ASSUME HoldInv, setting' = setting, bytes' = bytes, queue' = queue,
         \A w \in Workers : worker'[w].batch = worker[w].batch,
         \A r \in Requests : req'[r] = "reserved" <=> req[r] = "reserved",
         \A r \in Requests : req[r] = "done" => req'[r] = "done"
  PROVE  OnceInv' /\ AccountInv'
<1>1. \A w \in Workers : Holding(w)' = Holding(w)
  BY DEF Holding
<1>2. InFlight' = InFlight
  BY <1>1 DEF InFlight
<1>3. Charged' = Charged
  BY <1>2 DEF Charged
<1>4. AccountInv'
  <2> PICK H : H = Charged
    OBVIOUS
  <2> QED BY <1>3, AccountIs DEF HoldInv, AccountInv
<1>5. InFlight \subseteq Requests
  BY DEF HoldInv, IInv, TypeInv, InFlight, Holding, WorkerState, Range
<1>6. OnceInv'
  <2>1. \A r \in InFlight' : req'[r] = "done"
    BY <1>2, <1>5 DEF HoldInv, OnceInv
  <2> QED BY <1>1, <2>1 DEF HoldInv, OnceInv
<1> QED BY <1>4, <1>6

LEMMA ExitCharge ==
  ASSUME HoldInv, IsFiniteSet(Requests), setting' = setting, Exit
  PROVE  OnceInv' /\ AccountInv'
<1>1. \A w \in Workers : worker'[w].batch = <<>>
  BY IdleTyped DEF Exit
<1>2. queue' = <<>> /\ bytes' = 0 /\ \A r \in Requests : req'[r] = "idle"
  BY DEF Exit
<1>3. /\ \A w \in Workers : Holding(w)' = {}
      /\ InFlight' = {}
  BY <1>1, <1>2, RangeEmpty DEF InFlight, Holding
<1>4. Charged' = {}
  BY <1>2, <1>3 DEF Charged
<1>5. AccountInv'
  <2>1. SumFunction(Weight({})) = 0
    BY WeightNone DEF HoldInv
  <2>2. BufferBytes \in Nat
    BY JournalAssumption
  <2>3. bytes' = SumFunction(Weight({})) /\ (BufferBytes > 0 => bytes' <= BufferBytes)
    BY <1>2, <2>1, <2>2
  <2> QED BY <1>4, <2>3, AccountIs DEF HoldInv
<1>6. OnceInv'
  BY <1>1, <1>2, <1>3, InjectiveEmpty DEF OnceInv
<1> QED BY <1>5, <1>6

\* An entry's bytes are reserved, under the cap.
LEMMA ReserveCharge ==
  ASSUME HoldInv, IsFiniteSet(Requests), NEW r \in Requests, Reserve(r), setting' = setting
  PROVE  OnceInv' /\ AccountInv'
<1>1. req \in [Requests -> ReqState] /\ req[r] = "serving"
  BY DEF HoldInv, IInv, TypeInv, Reserve
<1>2. queue' = queue /\ worker' = worker
  BY DEF Reserve
<1>3. CASE req' = [req EXCEPT ![r] = "done"] /\ bytes' = bytes
  BY <1>1, <1>2, <1>3, SameCharge
<1>4. CASE /\ req' = [req EXCEPT ![r] = "reserved"] /\ bytes' = bytes + size[r]
           /\ ~(BufferBytes > 0 /\ bytes + size[r] > BufferBytes)
  <2>1. InFlight' = InFlight /\ \A w \in Workers : Holding(w)' = Holding(w)
    BY <1>2 DEF InFlight, Holding
  <2>2. r \notin Charged
    BY <1>1 DEF Charged, HoldInv, OnceInv
  <2>3. Charged' = Charged \cup {r}
    BY <1>1, <1>4, <2>1 DEF Charged
  <2>4. AccountInv'
    <3> PICK H : H = Charged
      OBVIOUS
    <3>1. SumFunction(Weight(H \cup {r})) = SumFunction(Weight(H)) + size[r]
      BY <2>2, WeightAdd DEF HoldInv
    <3>2. SumFunction(Weight(H)) \in Nat
      BY <2>2, WeightAdd DEF HoldInv
    <3>3. bytes = SumFunction(Weight(H))
      BY DEF HoldInv, AccountInv
    <3>4. size[r] \in Nat /\ BufferBytes \in Nat
      BY WeightType, JournalAssumption DEF HoldInv
    <3>5. bytes' = SumFunction(Weight(H \cup {r})) /\ (BufferBytes > 0 => bytes' <= BufferBytes)
      BY <1>4, <3>1, <3>2, <3>3, <3>4
    <3> QED BY <2>3, <3>5, AccountIs DEF HoldInv
  <2>5. OnceInv'
    <3>1. \A q \in InFlight' : req'[q] = "done"
      BY <1>1, <1>4, <2>1 DEF HoldInv, OnceInv
    <3> QED BY <1>2, <2>1, <3>1 DEF HoldInv, OnceInv
  <2> QED BY <2>4, <2>5
<1> QED BY <1>3, <1>4 DEF Reserve

\* The entry goes on the queue, or gives its bytes back.
LEMMA SendCharge ==
  ASSUME HoldInv, IsFiniteSet(Requests), NEW r \in Requests, Send(r), setting' = setting
  PROVE  OnceInv' /\ AccountInv'
<1>1. /\ req \in [Requests -> ReqState] /\ req[r] = "reserved" /\ queue \in Seq(Requests)
      /\ req' = [req EXCEPT ![r] = "done"] /\ worker' = worker
  BY DEF HoldInv, IInv, TypeInv, Send
<1>2. r \notin InFlight /\ r \in Charged
  BY <1>1 DEF HoldInv, OnceInv, Charged
<1>3. \A w \in Workers : Holding(w)' = Holding(w)
  BY <1>1 DEF Holding
<1>4. CASE queue' = Append(queue, r) /\ bytes' = bytes
  <2>1. Range(queue') = Range(queue) \cup {r}
    BY <1>1, <1>4, RangeAppend
  <2>2. InFlight' = InFlight \cup {r}
    BY <1>3, <2>1 DEF InFlight
  <2>3. Charged' = Charged
    BY <1>1, <1>2, <2>2 DEF Charged
  <2>4. AccountInv'
    <3> PICK H : H = Charged
      OBVIOUS
    <3> QED BY <1>4, <2>3, AccountIs DEF HoldInv, AccountInv
  <2>5. r \notin Range(queue) /\ \A w \in Workers : r \notin Holding(w)
    BY <1>2 DEF InFlight
  <2>6. IsInjective(queue')
    BY <1>1, <1>4, <2>5, InjectiveAppend DEF HoldInv, OnceInv
  <2>7. \A w \in Workers : IsInjective(worker'[w].batch) /\ Holding(w)' \cap Range(queue') = {}
    BY <1>1, <1>3, <2>1, <2>5 DEF HoldInv, OnceInv
  <2>8. \A q \in InFlight' : req'[q] = "done"
    BY <1>1, <2>2 DEF HoldInv, OnceInv
  <2>9. OnceInv'
    BY <1>3, <2>6, <2>7, <2>8 DEF HoldInv, OnceInv
  <2> QED BY <2>4, <2>9
<1>5. CASE queue' = queue /\ bytes' = bytes - size[r]
  <2>1. InFlight' = InFlight
    BY <1>3, <1>5 DEF InFlight
  <2>2. Charged' = Charged \ {r}
    BY <1>1, <1>2, <2>1 DEF Charged
  <2>3. AccountInv'
    <3> PICK H : H = Charged \ {r}
      OBVIOUS
    <3>1. r \notin H /\ H \cup {r} = Charged
      BY <1>2
    <3>2. SumFunction(Weight(H \cup {r})) = SumFunction(Weight(H)) + size[r]
      BY <3>1, WeightAdd DEF HoldInv
    <3>3. SumFunction(Weight(H)) \in Nat
      BY <3>1, WeightAdd DEF HoldInv
    <3>4. bytes = SumFunction(Weight(H \cup {r})) /\ (BufferBytes > 0 => bytes <= BufferBytes)
      BY <3>1 DEF HoldInv, AccountInv
    <3>5. size[r] \in Nat /\ BufferBytes \in Nat
      BY WeightType, JournalAssumption DEF HoldInv
    <3>6. bytes' = SumFunction(Weight(H)) /\ (BufferBytes > 0 => bytes' <= BufferBytes)
      BY <1>5, <3>2, <3>3, <3>4, <3>5
    <3> QED BY <2>2, <3>6, AccountIs DEF HoldInv
  <2>4. \A q \in InFlight' : req'[q] = "done"
    BY <1>1, <2>1 DEF HoldInv, OnceInv
  <2>5. OnceInv'
    BY <1>1, <1>3, <1>5, <2>4 DEF HoldInv, OnceInv
  <2> QED BY <2>3, <2>5
<1> QED BY <1>4, <1>5 DEF Send

-----------------------------------------------------------------------------
\* An entry moves from the queue to one batch.
LEMMA ReceiveCharge ==
  ASSUME HoldInv, NEW w \in Workers, Receive(w), setting' = setting
  PROVE  OnceInv' /\ AccountInv'
<1> PICK old \in WorkerState : old = worker[w]
  BY FlusherIs DEF HoldInv
<1> PICK h : h = Head(queue)
  OBVIOUS
<1> PICK b : b = Append(old.batch, h)
  OBVIOUS
<1>1. /\ queue \in Seq(Requests) /\ queue # <<>> /\ old.batch \in Seq(Requests)
      /\ old.pc \in {"loop", "drain"} /\ worker \in [Workers -> WorkerState]
      /\ queue' = Tail(queue) /\ bytes' = bytes /\ req' = req
      /\ worker' = [worker EXCEPT ![w] =
           LET got == [old EXCEPT !.batch = b]
           IN  IF Len(got.batch) >= BatchSize THEN Flushing(got, got.pc) ELSE got]
  BY FlusherIs DEF HoldInv, IInv, TypeInv, Receive, Set, WorkerState
<1>2. /\ h \in Requests /\ Range(queue) = Range(queue') \cup {h}
      /\ queue' \in Seq(Requests)
  BY <1>1, RangeTail
<1>3. IsInjective(queue') /\ h \notin Range(queue')
  BY <1>1, InjectiveTail DEF HoldInv, OnceInv
<1>4. b \in Seq(Requests) /\ Range(b) = Range(old.batch) \cup {h}
  BY <1>1, <1>2, RangeAppend
<1>5. /\ Holding(w) = Range(old.batch) /\ IsInjective(old.batch)
      /\ \A v \in Workers : h \notin Holding(v)
  BY <1>2 DEF HoldInv, OnceInv, Holding
<1>6. IsInjective(b)
  BY <1>1, <1>2, <1>5, InjectiveAppend
<1>7. worker'[w].batch = b
  <2>1. PICK got \in WorkerState : got = [old EXCEPT !.batch = b] /\ got.pc = old.pc /\ got.batch = b
    <3>1. [old EXCEPT !.batch = b] \in WorkerState
      BY <1>4, WorkerWith
    <3>2. [old EXCEPT !.batch = b].pc = old.pc /\ [old EXCEPT !.batch = b].batch = b
      BY <1>4, WorkerWith
    <3> QED BY <3>1, <3>2
  <2>2. worker' = [worker EXCEPT ![w] = IF Len(b) >= BatchSize THEN Flushing(got, old.pc) ELSE got]
    BY <1>1, <2>1
  <2>3. CASE Len(b) >= BatchSize
    <3>1. Flushing(got, old.pc).batch = got.batch
      BY <1>1, FlushingIs
    <3> QED BY <1>1, <2>1, <2>2, <2>3, <3>1
  <2>4. CASE ~(Len(b) >= BatchSize)
    BY <1>1, <2>1, <2>2, <2>4
  <2> QED BY <2>3, <2>4
<1>8. /\ Holding(w)' = Holding(w) \cup {h}
      /\ \A v \in Workers : v # w => worker'[v] = worker[v] /\ Holding(v)' = Holding(v)
  BY <1>1, <1>4, <1>5, <1>7 DEF Holding
<1>9. InFlight' = InFlight
  <2>1. UNION {Holding(v)' : v \in Workers} = (UNION {Holding(v) : v \in Workers}) \cup {h}
    BY <1>8
  <2> QED BY <1>2, <2>1 DEF InFlight
<1>10. AccountInv'
  <2> PICK H : H = Charged
    OBVIOUS
  <2>1. Charged' = H
    BY <1>1, <1>9 DEF Charged
  <2> QED BY <1>1, <2>1, AccountIs DEF HoldInv, AccountInv
<1>11. \A q \in InFlight' : req'[q] = "done"
  BY <1>1, <1>9 DEF HoldInv, OnceInv
<1>12. \A v \in Workers : IsInjective(worker'[v].batch) /\ Holding(v)' \cap Range(queue') = {}
  <2> SUFFICES ASSUME NEW v \in Workers
               PROVE  IsInjective(worker'[v].batch) /\ Holding(v)' \cap Range(queue') = {}
    OBVIOUS
  <2>1. Holding(v) \cap Range(queue) = {} /\ IsInjective(worker[v].batch)
    BY DEF HoldInv, OnceInv
  <2>2. CASE v = w
    BY <1>2, <1>3, <1>6, <1>7, <1>8, <2>1, <2>2
  <2>3. CASE v # w
    BY <1>2, <1>8, <2>1, <2>3
  <2> QED BY <2>2, <2>3
<1>13. \A u, v \in Workers : u # v => Holding(u)' \cap Holding(v)' = {}
  BY <1>5, <1>8 DEF HoldInv, OnceInv
<1>14. OnceInv'
  BY <1>3, <1>11, <1>12, <1>13 DEF OnceInv
<1> QED BY <1>10, <1>14

\* A batch is over: nothing else holds its entries, so what is given back is what
\* was charged for them.
LEMMA FlushDoneCharge ==
  ASSUME HoldInv, IsFiniteSet(Requests), NEW w \in Workers, FlushDone(w), setting' = setting
  PROVE  OnceInv' /\ AccountInv'
<1> PICK old \in WorkerState : old = worker[w]
  BY FlusherIs DEF HoldInv
<1> PICK b : b = old.batch
  OBVIOUS
<1>1. /\ b \in Seq(Requests) /\ old.then \in {"loop", "drain", "exited"}
      /\ worker \in [Workers -> WorkerState] /\ queue' = queue /\ req' = req
      /\ bytes' = bytes - SumFunction([i \in DOMAIN b |-> size[b[i]]])
      /\ worker' = [worker EXCEPT ![w] = [IdleWorker EXCEPT !.pc = old.then]]
  BY DEF HoldInv, IInv, TypeInv, FlushDone, Set, WorkerState
<1>2. worker'[w].batch = <<>> /\ \A v \in Workers : v # w => worker'[v] = worker[v]
  BY <1>1, IdleTyped
<1>3. /\ Holding(w) = Range(b) /\ Holding(w)' = {}
      /\ \A v \in Workers : v # w => Holding(v)' = Holding(v)
  BY <1>2, RangeEmpty DEF Holding
<1>4. /\ IsInjective(b) /\ Range(b) \cap Range(queue) = {}
      /\ \A v \in Workers : v # w => Holding(v) \cap Range(b) = {}
      /\ \A r \in Range(b) : req[r] = "done"
  <2>1. IsInjective(b) /\ Range(b) \cap Range(queue) = {}
    BY <1>3 DEF HoldInv, OnceInv
  <2>2. \A v \in Workers : v # w => Holding(v) \cap Range(b) = {}
    BY <1>3 DEF HoldInv, OnceInv
  <2>3. \A r \in Range(b) : req[r] = "done"
    BY <1>3 DEF HoldInv, OnceInv, InFlight
  <2> QED BY <2>1, <2>2, <2>3
<1>5. InFlight' = InFlight \ Range(b)
  <2>1. UNION {Holding(v)' : v \in Workers} = (UNION {Holding(v) : v \in Workers}) \ Range(b)
    BY <1>3, <1>4
  <2> QED BY <1>1, <1>4, <2>1 DEF InFlight
<1>6. Charged' = Charged \ Range(b) /\ Range(b) \subseteq Charged
  <2>1. Range(b) \subseteq InFlight
    BY <1>3 DEF InFlight
  <2> QED BY <1>1, <1>4, <1>5, <2>1 DEF Charged
<1>7. AccountInv'
  <2> PICK H : H = Charged
    OBVIOUS
  <2> PICK B : B = Range(b)
    OBVIOUS
  <2>1. SumFunction(Weight(H)) = SumFunction(Weight(H \ B)) + SumFunction(Weight(B))
    BY <1>6, WeightSplit DEF HoldInv
  <2>2. SumFunction(Weight(H \ B)) \in Nat
    BY <1>6, WeightSplit DEF HoldInv
  <2>3. SumFunction(Weight(B)) \in Nat
    <3> PICK g \in [Requests -> Nat] : g = Weight(B)
      BY WeightType DEF HoldInv
    <3> QED BY SumIs
  <2>4. bytes' = bytes - SumFunction(Weight(B))
    BY <1>1, <1>4, WeightBatch DEF HoldInv
  <2>5. bytes = SumFunction(Weight(H)) /\ (BufferBytes > 0 => bytes <= BufferBytes)
    BY DEF HoldInv, AccountInv
  <2>6. BufferBytes \in Nat
    BY JournalAssumption
  <2>7. bytes' = SumFunction(Weight(H \ B)) /\ (BufferBytes > 0 => bytes' <= BufferBytes)
    BY <2>1, <2>2, <2>3, <2>4, <2>5, <2>6
  <2>8. Charged' = H \ B
    BY <1>6
  <2> QED BY <2>7, <2>8, AccountIs DEF HoldInv
<1>8. OnceInv'
  <2>1. \A q \in InFlight' : req'[q] = "done"
    BY <1>1, <1>5 DEF HoldInv, OnceInv
  <2>2. \A v \in Workers : IsInjective(worker'[v].batch) /\ Holding(v)' \cap Range(queue') = {}
    <3> SUFFICES ASSUME NEW v \in Workers
                 PROVE  IsInjective(worker'[v].batch) /\ Holding(v)' \cap Range(queue') = {}
      OBVIOUS
    <3>1. Holding(v) \cap Range(queue) = {} /\ IsInjective(worker[v].batch)
      BY DEF HoldInv, OnceInv
    <3>2. CASE v = w
      BY <1>2, <1>3, <3>2, InjectiveEmpty
    <3>3. CASE v # w
      BY <1>1, <1>2, <1>3, <3>1, <3>3
    <3> QED BY <3>2, <3>3
  <2>3. \A u, v \in Workers : u # v => Holding(u)' \cap Holding(v)' = {}
    BY <1>3 DEF HoldInv, OnceInv
  <2>4. IsInjective(queue')
    BY <1>1 DEF HoldInv, OnceInv
  <2> QED BY <2>1, <2>2, <2>3, <2>4 DEF OnceInv
<1> QED BY <1>7, <1>8

-----------------------------------------------------------------------------
\* A flusher's step that leaves its batch, and the queue, as they are.
LEMMA BatchStays ==
  ASSUME HoldInv, NEW w \in Workers, setting' = setting,
         Tick(w) \/ SeeStop(w) \/ Drained(w) \/ AppendOne(w)
  PROVE  OnceInv' /\ AccountInv'
<1> PICK old \in WorkerState : old = worker[w]
  BY FlusherIs DEF HoldInv
<1>1. worker \in [Workers -> WorkerState] /\ worker[w] = old
  BY DEF HoldInv, IInv, TypeInv
<1>2. PICK rec : worker' = [worker EXCEPT ![w] = rec] /\ rec.batch = old.batch
  <2>1. CASE Tick(w)
    <3>1. Flushing(old, "loop").batch = old.batch
      BY FlushingIs
    <3> QED BY <2>1, <3>1 DEF Tick, Set
  <2>2. CASE SeeStop(w)
    <3>1. [old EXCEPT !.pc = "drain"].batch = old.batch
      BY DEF WorkerState
    <3> QED BY <2>2, <3>1 DEF SeeStop, Set
  <2>3. CASE Drained(w)
    <3>1. Flushing(old, "exited").batch = old.batch
      BY FlushingIs
    <3> QED BY <2>3, <3>1 DEF Drained, Set
  <2>4. CASE AppendOne(w)
    <3>1. [old EXCEPT !.next = @ + 1].batch = old.batch
      BY DEF WorkerState
    <3>2. [old EXCEPT !.next = @ + 1, !.failed = TRUE].batch = old.batch
      BY DEF WorkerState
    <3>3. \/ worker' = [worker EXCEPT ![w] = [old EXCEPT !.next = @ + 1]]
          \/ worker' = [worker EXCEPT ![w] = [old EXCEPT !.next = @ + 1, !.failed = TRUE]]
      BY <2>4 DEF AppendOne, Set
    <3> QED BY <3>1, <3>2, <3>3
  <2> QED BY <2>1, <2>2, <2>3, <2>4
<1>3. \A v \in Workers : worker'[v].batch = worker[v].batch
  BY <1>1, <1>2
<1>4. queue' = queue /\ bytes' = bytes /\ req' = req
  BY DEF Tick, SeeStop, Drained, AppendOne
<1> QED BY <1>3, <1>4, SameCharge

\* A step of run() or of an admin call moves no entry, or ends the process.
LEMMA MoveCharge ==
  ASSUME HoldInv, IsFiniteSet(Requests), setting' = setting,
         Up \/ Down \/ AskToStop \/ Kill \/ \E c \in Clears : Call(c)
  PROVE  OnceInv' /\ AccountInv'
<1>1. CASE Exit
  BY <1>1, ExitCharge
<1>2. CASE StartJournal
  <2>1. \A w \in Workers : worker[w].batch = <<>>
    BY <1>2 DEF StartJournal, HoldInv, IInv, StopInv, FlushInv, FlusherOK
  <2>2. \A w \in Workers : worker'[w].batch = <<>>
    BY <1>2, IdleTyped DEF StartJournal
  <2>3. queue' = queue /\ bytes' = bytes /\ req' = req
    BY <1>2 DEF StartJournal
  <2> QED BY <2>1, <2>2, <2>3, SameCharge
<1>3. CASE ~Exit /\ ~StartJournal
  <2>1. queue' = queue /\ bytes' = bytes /\ req' = req /\ worker' = worker
    <3>1. CASE Up
      BY <1>3, <3>1 DEF Up, StartAdmin, OpenStore, SetAdmin, InitialLoad, StartMock, SetReady, writer
    <3>2. CASE Down
      BY <1>3, <3>2 DEF Down, TakeStop, CloseMock, ListenersDone, WriterDone, Return, writer
    <3>3. CASE AskToStop \/ Kill
      BY <1>3, <3>3 DEF AskToStop, Kill, writer
    <3>4. CASE \E c \in Clears : Call(c)
      BY <3>4 DEF Call, BeginClear, BeginRemove, BeginDelete, RemoveKeys, writer
    <3> QED BY <3>1, <3>2, <3>3, <3>4
  <2> QED BY <2>1, SameCharge
<1> QED BY <1>1, <1>2, <1>3

LEMMA ServeCharge ==
  ASSUME HoldInv, IsFiniteSet(Requests), NEW r \in Requests, Serve(r), setting' = setting
  PROVE  OnceInv' /\ AccountInv'
<1>1. CASE Reserve(r)
  BY <1>1, ReserveCharge
<1>2. CASE Send(r)
  BY <1>2, SendCharge
<1>3. CASE Arrive(r) \/ Refuse(r)
  <2>1. queue' = queue /\ bytes' = bytes /\ worker' = worker
    BY <1>3 DEF Arrive, Refuse, writer
  <2>2. /\ req \in [Requests -> ReqState] /\ req[r] \in {"idle", "serving"}
        /\ req' = [req EXCEPT ![r] = "serving"] \/ req' = [req EXCEPT ![r] = "done"]
    BY <1>3 DEF HoldInv, IInv, TypeInv, Arrive, Refuse
  <2>3. \A q \in Requests : req'[q] = "reserved" <=> req[q] = "reserved"
    BY <2>2
  <2>4. \A q \in Requests : req[q] = "done" => req'[q] = "done"
    BY <2>2
  <2> QED BY <2>1, <2>3, <2>4, SameCharge
<1> QED BY <1>1, <1>2, <1>3 DEF Serve

LEMMA InitHolds ==
  ASSUME IsFiniteSet(Requests), Init PROVE HoldInv
<1>1. IInv
  BY InitInv
<1>2. /\ queue = <<>> /\ bytes = 0 /\ setting \in Settings
      /\ \A r \in Requests : req[r] = "idle"
      /\ \A w \in Workers : worker[w].batch = <<>>
  BY IdleTyped DEF Init
<1>3. InFlight = {} /\ \A w \in Workers : Holding(w) = {}
  BY <1>2, RangeEmpty DEF InFlight, Holding
<1>4. Charged = {}
  BY <1>2, <1>3 DEF Charged
<1>5. AccountInv
  <2>1. Weight({}) \in [Requests -> Nat]
    BY DEF Weight
  <2>2. \A r \in Requests : Weight({})[r] = 0
    BY DEF Weight
  <2> PICK f \in [Requests -> Nat] : f = Weight({})
    BY <2>1
  <2>3. SumFunction(f) = 0
    BY <2>2, SumOfNone
  <2>4. BufferBytes \in Nat
    BY JournalAssumption
  <2> QED BY <1>2, <1>4, <2>3, <2>4 DEF AccountInv
<1>6. OnceInv
  BY <1>2, <1>3, InjectiveEmpty DEF OnceInv
<1> QED BY <1>1, <1>5, <1>6 DEF HoldInv

LEMMA NextHolds ==
  ASSUME IsFiniteSet(Requests), HoldInv, [Next]_vars PROVE HoldInv'
<1>1. IInv'
  BY NextKeeps DEF HoldInv
<1>2. OnceInv' /\ AccountInv'
  <2>1. CASE UNCHANGED vars
    BY <2>1, SameCharge DEF vars, writer
  <2>2. CASE Next
    <3>1. setting' = setting
      BY <2>2 DEF Next
    <3>2. CASE Up \/ Down \/ AskToStop \/ Kill \/ \E c \in Clears : Call(c)
      BY <3>1, <3>2, MoveCharge
    <3>3. CASE \E r \in Requests : Serve(r)
      BY <3>1, <3>3, ServeCharge
    <3>4. CASE \E w \in Workers : Flush(w)
      BY <3>1, <3>4, BatchStays, ReceiveCharge, FlushDoneCharge DEF Flush
    <3> QED BY <2>2, <3>2, <3>3, <3>4 DEF Next, Step
  <2> QED BY <2>1, <2>2
<1> QED BY <1>1, <1>2 DEF HoldInv

LEMMA HoldInvariance ==
  ASSUME IsFiniteSet(Requests) PROVE Spec => []HoldInv
<1>1. Init => HoldInv
  BY InitHolds
<1>2. HoldInv /\ [Next]_vars => HoldInv'
  BY NextHolds
<1> QED BY <1>1, <1>2, PTL DEF Spec

\* Writer.bytes is exactly what the requests between their two steps, the queue
\* and the batches hold, and the cap on it is never passed.
THEOREM BytesAreAccounted ==
  ASSUME IsFiniteSet(Requests) PROVE Spec => []BytesAccounted
<1>1. HoldInv => BytesAccounted
  <2> SUFFICES ASSUME HoldInv PROVE BytesAccounted
    OBVIOUS
  <2>1. [r \in Requests |-> IF req[r] = "reserved" \/ r \in InFlight THEN size[r] ELSE 0]
          = Weight(Charged)
    BY DEF Weight, Charged
  <2> QED BY <2>1 DEF HoldInv, AccountInv, BytesAccounted
<1> QED BY <1>1, HoldInvariance, PTL

-----------------------------------------------------------------------------
(* The rest of the state.  A flusher's index never falls below the first    *)
(* entry, so what it writes is an entry of its batch.                       *)

ClearState == [pc : {"idle", "removing", "done"}, keys : SUBSET Requests, owed : SUBSET Requests]

RestInv ==
  /\ stopAsked \in BOOLEAN /\ stop \in BOOLEAN
  /\ enqueued \subseteq Requests /\ dropped \subseteq Requests
  /\ stored \subseteq Requests /\ landed \subseteq Requests
  /\ outlived \subseteq Requests
  /\ faults \in Nat

IndexInv == \A w \in Workers : worker[w].next >= 1

ClearInv == clear \in [Clears -> ClearState]

AllInv == IInv /\ RestInv /\ IndexInv /\ ClearInv

\* The index of a flusher that starts a batch, or has none.
LEMMA NextOf ==
  ASSUME NEW rec \in WorkerState, rec.next >= 1
  PROVE  /\ \A then \in {"loop", "drain", "exited"} : Flushing(rec, then).next >= 1
         /\ \A c \in {"off", "loop", "drain", "append", "exited"} : [rec EXCEPT !.pc = c].next >= 1
         /\ \A b \in Seq(Requests) : [rec EXCEPT !.batch = b].next >= 1
         /\ [rec EXCEPT !.next = @ + 1].next >= 1
         /\ [rec EXCEPT !.next = @ + 1, !.failed = TRUE].next >= 1
<1>1. \A c \in {"off", "loop", "drain", "append", "exited"} : [rec EXCEPT !.pc = c].next >= 1
  BY DEF WorkerState
<1>2. \A b \in Seq(Requests) : [rec EXCEPT !.batch = b].next >= 1
  BY DEF WorkerState
<1>3. [rec EXCEPT !.next = @ + 1].next >= 1
  BY DEF WorkerState
<1>4. [rec EXCEPT !.next = @ + 1, !.failed = TRUE].next >= 1
  BY DEF WorkerState
<1>5. ASSUME NEW then \in {"loop", "drain", "exited"} PROVE Flushing(rec, then).next >= 1
  <2>1. CASE rec.batch = <<>>
    BY <1>1, <2>1 DEF Flushing
  <2>2. CASE rec.batch # <<>>
    BY <2>2, FlushingIs
  <2> QED BY <2>1, <2>2
<1> QED BY <1>1, <1>2, <1>3, <1>4, <1>5

LEMMA IdleNext ==
  ASSUME NEW c \in {"off", "loop", "drain", "append", "exited"}
  PROVE  IdleWorker.next = 1 /\ [IdleWorker EXCEPT !.pc = c].next = 1
<1>1. IdleWorker \in WorkerState
  BY IdleTyped
<1>2. IdleWorker.next = 1
  BY DEF IdleWorker
<1> PICK rec \in WorkerState : rec = IdleWorker
  BY <1>1
<1>3. [rec EXCEPT !.pc = c].next = rec.next
  BY DEF WorkerState
<1> QED BY <1>2, <1>3

\* What a flusher's step makes of its index.
LEMMA FlushIndex ==
  ASSUME IInv, IndexInv, NEW w \in Workers, Flush(w) PROVE IndexInv'
<1> PICK old \in WorkerState : old = worker[w]
  BY FlusherIs
<1>1. worker \in [Workers -> WorkerState] /\ worker[w] = old /\ old.next >= 1
  BY DEF IInv, TypeInv, IndexInv
<1>2. PICK rec : worker' = [worker EXCEPT ![w] = rec] /\ rec.next >= 1
  <2>1. CASE Receive(w)
    <3> PICK b : b = Append(old.batch, Head(queue))
      OBVIOUS
    <3>1. b \in Seq(Requests)
      BY <2>1, RangeTail, RangeAppend, FlusherIs DEF Receive, WorkerState
    <3>2. PICK got \in WorkerState :
            got = [old EXCEPT !.batch = b] /\ got.pc = old.pc /\ got.batch = b
      <4>1. [old EXCEPT !.batch = b] \in WorkerState
        BY <3>1, WorkerWith
      <4>2. [old EXCEPT !.batch = b].pc = old.pc /\ [old EXCEPT !.batch = b].batch = b
        BY <3>1, WorkerWith
      <4> QED BY <4>1, <4>2
    <3>3. got.next >= 1
      BY <1>1, <3>1, <3>2, NextOf
    <3>4. worker' = [worker EXCEPT ![w] = IF Len(b) >= BatchSize THEN Flushing(got, old.pc) ELSE got]
      BY <2>1, <3>2 DEF Receive, Set
    <3>5. Flushing(got, old.pc).next >= 1
      <4>1. old.pc \in {"loop", "drain", "exited"}
        BY <2>1 DEF Receive
      <4> QED BY <3>3, <4>1, NextOf
    <3> QED BY <3>3, <3>4, <3>5
  <2>2. CASE Tick(w)
    BY <1>1, <2>2, NextOf DEF Tick, Set
  <2>3. CASE SeeStop(w)
    BY <1>1, <2>3, NextOf DEF SeeStop, Set
  <2>4. CASE Drained(w)
    BY <1>1, <2>4, NextOf DEF Drained, Set
  <2>5. CASE AppendOne(w)
    <3>1. \/ worker' = [worker EXCEPT ![w] = [old EXCEPT !.next = @ + 1]]
          \/ worker' = [worker EXCEPT ![w] = [old EXCEPT !.next = @ + 1, !.failed = TRUE]]
      BY <2>5 DEF AppendOne, Set
    <3> QED BY <1>1, <3>1, NextOf
  <2>6. CASE FlushDone(w)
    <3>1. old.then \in {"off", "loop", "drain", "append", "exited"}
      BY DEF WorkerState
    <3>2. worker' = [worker EXCEPT ![w] = [IdleWorker EXCEPT !.pc = old.then]]
      BY <2>6 DEF FlushDone, Set
    <3>3. [IdleWorker EXCEPT !.pc = old.then].next = 1
      BY <3>1, IdleNext
    <3> PICK rec : rec = [IdleWorker EXCEPT !.pc = old.then]
      OBVIOUS
    <3>4. rec.next >= 1
      BY <3>3
    <3>5. worker' = [worker EXCEPT ![w] = rec]
      BY <3>2
    <3> QED BY <3>4, <3>5
  <2> QED BY <2>1, <2>2, <2>3, <2>4, <2>5, <2>6 DEF Flush
<1> QED BY <1>1, <1>2 DEF IndexInv

LEMMA NextIndex ==
  ASSUME IInv, IndexInv, [Next]_vars PROVE IndexInv'
<1>1. CASE worker' = worker
  BY <1>1 DEF IndexInv
<1>2. CASE \E w \in Workers : Flush(w)
  BY <1>2, FlushIndex
<1>3. CASE Exit
  BY <1>3, IdleNext DEF Exit, IndexInv
<1>4. CASE StartJournal
  <2>1. [IdleWorker EXCEPT !.pc = "loop"].next = 1
    BY IdleNext
  <2> PICK rec : rec = [IdleWorker EXCEPT !.pc = "loop"]
    OBVIOUS
  <2>2. worker' = [w \in Workers |-> rec]
    BY <1>4 DEF StartJournal
  <2>3. rec.next >= 1
    BY <2>1
  <2> QED BY <2>2, <2>3 DEF IndexInv
<1>5. [Next]_vars => worker' = worker \/ (\E w \in Workers : Flush(w)) \/ Exit \/ StartJournal
  <2>1. CASE UNCHANGED vars
    BY <2>1 DEF vars, writer
  <2>2. CASE Up
    BY <2>2 DEF Up, StartAdmin, OpenStore, SetAdmin, InitialLoad, StartMock, SetReady, writer
  <2>3. CASE Down
    BY <2>3 DEF Down, TakeStop, CloseMock, ListenersDone, WriterDone, Return, writer
  <2>4. CASE AskToStop \/ Kill
    BY <2>4 DEF AskToStop, Kill, writer
  <2>5. CASE \E r \in Requests : Serve(r)
    BY <2>5 DEF Serve, Arrive, Refuse, Reserve, Send, writer
  <2>6. CASE \E c \in Clears : Call(c)
    BY <2>6 DEF Call, BeginClear, BeginRemove, BeginDelete, RemoveKeys, writer
  <2> QED BY <2>1, <2>2, <2>3, <2>4, <2>5, <2>6 DEF Next, Step
<1> QED BY <1>1, <1>2, <1>3, <1>4, <1>5

-----------------------------------------------------------------------------
\* The entry a flusher writes is one of its batch, and so one of the requests.
LEMMA WritesEntry ==
  ASSUME IInv, IndexInv, NEW w \in Workers, AppendOne(w)
  PROVE  worker[w].batch[worker[w].next] \in Requests /\ Range(worker[w].batch) \subseteq Requests
<1> PICK old \in WorkerState : old = worker[w]
  BY FlusherIs
<1>1. /\ old.batch \in Seq(Requests) /\ old.next \in Nat /\ old.next >= 1
      /\ old.next <= Len(old.batch) /\ DOMAIN old.batch = 1 .. Len(old.batch)
      /\ Len(old.batch) \in Nat
  BY DEF WorkerState, IndexInv, AppendOne
<1>2. old.next \in DOMAIN old.batch
  BY <1>1
<1> QED BY <1>1, <1>2 DEF Range

LEMMA FlushRest ==
  ASSUME IInv, IndexInv, RestInv, NEW w \in Workers, Flush(w) PROVE RestInv'
<1>1. CASE AppendOne(w)
  <2>1. worker[w].batch[worker[w].next] \in Requests
    BY <1>1, WritesEntry
  <2>2. /\ UNCHANGED <<stopAsked, stop, enqueued, dropped, outlived>>
        /\ faults' = faults \/ faults' = faults + 1
    BY <1>1 DEF AppendOne, process, Fault
  <2>3. /\ stored' = stored \/ stored' = stored \cup {worker[w].batch[worker[w].next]}
        /\ landed' = landed \/ landed' = landed \cup {worker[w].batch[worker[w].next]}
    BY <1>1 DEF AppendOne
  <2> QED BY <2>1, <2>2, <2>3 DEF RestInv
<1>2. CASE FlushDone(w)
  <2>1. Range(worker[w].batch) \subseteq Requests
    BY FlusherIs DEF WorkerState, Range
  <2> QED BY <1>2, <2>1 DEF FlushDone, RestInv, process, store
<1>3. CASE Receive(w)
  BY <1>3 DEF Receive, RestInv, process, store
<1>4. CASE Tick(w) \/ SeeStop(w) \/ Drained(w)
  BY <1>4 DEF Tick, SeeStop, Drained, RestInv, process, store
<1> QED BY <1>1, <1>2, <1>3, <1>4 DEF Flush

LEMMA NextRest ==
  ASSUME IInv, IndexInv, RestInv, [Next]_vars PROVE RestInv'
<1>0. MaxFaults \in Nat
  BY JournalAssumption
<1>1. CASE UNCHANGED vars
  BY <1>1 DEF vars, process, writer, store, RestInv
<1>2. CASE \E w \in Workers : Flush(w)
  BY <1>2, FlushRest
<1>3. CASE \E r \in Requests : Serve(r)
  BY <1>3 DEF Serve, Arrive, Refuse, Reserve, Send, process, writer, store, RestInv
<1>4. ASSUME NEW c \in Clears, Call(c) PROVE RestInv'
  <2>1. UNCHANGED <<stopAsked, stop, enqueued, dropped, landed, outlived>>
    BY <1>4 DEF Call, BeginClear, BeginRemove, BeginDelete, RemoveKeys, process, writer, store
  <2>2. stored' \subseteq stored
    BY <1>4 DEF Call, BeginClear, BeginRemove, BeginDelete, RemoveKeys, store
  <2>3. faults' = faults \/ faults' = faults + 1
    BY <1>4 DEF Call, BeginClear, BeginRemove, BeginDelete, RemoveKeys, Fault
  <2> QED BY <2>1, <2>2, <2>3 DEF RestInv
<1>5. CASE Exit /\ (faults' = faults \/ faults' = faults + 1)
  <2>1. /\ stopAsked' = FALSE /\ stop' = FALSE /\ enqueued' = {} /\ dropped' = {}
        /\ outlived' = {} /\ stored' = stored /\ landed' = landed
    BY <1>5 DEF Exit, store
  <2>2. faults' = faults \/ faults' = faults + 1
    BY <1>5
  <2>3. stopAsked' \in BOOLEAN /\ stop' \in BOOLEAN
    BY <2>1
  <2>4. faults' \in Nat /\ stored' \subseteq Requests /\ landed' \subseteq Requests
    BY <2>1, <2>2 DEF RestInv
  <2>5. enqueued' \subseteq Requests /\ dropped' \subseteq Requests /\ outlived' \subseteq Requests
    BY <2>1
  <2> QED BY <2>3, <2>4, <2>5 DEF RestInv
<1>6. CASE Up
  <2>1. faults' = faults \/ faults' = faults + 1
    BY <1>6 DEF Up, StartAdmin, OpenStore, StartJournal, SetAdmin, InitialLoad, LoadFails, StartMock,
                SetReady, Fault
  <2>2. CASE ~Exit
    <3>1. UNCHANGED <<stopAsked, stop, enqueued, dropped, stored, landed, outlived>>
      BY <1>6, <2>2 DEF Up, StartAdmin, OpenStore, StartJournal, SetAdmin, InitialLoad, StartMock,
                        SetReady, writer, store
    <3> QED BY <2>1, <3>1 DEF RestInv
  <2> QED BY <1>5, <2>1, <2>2
<1>7. CASE Down
  <2>1. CASE Return
    BY <1>5, <2>1 DEF Return
  <2>2. CASE ~Return
    <3>1. UNCHANGED <<stopAsked, enqueued, dropped, stored, landed, faults>>
      BY <1>7, <2>2 DEF Down, TakeStop, CloseMock, ListenersDone, WriterDone, writer, store
    <3>2. stop' \in {stop, TRUE} /\ outlived' \in {outlived, Running}
      BY <1>7, <2>2 DEF Down, TakeStop, CloseMock, ListenersDone, WriterDone, writer
    <3> QED BY <3>1, <3>2 DEF RestInv, Running
  <2> QED BY <2>1, <2>2
<1>8. CASE AskToStop
  BY <1>8 DEF AskToStop, writer, store, RestInv
<1>9. CASE Kill
  BY <1>5, <1>9 DEF Kill, Fault
<1> QED BY <1>1, <1>2, <1>3, <1>4, <1>6, <1>7, <1>8, <1>9 DEF Next, Step

-----------------------------------------------------------------------------
\* An admin call's record with what it read, what it owes and where it is.
LEMMA ClearTo ==
  ASSUME NEW rec \in ClearState, NEW k \in SUBSET Requests, NEW o \in SUBSET Requests
  PROVE  /\ [rec EXCEPT !.pc = "removing", !.keys = k, !.owed = o] \in ClearState
         /\ [rec EXCEPT !.pc = "removing", !.keys = k] \in ClearState
         /\ [rec EXCEPT !.pc = "done", !.owed = o] \in ClearState
BY DEF ClearState

LEMMA IdleClearOK == IdleClear \in ClearState
BY DEF IdleClear, ClearState

LEMMA CallClears ==
  ASSUME RestInv, ClearInv, NEW c \in Clears, Call(c)
  PROVE  \E rec \in ClearState : clear' = [clear EXCEPT ![c] = rec]
<1> PICK none \in ClearState : none = IdleClear
  BY IdleClearOK
<1>0. stored \in SUBSET Requests
  BY DEF RestInv
<1>1. CASE BeginClear(c)
  <2>1. PICK seen \in BulkRead :
          clear' = [clear EXCEPT ![c] = [none EXCEPT !.pc = "removing", !.keys = seen, !.owed = stored]]
    BY <1>1 DEF BeginClear, SetClear
  <2>2. seen \in SUBSET Requests
    BY <1>0, <2>1 DEF BulkRead, Lagging
  <2> QED BY <1>0, <2>1, <2>2, ClearTo
<1>2. CASE BeginRemove(c) \/ BeginDelete(c)
  <2>1. PICK k \in SUBSET Requests :
          clear' = [clear EXCEPT ![c] = [none EXCEPT !.pc = "removing", !.keys = k]]
    <3>1. CASE BeginRemove(c)
      <4>1. PICK seen \in Lagging :
              clear' = [clear EXCEPT ![c] = [none EXCEPT !.pc = "removing", !.keys = MatchRequests(seen)]]
        BY <3>1 DEF BeginRemove, SetClear
      <4>2. MatchRequests(seen) \in SUBSET Requests
        BY <1>0, <4>1 DEF Lagging, MatchRequests
      <4> QED BY <4>1, <4>2
    <3>2. CASE BeginDelete(c)
      BY <1>0, <3>2 DEF BeginDelete, SetClear
    <3> QED BY <1>2, <3>1, <3>2
  <2> QED BY <1>0, <2>1, ClearTo
<1>3. CASE RemoveKeys(c)
  <2> PICK rec \in ClearState : rec = clear[c]
    BY DEF ClearInv
  <2>1. PICK gone \in SUBSET rec.keys :
          clear' = [clear EXCEPT ![c] = [none EXCEPT !.pc = "done",
                       !.owed = IF gone = rec.keys THEN rec.owed \ gone ELSE {}]]
    BY <1>3 DEF RemoveKeys, SetClear
  <2> PICK o : o = IF gone = rec.keys THEN rec.owed \ gone ELSE {}
    OBVIOUS
  <2>2. o \in SUBSET Requests
    BY DEF ClearState
  <2>3. clear' = [clear EXCEPT ![c] = [none EXCEPT !.pc = "done", !.owed = o]]
    BY <2>1
  <2> QED BY <2>2, <2>3, ClearTo
<1> QED BY <1>1, <1>2, <1>3 DEF Call

LEMMA NextClear ==
  ASSUME RestInv, ClearInv, [Next]_vars PROVE ClearInv'
<1>1. CASE clear' = clear
  BY <1>1 DEF ClearInv
<1>2. CASE Exit
  BY <1>2, IdleClearOK DEF Exit, ClearInv
<1>3. CASE \E c \in Clears : Call(c)
  BY <1>3, CallClears DEF ClearInv
<1>4. [Next]_vars => clear' = clear \/ Exit \/ \E c \in Clears : Call(c)
  <2>1. CASE UNCHANGED vars
    BY <2>1 DEF vars
  <2>2. CASE Up
    BY <2>2 DEF Up, StartAdmin, OpenStore, StartJournal, SetAdmin, InitialLoad, StartMock, SetReady
  <2>3. CASE Down
    BY <2>3 DEF Down, TakeStop, CloseMock, ListenersDone, WriterDone, Return
  <2>4. CASE AskToStop \/ Kill
    BY <2>4 DEF AskToStop, Kill
  <2>5. CASE \E r \in Requests : Serve(r)
    BY <2>5 DEF Serve, Arrive, Refuse, Reserve, Send
  <2>6. CASE \E w \in Workers : Flush(w)
    BY <2>6 DEF Flush, Receive, Tick, SeeStop, Drained, AppendOne, FlushDone
  <2> QED BY <2>1, <2>2, <2>3, <2>4, <2>5, <2>6 DEF Next, Step
<1> QED BY <1>1, <1>2, <1>3, <1>4

LEMMA AllInvariance == Spec => []AllInv
<1>1. Init => AllInv
  <2> SUFFICES ASSUME Init PROVE AllInv
    OBVIOUS
  <2>1. RestInv
    BY DEF Init, RestInv
  <2>2. IndexInv
    BY IdleNext DEF Init, IndexInv
  <2>3. ClearInv
    BY IdleClearOK DEF Init, ClearInv
  <2> QED BY <2>1, <2>2, <2>3, InitInv DEF AllInv
<1>2. AllInv /\ [Next]_vars => AllInv'
  BY NextKeeps, NextIndex, NextRest, NextClear DEF AllInv
<1> QED BY <1>1, <1>2, PTL DEF Spec

\* Every variable keeps its shape: above all Writer.bytes is never negative, and
\* no flusher reads past its batch.
THEOREM JournalTypes ==
  ASSUME IsFiniteSet(Requests) PROVE Spec => []TypeOK
<1>1. HoldInv /\ AllInv => TypeOK
  <2> SUFFICES ASSUME HoldInv, AllInv PROVE TypeOK
    OBVIOUS
  <2>1. bytes \in Nat
    <3> PICK f \in [Requests -> Nat] : f = Weight(Charged)
      BY WeightType DEF HoldInv
    <3> QED BY SumIs DEF HoldInv, AccountInv
  <2>2. setting \in Settings
    BY DEF HoldInv, AccountInv
  <2>3. TypeInv /\ RestInv /\ clear \in [Clears -> ClearState]
    BY DEF AllInv, IInv, ClearInv
  <2> QED BY <2>1, <2>2, <2>3
         DEF TypeOK, TypeInv, RestInv, Phases, PodState, ReqState, WorkerState, ClearState
<1> QED BY <1>1, HoldInvariance, AllInvariance, PTL

-----------------------------------------------------------------------------
(* Writer and store together are one bounded bag.  A queue and a batch      *)
(* never grow past their caps, and an entry that waits to be written has    *)
(* not been written, nor has one of a request that is not over.             *)

SizeInv ==
  /\ Len(queue) <= BufferEntries
  /\ \A w \in Workers :
       /\ Len(worker[w].batch) <= BatchSize
       /\ worker[w].pc \in {"loop", "drain"} => Len(worker[w].batch) < BatchSize

\* A flusher's record, and the places of its batch that are still to be written.
ToWrite(rec) == {i \in 1 .. Len(rec.batch) : rec.pc = "append" => i >= rec.next}

FateInv ==
  /\ Live => \A r \in landed \cup dropped : req[r] = "done"
  /\ Range(queue) \cap landed = {}
  /\ \A w \in Workers : \A i \in ToWrite(worker[w]) : worker[w].batch[i] \notin landed

BagInv == HoldInv /\ AllInv /\ SizeInv /\ FateInv

\* The entries flushers have.
Writing == UNION {Holding(w) : w \in Workers}

\* What the bag adds up and counts is what Journal does.
LEMMA SameTotals ==
  /\ \A f : Bag!SumFunction(f) = SumFunction(f)
  /\ \A S : Bag!Cardinality(S) = Cardinality(S)
<1>1. ASSUME NEW f PROVE Bag!SumFunction(f) = SumFunction(f)
  BY DEF Bag!SumFunction, SumFunction, Bag!SumFunctionOnSet, SumFunctionOnSet,
         Bag!FoldFunctionOnSet, FoldFunctionOnSet, Bag!MapThenFoldSet, MapThenFoldSet
<1>2. ASSUME NEW S PROVE Bag!Cardinality(S) = Cardinality(S)
  BY DEF Bag!Cardinality, Cardinality
<1> QED BY <1>1, <1>2

\* A sequence has no more elements than places.
LEMMA RangeCount ==
  ASSUME NEW q \in Seq(Requests)
  PROVE  IsFiniteSet(Range(q)) /\ Cardinality(Range(q)) \in Nat /\ Cardinality(Range(q)) <= Len(q)
<1> DEFINE S == 1 .. Len(q)
<1>1. Len(q) \in Nat /\ DOMAIN q = S
  OBVIOUS
<1>2. IsFiniteSet(S) /\ Cardinality(S) = Len(q)
  <2>1. IsFiniteSet(S) /\ Cardinality(S) = IF 1 > Len(q) THEN 0 ELSE Len(q) - 1 + 1
    BY <1>1, FS_Interval
  <2> QED BY <1>1, <2>1
<1>3. q \in Surjection(S, Range(q))
  BY <1>1 DEF Surjection, Range
<1> HIDE DEF S
<1>4. IsFiniteSet(Range(q)) /\ Cardinality(Range(q)) <= Cardinality(S)
  BY <1>2, <1>3, FS_Surjection
<1>5. Cardinality(Range(q)) \in Nat
  BY <1>4, FS_CardinalityType
<1> QED BY <1>2, <1>4, <1>5

\* The flushers never have more than a batch each, and fewer while one waits
\* for more: the place it is about to fill is empty.
LEMMA WritingCount ==
  ASSUME TypeInv, SizeInv, NEW w \in Workers, worker[w].pc \in {"loop", "drain"}
  PROVE  Cardinality(Writing) < BatchSize * Cardinality(Workers)
<1> DEFINE All == Workers \X (1 .. BatchSize)
           Used == {p \in All : p[2] <= Len(worker[p[1]].batch)}
           At == [p \in Used |-> worker[p[1]].batch[p[2]]]
<1>1. BatchSize \in Nat /\ IsFiniteSet(Workers)
  BY JournalAssumption
<1>2. \A v \in Workers : /\ worker[v].batch \in Seq(Requests)
                         /\ DOMAIN worker[v].batch = 1 .. Len(worker[v].batch)
                         /\ Len(worker[v].batch) \in Nat /\ Len(worker[v].batch) <= BatchSize
  BY DEF TypeInv, SizeInv, WorkerState
<1>3. IsFiniteSet(1 .. BatchSize) /\ Cardinality(1 .. BatchSize) = BatchSize
  <2>1. /\ IsFiniteSet(1 .. BatchSize)
        /\ Cardinality(1 .. BatchSize) = IF 1 > BatchSize THEN 0 ELSE BatchSize - 1 + 1
    BY <1>1, FS_Interval
  <2> QED BY <1>1, <2>1
<1>4. IsFiniteSet(All) /\ Cardinality(All) = BatchSize * Cardinality(Workers)
  <2> PICK B : B = 1 .. BatchSize
    OBVIOUS
  <2>1. IsFiniteSet(Workers \X B) /\ Cardinality(Workers \X B) = Cardinality(Workers) * Cardinality(B)
    BY <1>1, <1>3, FS_Product
  <2>2. Cardinality(Workers) \in Nat
    BY <1>1, FS_CardinalityType
  <2>3. Cardinality(Workers) * BatchSize = BatchSize * Cardinality(Workers)
    BY <1>1, <2>2
  <2> QED BY <1>3, <2>1, <2>3
<1>5. Used \subseteq All /\ Used # All
  <2>1. Len(worker[w].batch) < BatchSize /\ Len(worker[w].batch) \in Nat
    BY <1>2 DEF SizeInv
  <2>2. <<w, BatchSize>> \in All
    BY <1>1, <2>1
  <2>3. <<w, BatchSize>> \notin Used
    BY <1>1, <2>1
  <2> QED BY <2>2, <2>3
<1>6. At \in Surjection(Used, Writing)
  <2>1. ASSUME NEW p \in Used PROVE At[p] \in Writing
    <3>1. p[1] \in Workers /\ p[2] \in DOMAIN worker[p[1]].batch
      BY <1>1, <1>2
    <3> QED BY <3>1 DEF Writing, Holding, Range
  <2>2. ASSUME NEW e \in Writing PROVE \E p \in Used : At[p] = e
    <3>1. PICK v \in Workers : e \in Holding(v)
      BY DEF Writing
    <3>2. PICK i \in DOMAIN worker[v].batch : e = worker[v].batch[i]
      BY <3>1 DEF Holding, Range
    <3>3. i \in 1 .. BatchSize /\ i <= Len(worker[v].batch)
      BY <1>1, <1>2
    <3>4. <<v, i>> \in Used /\ At[<<v, i>>] = e
      BY <3>2, <3>3
    <3> QED BY <3>4
  <2> HIDE DEF Used, At
  <2>3. At \in [Used -> Writing]
    <3>1. At = [p \in Used |-> At[p]]
      BY DEF At
    <3> QED BY <2>1, <3>1
  <2> QED BY <2>2, <2>3 DEF Surjection
<1> HIDE DEF All, Used, At
<1>7. /\ IsFiniteSet(Used) /\ Cardinality(Used) <= Cardinality(All)
      /\ Cardinality(All) # Cardinality(Used)
  BY <1>4, <1>5, FS_Subset
<1>8. Cardinality(Writing) <= Cardinality(Used) /\ IsFiniteSet(Writing)
  BY <1>6, <1>7, FS_Surjection
<1>9. Cardinality(Writing) \in Nat /\ Cardinality(Used) \in Nat /\ Cardinality(All) \in Nat
  BY <1>4, <1>7, <1>8, FS_CardinalityType
<1>10. Cardinality(Writing) < Cardinality(All)
  BY <1>7, <1>8, <1>9
<1> QED BY <1>4, <1>10

-----------------------------------------------------------------------------
(* The four things a step of a flusher does to its record, the queue and the *)
(* collection.                                                               *)

\* It takes one entry more, and begins to write when the batch is full.
Receives(old, rec) ==
  /\ old.pc \in {"loop", "drain"} /\ queue # <<>>
  /\ queue' = Tail(queue) /\ rec.batch = Append(old.batch, Head(queue))
  /\ \/ rec.pc = old.pc /\ Len(rec.batch) < BatchSize
     \/ rec.pc = "append" /\ rec.next = 1
  /\ UNCHANGED <<stored, landed, dropped>>

\* It goes to another place of its loop with the same batch.
Turns(old, rec) ==
  /\ old.pc \in {"loop", "drain"} /\ rec.batch = old.batch
  /\ \/ rec.pc = "append" /\ rec.next = 1
     \/ rec.pc \in {"drain", "exited"}
  /\ UNCHANGED <<queue, stored, landed, dropped>>

\* It writes, or fails to write, the next entry.
Writes(old, rec) ==
  /\ old.pc = "append" /\ old.next \in 1 .. Len(old.batch)
  /\ rec.pc = "append" /\ rec.batch = old.batch /\ rec.next = old.next + 1
  /\ LET e == old.batch[old.next]
     IN \/ stored' = stored \cup {e} /\ landed' = landed \cup {e}
        \/ UNCHANGED <<stored, landed>>
  /\ UNCHANGED <<queue, dropped>>

\* It is done with the batch.
Settles(old, rec) ==
  /\ rec.batch = <<>> /\ rec.pc # "append"
  /\ \/ Range(old.batch) \subseteq landed /\ UNCHANGED dropped
     \/ dropped' = dropped \cup Range(old.batch)
  /\ UNCHANGED <<queue, stored, landed>>

LEMMA ReceiveIs ==
  ASSUME IInv, NEW w \in Workers, Receive(w)
  PROVE  \E rec \in WorkerState : worker' = [worker EXCEPT ![w] = rec] /\ Receives(worker[w], rec)
<1> PICK old \in WorkerState : old = worker[w]
  BY FlusherIs
<1>1. /\ queue \in Seq(Requests) /\ queue # <<>> /\ old.batch \in Seq(Requests)
      /\ old.pc \in {"loop", "drain"} /\ queue' = Tail(queue)
      /\ UNCHANGED <<stored, landed, dropped>>
  BY FlusherIs DEF Receive, WorkerState, store
<1> PICK b \in Seq(Requests) : b = Append(old.batch, Head(queue))
  BY <1>1, RangeTail, RangeAppend
<1>2. PICK got \in WorkerState : got = [old EXCEPT !.batch = b] /\ got.pc = old.pc /\ got.batch = b
  <2>1. [old EXCEPT !.batch = b] \in WorkerState
    BY WorkerWith
  <2>2. [old EXCEPT !.batch = b].pc = old.pc /\ [old EXCEPT !.batch = b].batch = b
    BY WorkerWith
  <2> QED BY <2>1, <2>2
<1>3. worker' = [worker EXCEPT ![w] = IF Len(b) >= BatchSize THEN Flushing(got, old.pc) ELSE got]
  BY <1>2 DEF Receive, Set
<1>4. CASE Len(b) >= BatchSize
  <2> PICK then \in {"loop", "drain"} : then = old.pc
    BY <1>1
  <2>1. PICK rec \in WorkerState : rec = Flushing(got, then)
    BY FlushingIs
  <2>2. got.batch # <<>>
    <3>1. Head(queue) \in Requests
      BY <1>1, RangeTail
    <3> QED BY <1>1, <1>2, <3>1, AppendFull
  <2>3. rec.batch = b /\ rec.pc = "append" /\ rec.next = 1
    <3>1. rec.batch = got.batch
      BY <2>1, FlushingIs
    <3>2. rec.pc = "append" /\ rec.next = 1
      BY <2>1, <2>2, FlushingIs
    <3> QED BY <1>2, <3>1, <3>2
  <2>4. worker' = [worker EXCEPT ![w] = rec]
    BY <1>3, <1>4, <2>1
  <2> QED BY <1>1, <2>3, <2>4 DEF Receives
<1>5. CASE ~(Len(b) >= BatchSize)
  <2>1. worker' = [worker EXCEPT ![w] = got]
    BY <1>3, <1>5
  <2>2. Len(got.batch) < BatchSize
    <3>1. Len(b) \in Nat /\ BatchSize \in Nat
      BY JournalAssumption
    <3> QED BY <1>2, <1>5, <3>1
  <2> QED BY <1>1, <1>2, <2>1, <2>2 DEF Receives
<1> QED BY <1>4, <1>5

LEMMA TurnIs ==
  ASSUME IInv, NEW w \in Workers, Tick(w) \/ SeeStop(w) \/ Drained(w)
  PROVE  \E rec \in WorkerState : worker' = [worker EXCEPT ![w] = rec] /\ Turns(worker[w], rec)
<1> PICK old \in WorkerState : old = worker[w]
  BY FlusherIs
<1>1. old.pc \in {"loop", "drain"} /\ UNCHANGED <<queue, stored, landed, dropped>>
  BY DEF Tick, SeeStop, Drained, store
<1>2. CASE Tick(w)
  <2>1. PICK rec \in WorkerState : rec = Flushing(old, "loop")
    BY FlushingIs
  <2>2. rec.batch = old.batch /\ rec.pc = "append" /\ rec.next = 1
    BY <1>2, <2>1, FlushingIs DEF Tick
  <2>3. worker' = [worker EXCEPT ![w] = rec]
    BY <1>2, <2>1 DEF Tick, Set
  <2> QED BY <1>1, <2>2, <2>3 DEF Turns
<1>3. CASE SeeStop(w)
  <2>1. PICK rec \in WorkerState :
          rec = [old EXCEPT !.pc = "drain"] /\ rec.pc = "drain" /\ rec.batch = old.batch
    <3>1. old.batch \in Seq(Requests)
      BY DEF WorkerState
    <3>2. [old EXCEPT !.pc = "drain"] \in WorkerState
      BY <3>1, WorkerWith
    <3>3. [old EXCEPT !.pc = "drain"].pc = "drain" /\ [old EXCEPT !.pc = "drain"].batch = old.batch
      BY <3>1, WorkerWith
    <3> QED BY <3>2, <3>3
  <2>2. worker' = [worker EXCEPT ![w] = rec]
    BY <1>3, <2>1 DEF SeeStop, Set
  <2> QED BY <1>1, <2>1, <2>2 DEF Turns
<1>4. CASE Drained(w)
  <2>1. PICK rec \in WorkerState : rec = Flushing(old, "exited")
    BY FlushingIs
  <2>2. rec.batch = old.batch /\ (rec.pc = "exited" \/ (rec.pc = "append" /\ rec.next = 1))
    BY <2>1, FlushingIs
  <2>3. worker' = [worker EXCEPT ![w] = rec]
    BY <1>4, <2>1 DEF Drained, Set
  <2> QED BY <1>1, <2>2, <2>3 DEF Turns
<1> QED BY <1>2, <1>3, <1>4

LEMMA WriteIs ==
  ASSUME IInv, IndexInv, NEW w \in Workers, AppendOne(w)
  PROVE  \E rec \in WorkerState : worker' = [worker EXCEPT ![w] = rec] /\ Writes(worker[w], rec)
<1> PICK old \in WorkerState : old = worker[w]
  BY FlusherIs
<1> PICK e : e = old.batch[old.next]
  OBVIOUS
<1>1. /\ old.pc = "append" /\ old.next \in Nat /\ old.next >= 1 /\ old.next <= Len(old.batch)
      /\ UNCHANGED <<queue, dropped>>
  BY DEF AppendOne, WorkerState, IndexInv
<1>2. /\ \/ stored' = stored \cup {e} /\ landed' = landed \cup {e}
         \/ UNCHANGED <<stored, landed>>
      /\ \/ worker' = [worker EXCEPT ![w] = [old EXCEPT !.next = @ + 1]]
         \/ worker' = [worker EXCEPT ![w] = [old EXCEPT !.next = @ + 1, !.failed = TRUE]]
  BY DEF AppendOne, Set
<1>3. PICK rec \in WorkerState :
        /\ worker' = [worker EXCEPT ![w] = rec]
        /\ rec.pc = old.pc /\ rec.batch = old.batch /\ rec.next = old.next + 1
  <2> PICK mid : mid = [old EXCEPT !.next = @ + 1]
    OBVIOUS
  <2> PICK bad : bad = [mid EXCEPT !.failed = TRUE]
    OBVIOUS
  <2>1. mid \in WorkerState /\ mid.pc = old.pc /\ mid.batch = old.batch /\ mid.next = old.next + 1
    BY DEF WorkerState
  <2>2. bad \in WorkerState /\ bad.pc = mid.pc /\ bad.batch = mid.batch /\ bad.next = mid.next
    <3>1. bad \in WorkerState
      BY <2>1 DEF WorkerState
    <3>2. bad.pc = mid.pc /\ bad.batch = mid.batch /\ bad.next = mid.next
      BY <2>1 DEF WorkerState
    <3> QED BY <3>1, <3>2
  <2>3. [old EXCEPT !.next = @ + 1, !.failed = TRUE] = bad
    OBVIOUS
  <2>4. worker' = [worker EXCEPT ![w] = mid] \/ worker' = [worker EXCEPT ![w] = bad]
    BY <1>2, <2>3
  <2>5. bad.pc = old.pc /\ bad.batch = old.batch /\ bad.next = old.next + 1
    BY <2>1, <2>2
  <2> QED BY <2>1, <2>2, <2>4, <2>5
<1>4. old.next \in 1 .. Len(old.batch)
  <2>1. Len(old.batch) \in Nat
    BY DEF WorkerState
  <2> QED BY <1>1, <2>1
<1> QED BY <1>1, <1>2, <1>3, <1>4 DEF Writes

\* What has not failed has landed, entry by entry.
LEMMA SettleIs ==
  ASSUME IInv, NEW w \in Workers, FlushDone(w)
  PROVE  \E rec \in WorkerState : worker' = [worker EXCEPT ![w] = rec] /\ Settles(worker[w], rec)
<1> PICK old \in WorkerState : old = worker[w]
  BY FlusherIs
<1>1. /\ old.pc = "append" /\ old.next > Len(old.batch)
      /\ old.then \in {"loop", "drain", "exited"} /\ old.batch \in Seq(Requests) /\ old.next \in Nat
      /\ FlusherOK(old, queue, landed)
      /\ dropped' = IF old.failed THEN dropped \cup Range(old.batch) ELSE dropped
      /\ worker' = [worker EXCEPT ![w] = [IdleWorker EXCEPT !.pc = old.then]]
      /\ UNCHANGED <<queue, stored, landed>>
  BY FlusherIs DEF FlushDone, Set, WorkerState, store
<1>2. PICK rec \in WorkerState :
        worker' = [worker EXCEPT ![w] = rec] /\ rec.pc = old.then /\ rec.batch = <<>>
  BY <1>1, IdleTyped
<1>3. ~old.failed => Range(old.batch) \subseteq landed
  <2>1. ~old.failed => \A i \in 1 .. Len(old.batch) : old.batch[i] \in landed
    BY <1>1 DEF FlusherOK
  <2>2. DOMAIN old.batch = 1 .. Len(old.batch)
    BY <1>1
  <2> QED BY <2>1, <2>2 DEF Range
<1> QED BY <1>1, <1>2, <1>3 DEF Settles

-----------------------------------------------------------------------------
\* The bag as it stands in Journal's state.
LEMMA SameBag ==
  ASSUME Live' = Live, setting' = setting, queue' = queue,
         \A w \in Workers : worker'[w].batch = worker[w].batch,
         UNCHANGED <<stored, landed, dropped>>
  PROVE  UNCHANGED Bag!bag
<1>1. \A w \in Workers : Holding(w)' = Holding(w)
  BY DEF Holding
<1>2. (UNION {Holding(w) : w \in Workers})' = UNION {Holding(w) : w \in Workers}
  BY <1>1
<1>3. size' = size /\ Range(queue)' = Range(queue)
  BY DEF size
<1> QED BY <1>2, <1>3 DEF Bag!bag

\* A step that leaves the queue, the flushers and what has become of entries alone.
LEMMA StillFate ==
  ASSUME BagInv, UNCHANGED <<queue, worker, landed, dropped>>, Live' => Live,
         \A r \in Requests : req[r] = "done" => req'[r] = "done"
  PROVE  SizeInv' /\ FateInv'
<1>1. landed \cup dropped \subseteq Requests
  BY DEF BagInv, AllInv, RestInv
<1>2. Live' => \A r \in landed' \cup dropped' : req'[r] = "done"
  BY <1>1 DEF BagInv, FateInv
<1>3. \A w \in Workers : ToWrite(worker[w])' = ToWrite(worker[w])
  BY DEF ToWrite
<1> QED BY <1>2, <1>3 DEF BagInv, SizeInv, FateInv

\* Every queue and every batch is empty.
LEMMA EmptyFate ==
  ASSUME queue' = <<>>, \A w \in Workers : worker'[w].batch = <<>>,
         Live' => \A r \in landed' \cup dropped' : req'[r] = "done"
  PROVE  SizeInv' /\ FateInv'
<1>1. BufferEntries \in Nat /\ BatchSize \in Nat \ {0} /\ Len(<<>>) = 0
  BY JournalAssumption
<1>2. SizeInv'
  <2>1. Len(queue') <= BufferEntries
    BY <1>1
  <2>2. \A w \in Workers : Len(worker'[w].batch) = 0
    BY <1>1
  <2>3. \A w \in Workers : Len(worker'[w].batch) <= BatchSize /\ Len(worker'[w].batch) < BatchSize
    BY <1>1, <2>2
  <2> QED BY <2>1, <2>3 DEF SizeInv
<1>3. \A w \in Workers : ToWrite(worker[w])' = {}
  BY <1>1 DEF ToWrite
<1> QED BY <1>2, <1>3, RangeEmpty DEF FateInv

\* The process ends.
LEMMA ExitBag ==
  ASSUME BagInv, Live, Exit, setting' = setting
  PROVE  SizeInv' /\ FateInv' /\ Bag!Die
<1>1. /\ queue' = <<>> /\ dropped' = {} /\ ~Live' /\ UNCHANGED <<stored, landed>>
      /\ \A w \in Workers : worker'[w].batch = <<>>
  BY IdleTyped DEF Exit, store, Live
<1>2. SizeInv' /\ FateInv'
  BY <1>1, EmptyFate
<1>3. \A w \in Workers : Holding(w)' = {}
  BY <1>1, RangeEmpty DEF Holding
<1>4. (UNION {Holding(w) : w \in Workers})' = {} /\ Range(queue)' = {} /\ size' = size
  BY <1>1, <1>3, RangeEmpty DEF size
<1>5. Live' = FALSE
  BY <1>1 DEF Live
<1>6. Bag!Die
  BY <1>1, <1>4, <1>5 DEF Bag!Die
<1> QED BY <1>2, <1>6

-----------------------------------------------------------------------------
\* A request whose entry is not on its way yet: nothing has become of it.
LEMMA FreshIs ==
  ASSUME BagInv, Live, NEW r \in Requests, req[r] # "done"
  PROVE  Bag!Fresh(r)
<1>1. r \notin InFlight /\ r \notin landed \cup dropped
  BY DEF BagInv, HoldInv, OnceInv, FateInv
<1> QED BY <1>1 DEF Bag!Fresh, InFlight

\* An entry is turned away, over the byte cap or from a full queue.
LEMMA DropBag ==
  ASSUME BagInv, Live, NEW r \in Requests, req[r] # "done", req' = [req EXCEPT ![r] = "done"],
         dropped' = dropped \cup {r}, setting' = setting,
         UNCHANGED <<phase, queue, worker, stored, landed>>
  PROVE  SizeInv' /\ FateInv' /\ Bag!TurnAway(r)
<1>1. Live' = Live /\ req \in [Requests -> ReqState]
  BY DEF Live, BagInv, HoldInv, IInv, TypeInv
<1>2. landed \cup dropped \subseteq Requests /\ \A q \in landed \cup dropped : req[q] = "done"
  BY DEF BagInv, AllInv, RestInv, FateInv
<1>3. \A q \in landed' \cup dropped' : req'[q] = "done"
  BY <1>1, <1>2
<1>4. \A w \in Workers : ToWrite(worker[w])' = ToWrite(worker[w])
  BY DEF ToWrite
<1>5. SizeInv' /\ FateInv'
  BY <1>3, <1>4 DEF BagInv, SizeInv, FateInv
<1>6. (UNION {Holding(w) : w \in Workers})' = UNION {Holding(w) : w \in Workers}
  BY DEF Holding
<1>7. size' = size /\ Range(queue)' = Range(queue)
  BY DEF size
<1>8. Bag!TurnAway(r)
  BY <1>1, <1>6, <1>7, FreshIs DEF Bag!TurnAway
<1> QED BY <1>5, <1>8

\* What is in flight and the entry that comes to it weigh no more than the
\* reservations, so no more than the cap.
LEMMA LoadFits ==
  ASSUME BagInv, IsFiniteSet(Requests), NEW r \in Requests, req[r] = "reserved", BufferBytes > 0
  PROVE  SumFunction(Weight(InFlight \cup {r})) <= BufferBytes
<1> PICK H : H = Charged
  OBVIOUS
<1> PICK F : F = InFlight \cup {r}
  OBVIOUS
<1>1. F \subseteq H
  BY DEF Charged
<1>2. H \ (H \ F) = F
  BY <1>1
<1>3. SumFunction(Weight(H)) = SumFunction(Weight(H \ (H \ F))) + SumFunction(Weight(H \ F))
  BY WeightSplit DEF BagInv, HoldInv
<1>4. SumFunction(Weight(F)) \in Nat
  BY <1>2, WeightSplit DEF BagInv, HoldInv
<1>5. SumFunction(Weight(H \ F)) \in Nat
  BY <1>1, WeightSplit DEF BagInv, HoldInv
<1>6. SumFunction(Weight(H)) <= BufferBytes /\ BufferBytes \in Nat
  BY JournalAssumption DEF BagInv, HoldInv, AccountInv
<1>7. SumFunction(Weight(H)) = SumFunction(Weight(F)) + SumFunction(Weight(H \ F))
  BY <1>2, <1>3
<1> QED BY <1>4, <1>5, <1>6, <1>7

\* An entry goes on the queue.
LEMMA TakeBag ==
  ASSUME BagInv, IsFiniteSet(Requests), Live, NEW r \in Requests, req[r] = "reserved",
         req' = [req EXCEPT ![r] = "done"], Len(queue) < BufferEntries, queue' = Append(queue, r),
         setting' = setting, UNCHANGED <<phase, worker, stored, landed, dropped>>
  PROVE  SizeInv' /\ FateInv' /\ Bag!Take(r)
<1>1. Live' = Live /\ req \in [Requests -> ReqState] /\ queue \in Seq(Requests)
  BY DEF Live, BagInv, HoldInv, IInv, TypeInv
<1>2. Range(queue') = Range(queue) \cup {r} /\ Len(queue') = Len(queue) + 1
  <2>1. Range(queue') = Range(queue) \cup {r}
    BY <1>1, RangeAppend
  <2>2. Len(queue') = Len(queue) + 1
    BY <1>1
  <2> QED BY <2>1, <2>2
<1>3. Bag!Fresh(r) /\ r \notin landed
  BY FreshIs DEF Bag!Fresh
<1>4. SizeInv'
  <2>1. Len(queue) \in Nat /\ BufferEntries \in Nat
    BY <1>1, JournalAssumption
  <2>2. Len(queue') <= BufferEntries
    BY <1>2, <2>1
  <2> QED BY <2>2 DEF BagInv, SizeInv
<1>5. FateInv'
  <2>1. landed \cup dropped \subseteq Requests /\ \A q \in landed \cup dropped : req[q] = "done"
    BY DEF BagInv, AllInv, RestInv, FateInv
  <2>2. \A q \in landed' \cup dropped' : req'[q] = "done"
    BY <1>1, <2>1
  <2>3. \A w \in Workers : ToWrite(worker[w])' = ToWrite(worker[w])
    BY DEF ToWrite
  <2> QED BY <1>2, <1>3, <2>2, <2>3 DEF BagInv, FateInv
<1>6. Bag!Take(r)
  <2>1. Bag!Cardinality(Range(queue)) < BufferEntries
    <3>1. /\ Cardinality(Range(queue)) \in Nat /\ Cardinality(Range(queue)) <= Len(queue)
          /\ Len(queue) \in Nat /\ BufferEntries \in Nat
      BY <1>1, RangeCount, JournalAssumption
    <3>2. Cardinality(Range(queue)) < BufferEntries
      BY <3>1
    <3> QED BY <3>2, SameTotals
  <2>2. BufferBytes > 0 =>
          Bag!Load(Range(queue) \cup (UNION {Holding(w) : w \in Workers}) \cup {r}) <= BufferBytes
    <3> SUFFICES ASSUME BufferBytes > 0
                 PROVE  Bag!Load(InFlight \cup {r}) <= BufferBytes
      BY DEF InFlight
    <3>1. Bag!Load(InFlight \cup {r}) = SumFunction(Weight(InFlight \cup {r}))
      BY SameTotals DEF Bag!Load, Weight
    <3> QED BY <3>1, LoadFits
  <2>3. (UNION {Holding(w) : w \in Workers})' = UNION {Holding(w) : w \in Workers}
    BY DEF Holding
  <2>4. size' = size /\ Range(queue)' = Range(queue) \cup {r}
    BY <1>2 DEF size
  <2> QED BY <1>1, <1>3, <2>1, <2>2, <2>3, <2>4 DEF Bag!Take
<1> QED BY <1>4, <1>5, <1>6

-----------------------------------------------------------------------------
\* A flusher's step: what it holds then is within its caps, and what of it is
\* still to be written has not landed.
LEMMA FlusherFate ==
  ASSUME BagInv, NEW w \in Workers, NEW rec \in WorkerState,
         worker' = [worker EXCEPT ![w] = rec], UNCHANGED <<phase, req>>,
         Len(queue') <= Len(queue), queue' \in Seq(Requests), Range(queue') \subseteq Range(queue),
         landed' \subseteq landed \cup Holding(w), dropped' \subseteq dropped \cup Holding(w),
         Len(rec.batch) <= BatchSize,
         rec.pc \in {"loop", "drain"} => Len(rec.batch) < BatchSize,
         \A i \in ToWrite(rec) : rec.batch[i] \notin landed'
  PROVE  SizeInv' /\ FateInv'
<1>1. worker'[w] = rec /\ \A v \in Workers \ {w} : worker'[v] = worker[v]
  BY DEF BagInv, HoldInv, IInv, TypeInv
<1>2. SizeInv'
  <2>1. Len(queue') \in Nat /\ Len(queue) \in Nat /\ BufferEntries \in Nat
    BY JournalAssumption DEF BagInv, HoldInv, IInv, TypeInv
  <2>2. Len(queue') <= BufferEntries
    BY <2>1 DEF BagInv, SizeInv
  <2>3. \A v \in Workers : v # w =>
          /\ Len(worker'[v].batch) <= BatchSize
          /\ worker'[v].pc \in {"loop", "drain"} => Len(worker'[v].batch) < BatchSize
    BY <1>1 DEF BagInv, SizeInv
  <2> QED BY <1>1, <2>2, <2>3 DEF SizeInv
<1>3. Live' => \A r \in landed' \cup dropped' : req'[r] = "done"
  <2>1. Live' = Live
    BY DEF Live
  <2>2. \A r \in Holding(w) : req[r] = "done"
    BY DEF BagInv, HoldInv, OnceInv, InFlight
  <2> QED BY <2>1, <2>2 DEF BagInv, FateInv
<1>4. Range(queue') \cap landed' = {}
  BY DEF BagInv, HoldInv, OnceInv, FateInv
<1>5. ASSUME NEW v \in Workers, NEW i \in ToWrite(worker'[v])
      PROVE  worker'[v].batch[i] \notin landed'
  <2>1. CASE v = w
    BY <1>1, <1>5, <2>1
  <2>2. CASE v # w
    <3>1. worker'[v] = worker[v] /\ i \in ToWrite(worker[v])
      BY <1>1, <1>5, <2>2
    <3>2. worker[v].batch[i] \notin landed
      BY <3>1 DEF BagInv, FateInv
    <3>3. worker[v].batch[i] \in Holding(v)
      <4>1. worker[v].batch \in Seq(Requests)
        BY DEF BagInv, HoldInv, IInv, TypeInv, WorkerState
      <4>2. i \in DOMAIN worker[v].batch
        BY <3>1, <4>1 DEF ToWrite
      <4> QED BY <4>2 DEF Holding, Range
    <3>4. Holding(v) \cap Holding(w) = {}
      BY <2>2 DEF BagInv, HoldInv, OnceInv
    <3> QED BY <3>1, <3>2, <3>3, <3>4
  <2> QED BY <2>1, <2>2
<1>6. FateInv'
  <2>1. \A v \in Workers : ToWrite(worker[v])' = ToWrite(worker'[v])
    BY DEF ToWrite
  <2> QED BY <1>3, <1>4, <1>5, <2>1 DEF FateInv
<1> QED BY <1>2, <1>6

\* What a flusher has, before and after, as part of what all of them have.
LEMMA WritingWith ==
  ASSUME BagInv, NEW w \in Workers, NEW rec, worker' = [worker EXCEPT ![w] = rec]
  PROVE  /\ Holding(w)' = Range(rec.batch)
         /\ Holding(w) \subseteq Writing
         /\ (UNION {Holding(v) : v \in Workers})' = (Writing \ Holding(w)) \cup Range(rec.batch)
<1>1. worker'[w] = rec /\ \A v \in Workers \ {w} : worker'[v] = worker[v]
  BY DEF BagInv, HoldInv, IInv, TypeInv
<1>2. Holding(w)' = Range(rec.batch) /\ \A v \in Workers : v # w => Holding(v)' = Holding(v)
  BY <1>1 DEF Holding
<1>3. \A v \in Workers : v # w => Holding(v) \cap Holding(w) = {}
  BY DEF BagInv, HoldInv, OnceInv
<1>4. UNION {Holding(v)' : v \in Workers} = (Writing \ Holding(w)) \cup Range(rec.batch)
  BY <1>2, <1>3 DEF Writing
<1> QED BY <1>2, <1>4 DEF Writing

\* A flusher before its step.
LEMMA OldFlusher ==
  ASSUME BagInv, NEW w \in Workers
  PROVE  /\ worker[w] \in WorkerState /\ worker[w].batch \in Seq(Requests)
         /\ Len(worker[w].batch) \in Nat /\ Len(worker[w].batch) <= BatchSize
         /\ worker[w].pc \in {"loop", "drain"} => Len(worker[w].batch) < BatchSize
         /\ DOMAIN worker[w].batch = 1 .. Len(worker[w].batch)
         /\ Holding(w) = Range(worker[w].batch) /\ IsInjective(worker[w].batch)
         /\ \A i \in ToWrite(worker[w]) : worker[w].batch[i] \notin landed
         /\ BatchSize \in Nat \ {0} /\ queue \in Seq(Requests) /\ Len(queue) \in Nat
<1>1. worker[w] \in WorkerState /\ worker[w].batch \in Seq(Requests) /\ queue \in Seq(Requests)
  BY DEF BagInv, HoldInv, IInv, TypeInv, WorkerState
<1>2. /\ Len(worker[w].batch) \in Nat /\ DOMAIN worker[w].batch = 1 .. Len(worker[w].batch)
      /\ Len(queue) \in Nat
  BY <1>1
<1>3. BatchSize \in Nat \ {0}
  BY JournalAssumption
<1> QED BY <1>1, <1>2, <1>3 DEF BagInv, SizeInv, FateInv, HoldInv, OnceInv, Holding

\* An entry is picked up.
LEMMA PickUpBag ==
  ASSUME BagInv, Live, setting' = setting, UNCHANGED <<phase, req>>,
         NEW w \in Workers, NEW rec \in WorkerState, worker' = [worker EXCEPT ![w] = rec],
         Receives(worker[w], rec)
  PROVE  SizeInv' /\ FateInv' /\ \E e \in Requests : Bag!PickUp(e)
<1> PICK old \in WorkerState : old = worker[w]
  BY OldFlusher
<1> PICK h : h = Head(queue)
  OBVIOUS
<1>1. /\ queue \in Seq(Requests) /\ queue # <<>> /\ old.batch \in Seq(Requests)
      /\ old.pc \in {"loop", "drain"} /\ queue' = Tail(queue) /\ rec.batch = Append(old.batch, h)
      /\ UNCHANGED <<stored, landed, dropped>>
      /\ rec.pc = "append" => rec.next = 1
      /\ rec.pc \in {"loop", "drain"} => Len(rec.batch) < BatchSize
  BY OldFlusher DEF Receives
<1>2. /\ h \in Requests /\ queue' \in Seq(Requests) /\ Range(queue) = Range(queue') \cup {h}
  BY <1>1, RangeTail
<1>3. h \notin Range(queue')
  BY <1>1, InjectiveTail DEF BagInv, HoldInv, OnceInv
<1>4. Len(queue') <= Len(queue)
  BY <1>1
<1>5. Range(rec.batch) = Range(old.batch) \cup {h}
  BY <1>1, <1>2, RangeAppend
<1>6. /\ Len(rec.batch) = Len(old.batch) + 1 /\ Len(old.batch) \in Nat
      /\ \A i \in 1 .. Len(old.batch) : rec.batch[i] = old.batch[i]
      /\ rec.batch[Len(old.batch) + 1] = h
  BY <1>1, <1>2
<1>7. Len(rec.batch) <= BatchSize
  <2>1. Len(old.batch) < BatchSize /\ BatchSize \in Nat
    BY <1>1, OldFlusher
  <2> QED BY <1>6, <2>1
<1>8. \A i \in ToWrite(rec) : rec.batch[i] \notin landed'
  <2>1. h \notin landed
    BY <1>2 DEF BagInv, FateInv
  <2>2. \A i \in 1 .. Len(old.batch) : old.batch[i] \notin landed
    <3>1. ToWrite(old) = 1 .. Len(old.batch)
      BY <1>1 DEF ToWrite
    <3> QED BY <3>1, OldFlusher
  <2>3. ASSUME NEW i \in ToWrite(rec) PROVE rec.batch[i] \notin landed
    <3>1. i \in 1 .. Len(old.batch) \/ i = Len(old.batch) + 1
      BY <1>6 DEF ToWrite
    <3> QED BY <1>6, <2>1, <2>2, <3>1
  <2> QED BY <1>1, <2>3
<1>9. SizeInv' /\ FateInv'
  BY <1>1, <1>2, <1>4, <1>7, <1>8, FlusherFate
<1>10. Bag!PickUp(h)
  <2>1. Live' = Live /\ size' = size
    BY DEF Live, size
  <2>2. Bag!Cardinality(UNION {Holding(v) : v \in Workers}) < BatchSize * Cardinality(Workers)
    <3>1. Cardinality(Writing) < BatchSize * Cardinality(Workers)
      BY <1>1, WritingCount DEF BagInv, HoldInv, IInv
    <3> QED BY <3>1, SameTotals DEF Writing
  <2>3. Range(queue)' = Range(queue) \ {h} /\ h \in Range(queue)
    BY <1>2, <1>3
  <2>4. (UNION {Holding(v) : v \in Workers})' = (UNION {Holding(v) : v \in Workers}) \cup {h}
    <3>1. (UNION {Holding(v) : v \in Workers})' = (Writing \ Holding(w)) \cup Range(rec.batch)
      BY WritingWith
    <3>2. Range(rec.batch) = Holding(w) \cup {h} /\ Holding(w) \subseteq Writing
      BY <1>5, OldFlusher, WritingWith
    <3> QED BY <3>1, <3>2 DEF Writing
  <2> QED BY <1>1, <2>1, <2>2, <2>3, <2>4 DEF Bag!PickUp
<1> QED BY <1>2, <1>9, <1>10

\* A flusher goes on with the batch it has.
LEMMA TurnBag ==
  ASSUME BagInv, setting' = setting, UNCHANGED <<phase, req>>,
         NEW w \in Workers, NEW rec \in WorkerState, worker' = [worker EXCEPT ![w] = rec],
         Turns(worker[w], rec)
  PROVE  SizeInv' /\ FateInv' /\ UNCHANGED Bag!bag
<1> PICK old \in WorkerState : old = worker[w]
  BY OldFlusher
<1>1. /\ old.pc \in {"loop", "drain"} /\ rec.batch = old.batch
      /\ rec.pc = "append" => rec.next = 1
      /\ UNCHANGED <<queue, stored, landed, dropped>>
  BY DEF Turns
<1>2. Len(rec.batch) <= BatchSize /\ Len(rec.batch) < BatchSize /\ Len(queue') <= Len(queue)
  BY <1>1, OldFlusher
<1>3. \A i \in ToWrite(rec) : rec.batch[i] \notin landed'
  <2>1. ToWrite(rec) \subseteq ToWrite(old)
    BY <1>1 DEF ToWrite
  <2> QED BY <1>1, <2>1, OldFlusher
<1>4. SizeInv' /\ FateInv'
  BY <1>1, <1>2, <1>3, OldFlusher, FlusherFate
<1>5. UNCHANGED Bag!bag
  <2>1. \A v \in Workers : worker'[v].batch = worker[v].batch
    BY <1>1 DEF BagInv, HoldInv, IInv, TypeInv
  <2>2. Live' = Live
    BY DEF Live
  <2> QED BY <1>1, <2>1, <2>2, SameBag
<1> QED BY <1>4, <1>5

\* An entry is written, and lands or not; it had not landed before.
LEMMA LandBag ==
  ASSUME BagInv, Live, setting' = setting, UNCHANGED <<phase, req>>,
         NEW w \in Workers, NEW rec \in WorkerState, worker' = [worker EXCEPT ![w] = rec],
         Writes(worker[w], rec)
  PROVE  SizeInv' /\ FateInv' /\ ((\E e \in Requests : Bag!Land(e)) \/ UNCHANGED Bag!bag)
<1> PICK old \in WorkerState : old = worker[w]
  BY OldFlusher
<1> PICK e : e = old.batch[old.next]
  OBVIOUS
<1>1. /\ old.pc = "append" /\ old.next \in 1 .. Len(old.batch)
      /\ rec.pc = "append" /\ rec.batch = old.batch /\ rec.next = old.next + 1
      /\ \/ stored' = stored \cup {e} /\ landed' = landed \cup {e}
         \/ UNCHANGED <<stored, landed>>
      /\ UNCHANGED <<queue, dropped>>
  BY DEF Writes
<1>2. /\ DOMAIN old.batch = 1 .. Len(old.batch) /\ Len(old.batch) \in Nat
      /\ IsInjective(old.batch) /\ Holding(w) = Range(old.batch)
  BY OldFlusher
<1>3. e \in Holding(w) /\ e \in Requests
  <2>1. e \in Range(old.batch)
    BY <1>1, <1>2 DEF Range
  <2>2. old.batch \in Seq(Requests)
    BY OldFlusher
  <2> QED BY <1>1, <1>2, <2>1, <2>2
<1>4. ToWrite(rec) \subseteq ToWrite(old) /\ old.next \in ToWrite(old) /\ old.next \notin ToWrite(rec)
  BY <1>1, <1>2 DEF ToWrite
<1>5. \A i \in ToWrite(rec) : rec.batch[i] \notin landed'
  <2> SUFFICES ASSUME NEW i \in ToWrite(rec) PROVE old.batch[i] \notin landed'
    BY <1>1
  <2>1. old.batch[i] \notin landed
    BY <1>4, OldFlusher
  <2>2. i \in DOMAIN old.batch /\ old.next \in DOMAIN old.batch /\ i # old.next
    BY <1>1, <1>2, <1>4 DEF ToWrite
  <2>3. old.batch[i] # e
    BY <1>2, <2>2 DEF IsInjective
  <2> QED BY <1>1, <2>1, <2>3
<1>6. SizeInv' /\ FateInv'
  <2>1. Len(rec.batch) <= BatchSize /\ Len(queue') <= Len(queue) /\ queue' \in Seq(Requests)
    BY <1>1, OldFlusher
  <2>2. landed' \subseteq landed \cup Holding(w)
    BY <1>1, <1>3
  <2> QED BY <1>1, <1>5, <2>1, <2>2, FlusherFate
<1>7. Live' = Live /\ size' = size
  BY DEF Live, size
<1>8. \A v \in Workers : worker'[v].batch = worker[v].batch
  BY <1>1 DEF BagInv, HoldInv, IInv, TypeInv
<1>9. CASE stored' = stored \cup {e} /\ landed' = landed \cup {e}
  <2>1. e \in UNION {Holding(v) : v \in Workers}
    BY <1>3
  <2>2. e \notin landed
    BY <1>4, OldFlusher
  <2>3. (UNION {Holding(v) : v \in Workers})' = UNION {Holding(v) : v \in Workers}
    BY <1>8 DEF Holding
  <2>4. Range(queue)' = Range(queue)
    BY <1>1
  <2>5. Bag!Land(e)
    BY <1>1, <1>7, <1>9, <2>1, <2>2, <2>3, <2>4 DEF Bag!Land
  <2> QED BY <1>3, <1>6, <2>5
<1>10. CASE UNCHANGED <<stored, landed>>
  <2>1. UNCHANGED Bag!bag
    BY <1>1, <1>7, <1>8, <1>10, SameBag
  <2> QED BY <1>6, <2>1
<1> QED BY <1>1, <1>9, <1>10

\* A batch is over.
LEMMA SettleBag ==
  ASSUME BagInv, Live, setting' = setting, UNCHANGED <<phase, req>>,
         NEW w \in Workers, NEW rec \in WorkerState, worker' = [worker EXCEPT ![w] = rec],
         Settles(worker[w], rec)
  PROVE  SizeInv' /\ FateInv' /\ \E some \in SUBSET Requests : Bag!Settle(some)
<1>1. /\ rec.batch = <<>>
      /\ \/ Range(worker[w].batch) \subseteq landed /\ UNCHANGED dropped
         \/ dropped' = dropped \cup Range(worker[w].batch)
      /\ UNCHANGED <<queue, stored, landed>>
  BY DEF Settles
<1>2. Holding(w) = Range(worker[w].batch) /\ Holding(w) \in SUBSET Requests
  BY OldFlusher DEF Range
<1>3. SizeInv' /\ FateInv'
  <2>1. Len(rec.batch) = 0 /\ ToWrite(rec) = {}
    BY <1>1 DEF ToWrite
  <2>2. Len(rec.batch) <= BatchSize /\ Len(rec.batch) < BatchSize
    BY <2>1, OldFlusher
  <2>3. Len(queue') <= Len(queue) /\ queue' \in Seq(Requests)
    BY <1>1, OldFlusher
  <2> QED BY <1>1, <1>2, <2>1, <2>2, <2>3, FlusherFate
<1>4. Bag!Settle(Holding(w))
  <2>1. (UNION {Holding(v) : v \in Workers})' = (UNION {Holding(v) : v \in Workers}) \ Holding(w)
    <3>1. (UNION {Holding(v) : v \in Workers})' = (Writing \ Holding(w)) \cup Range(rec.batch)
      BY WritingWith
    <3> QED BY <1>1, <3>1, RangeEmpty DEF Writing
  <2>2. Holding(w) \subseteq UNION {Holding(v) : v \in Workers}
    BY WritingWith DEF Writing
  <2>3. Live' = Live /\ size' = size /\ Range(queue)' = Range(queue)
    BY <1>1 DEF Live, size
  <2> QED BY <1>1, <1>2, <2>1, <2>2, <2>3 DEF Bag!Settle
<1> QED BY <1>2, <1>3, <1>4

-----------------------------------------------------------------------------
(* The steps of Journal as steps of the bag.                                *)

Bags == SizeInv' /\ FateInv' /\ (Bag!BagNext \/ UNCHANGED Bag!bag)

LEMMA FlushBag ==
  ASSUME BagInv, NEW w \in Workers, Flush(w), setting' = setting PROVE Bags
<1>1. IInv /\ IndexInv /\ Live /\ UNCHANGED <<phase, req>>
  BY DEF BagInv, AllInv, Flush, Receive, Tick, SeeStop, Drained, AppendOne, FlushDone, process
<1>2. CASE Receive(w)
  <2>1. PICK rec \in WorkerState : worker' = [worker EXCEPT ![w] = rec] /\ Receives(worker[w], rec)
    BY <1>1, <1>2, ReceiveIs
  <2>2. SizeInv' /\ FateInv' /\ \E e \in Requests : Bag!PickUp(e)
    BY <1>1, <2>1, PickUpBag
  <2> QED BY <2>2 DEF Bags, Bag!BagNext
<1>3. CASE Tick(w) \/ SeeStop(w) \/ Drained(w)
  <2>1. PICK rec \in WorkerState : worker' = [worker EXCEPT ![w] = rec] /\ Turns(worker[w], rec)
    BY <1>1, <1>3, TurnIs
  <2> QED BY <1>1, <2>1, TurnBag DEF Bags
<1>4. CASE AppendOne(w)
  <2>1. PICK rec \in WorkerState : worker' = [worker EXCEPT ![w] = rec] /\ Writes(worker[w], rec)
    BY <1>1, <1>4, WriteIs
  <2>2. SizeInv' /\ FateInv' /\ ((\E e \in Requests : Bag!Land(e)) \/ UNCHANGED Bag!bag)
    BY <1>1, <2>1, LandBag
  <2> QED BY <2>2 DEF Bags, Bag!BagNext
<1>5. CASE FlushDone(w)
  <2>1. PICK rec \in WorkerState : worker' = [worker EXCEPT ![w] = rec] /\ Settles(worker[w], rec)
    BY <1>1, <1>5, SettleIs
  <2>2. SizeInv' /\ FateInv' /\ \E some \in SUBSET Requests : Bag!Settle(some)
    BY <1>1, <2>1, SettleBag
  <2> QED BY <2>2 DEF Bags, Bag!BagNext
<1> QED BY <1>2, <1>3, <1>4, <1>5 DEF Flush

LEMMA ServeBag ==
  ASSUME BagInv, IsFiniteSet(Requests), NEW r \in Requests, Serve(r), setting' = setting
  PROVE  Bags
<1>0. req \in [Requests -> ReqState] /\ Live
  BY DEF BagInv, HoldInv, IInv, TypeInv, Serve, Arrive, Refuse, Reserve, Send
<1>1. ASSUME UNCHANGED <<phase, queue, worker, stored, landed, dropped>>, req[r] # "done",
             \E s \in ReqState : req' = [req EXCEPT ![r] = s]
      PROVE  Bags
  <2>1. Live' = Live /\ \A q \in Requests : req[q] = "done" => req'[q] = "done"
    BY <1>0, <1>1 DEF Live
  <2>2. SizeInv' /\ FateInv'
    BY <1>1, <2>1, StillFate
  <2>3. UNCHANGED Bag!bag
    BY <1>1, <2>1, SameBag
  <2> QED BY <2>2, <2>3 DEF Bags
<1>2. ASSUME UNCHANGED <<phase, queue, worker, stored, landed>>, req[r] # "done",
             req' = [req EXCEPT ![r] = "done"], dropped' = dropped \cup {r}
      PROVE  Bags
  <2>1. SizeInv' /\ FateInv' /\ Bag!TurnAway(r)
    BY <1>0, <1>2, DropBag
  <2> QED BY <2>1 DEF Bags, Bag!BagNext
<1>3. CASE Arrive(r) \/ Refuse(r)
  <2>1. /\ UNCHANGED <<phase, queue, worker, stored, landed, dropped>> /\ req[r] # "done"
        /\ \E s \in {"serving", "done"} : req' = [req EXCEPT ![r] = s]
    BY <1>3 DEF Arrive, Refuse, process, writer, store
  <2> QED BY <1>1, <2>1 DEF ReqState
<1>4. CASE Reserve(r)
  <2>1. UNCHANGED <<phase, queue, worker, stored, landed>> /\ req[r] # "done"
    BY <1>4 DEF Reserve, process, store
  <2>2. \/ req' = [req EXCEPT ![r] = "done"] /\ dropped' = dropped \cup {r}
        \/ req' = [req EXCEPT ![r] = "reserved"] /\ dropped' = dropped
    BY <1>4 DEF Reserve
  <2> QED BY <1>1, <1>2, <2>1, <2>2 DEF ReqState
<1>5. CASE Send(r)
  <2>1. /\ UNCHANGED <<phase, worker, stored, landed>> /\ req[r] = "reserved"
        /\ req' = [req EXCEPT ![r] = "done"]
    BY <1>5 DEF Send, process, store
  <2>2. CASE Len(queue) < BufferEntries
    <3>1. queue' = Append(queue, r) /\ UNCHANGED dropped
      BY <1>5, <2>2 DEF Send
    <3>2. SizeInv' /\ FateInv' /\ Bag!Take(r)
      BY <1>0, <2>1, <2>2, <3>1, TakeBag
    <3> QED BY <3>2 DEF Bags, Bag!BagNext
  <2>3. CASE ~(Len(queue) < BufferEntries)
    <3>1. queue' = queue /\ dropped' = dropped \cup {r}
      BY <1>5, <2>3 DEF Send
    <3> QED BY <1>2, <2>1, <3>1
  <2> QED BY <2>2, <2>3
<1> QED BY <1>3, <1>4, <1>5 DEF Serve

\* A step of run() that moves no entry, or with which the process ends.
LEMMA MoveBag ==
  ASSUME BagInv, Up \/ Down \/ AskToStop \/ Kill, setting' = setting PROVE Bags
<1>1. CASE Exit
  <2>1. Live
    <3>1. Up => Live
      BY DEF Up, StartAdmin, OpenStore, StartJournal, SetAdmin, InitialLoad, StartMock, SetReady, Live
    <3>2. Down => Live
      BY DEF Down, TakeStop, CloseMock, ListenersDone, WriterDone, Return, Live
    <3> QED BY <3>1, <3>2 DEF AskToStop, Kill
  <2>2. SizeInv' /\ FateInv' /\ Bag!Die
    BY <1>1, <2>1, ExitBag
  <2> QED BY <2>2 DEF Bags, Bag!BagNext
<1>2. CASE StartJournal
  <2>1. /\ phase = "journal" /\ phase' = "api" /\ UNCHANGED <<queue, stored, landed, dropped, req>>
        /\ worker' = [w \in Workers |-> [IdleWorker EXCEPT !.pc = "loop"]]
    BY <1>2 DEF StartJournal, store
  <2> PICK rec : rec = [IdleWorker EXCEPT !.pc = "loop"] /\ rec.batch = <<>>
    BY IdleTyped
  <2>2. \A w \in Workers : worker[w].batch = <<>> /\ worker'[w] = rec
    BY <2>1 DEF BagInv, HoldInv, IInv, StopInv, FlushInv, FlusherOK
  <2>3. Live /\ Live' = Live
    BY <2>1 DEF Live
  <2>4. UNCHANGED Bag!bag
    BY <2>1, <2>2, <2>3, SameBag
  <2>5. SizeInv'
    <3>1. Len(rec.batch) = 0 /\ BatchSize \in Nat \ {0}
      BY JournalAssumption
    <3>2. Len(rec.batch) <= BatchSize /\ Len(rec.batch) < BatchSize
      BY <3>1
    <3> QED BY <2>1, <2>2, <3>2 DEF BagInv, SizeInv
  <2>6. FateInv'
    <3>1. Len(rec.batch) = 0
      OBVIOUS
    <3>2. \A w \in Workers : Len(worker'[w].batch) = 0
      BY <2>2, <3>1
    <3>3. \A w \in Workers : ToWrite(worker[w])' = {}
      BY <3>2 DEF ToWrite
    <3> QED BY <2>1, <2>3, <3>3 DEF BagInv, FateInv
  <2> QED BY <2>4, <2>5, <2>6 DEF Bags
<1>3. CASE ~Exit /\ ~StartJournal
  <2>1. UNCHANGED <<queue, worker, stored, landed, dropped, req>> /\ Live /\ Live'
    <3>1. CASE Up
      BY <1>3, <3>1 DEF Up, StartAdmin, OpenStore, SetAdmin, InitialLoad, StartMock, SetReady,
                        writer, store, Live
    <3>2. CASE Down
      BY <1>3, <3>2 DEF Down, TakeStop, CloseMock, ListenersDone, WriterDone, Return,
                        writer, store, Live
    <3>3. CASE AskToStop \/ Kill
      BY <1>3, <3>3 DEF AskToStop, Kill, writer, store, Live
    <3> QED BY <3>1, <3>2, <3>3
  <2>2. SizeInv' /\ FateInv'
    BY <2>1, StillFate
  <2>3. Live' = Live
    BY <2>1 DEF Live
  <2>4. UNCHANGED Bag!bag
    BY <2>1, <2>3, SameBag
  <2> QED BY <2>2, <2>4 DEF Bags
<1> QED BY <1>1, <1>2, <1>3

\* The admin API only takes entries out of the collection.
LEMMA CallBag ==
  ASSUME BagInv, NEW c \in Clears, Call(c), setting' = setting PROVE Bags
<1>1. UNCHANGED <<phase, queue, worker, landed, dropped, req>>
  BY DEF Call, BeginClear, BeginRemove, BeginDelete, RemoveKeys, process, writer, store
<1>2. Live' = Live /\ size' = size /\ Range(queue)' = Range(queue)
  BY <1>1 DEF Live, size
<1>3. SizeInv' /\ FateInv'
  BY <1>1, <1>2, StillFate
<1>4. PICK gone \in SUBSET Requests : stored' = stored \ gone
  <2>1. stored \subseteq Requests
    BY DEF BagInv, AllInv, RestInv
  <2>2. \E gone : stored' = stored \ gone
    <3>1. CASE RemoveKeys(c)
      BY <3>1 DEF RemoveKeys
    <3>2. CASE UNCHANGED stored
      <4>1. stored' = stored \ {}
        BY <3>2
      <4> QED BY <4>1
    <3> QED BY <3>1, <3>2 DEF Call, BeginClear, BeginRemove, BeginDelete, store
  <2>3. PICK gone : stored' = stored \ gone
    BY <2>2
  <2>4. stored' = stored \ (gone \cap Requests)
    BY <2>1, <2>3
  <2> QED BY <2>4
<1>5. (UNION {Holding(w) : w \in Workers})' = UNION {Holding(w) : w \in Workers}
  BY <1>1 DEF Holding
<1>6. Bag!Remove(gone)
  BY <1>1, <1>2, <1>4, <1>5 DEF Bag!Remove
<1> QED BY <1>3, <1>6 DEF Bags, Bag!BagNext

LEMMA NextBag ==
  ASSUME IsFiniteSet(Requests), BagInv, [Next]_vars PROVE Bags
<1>1. CASE UNCHANGED vars
  <2>1. UNCHANGED <<phase, setting, queue, worker, stored, landed, dropped, req>>
    BY <1>1 DEF vars, process, writer, store
  <2>2. Live' = Live
    BY <2>1 DEF Live
  <2>3. SizeInv' /\ FateInv'
    BY <2>1, <2>2, StillFate
  <2>4. UNCHANGED Bag!bag
    BY <2>1, <2>2, SameBag
  <2> QED BY <2>3, <2>4 DEF Bags
<1>2. CASE Next
  <2>1. setting' = setting
    BY <1>2 DEF Next
  <2>2. CASE Up \/ Down \/ AskToStop \/ Kill
    BY <2>1, <2>2, MoveBag
  <2>3. CASE \E r \in Requests : Serve(r)
    BY <2>1, <2>3, ServeBag
  <2>4. CASE \E w \in Workers : Flush(w)
    BY <2>1, <2>4, FlushBag
  <2>5. CASE \E c \in Clears : Call(c)
    BY <2>1, <2>5, CallBag
  <2> QED BY <1>2, <2>2, <2>3, <2>4, <2>5 DEF Next, Step
<1> QED BY <1>1, <1>2

\* Writer and store together are the bounded bag of JournalBag: no more entries
\* and bytes than the caps allow, an entry written at most once, and none let go
\* of unwritten and uncounted, whatever queue, batches, failures, drains and
\* clears there are.
THEOREM WriterIsBag ==
  ASSUME IsFiniteSet(Requests) PROVE Spec => BoundedBag
<1>1. Init => Bag!BagInit
  <2> SUFFICES ASSUME Init PROVE Bag!BagInit
    OBVIOUS
  <2>1. Live = TRUE /\ size \in [Requests -> Nat]
    BY JournalAssumption DEF Init, Live, size
  <2>2. Range(queue) = {} /\ UNION {Holding(w) : w \in Workers} = {}
    BY IdleTyped, RangeEmpty DEF Init, Holding
  <2> QED BY <2>1, <2>2 DEF Init, Bag!BagInit
<1>2. Init => SizeInv /\ FateInv
  <2> SUFFICES ASSUME Init PROVE SizeInv /\ FateInv
    OBVIOUS
  <2>1. /\ queue = <<>> /\ landed \cup dropped = {} /\ \A w \in Workers : worker[w].batch = <<>>
        /\ Len(<<>>) = 0 /\ BufferEntries \in Nat /\ BatchSize \in Nat \ {0}
    BY IdleTyped, JournalAssumption DEF Init
  <2>2. \A w \in Workers : Len(worker[w].batch) = 0 /\ ToWrite(worker[w]) = {}
    BY <2>1 DEF ToWrite
  <2>3. SizeInv
    BY <2>1, <2>2 DEF SizeInv
  <2> QED BY <2>1, <2>2, <2>3, RangeEmpty DEF FateInv
<1>3. BagInv /\ [Next]_vars => SizeInv' /\ FateInv' /\ [Bag!BagNext]_(Bag!bag)
  BY NextBag DEF Bags
<1>4. HoldInv /\ AllInv /\ SizeInv /\ FateInv <=> BagInv
  BY DEF BagInv
<1> QED BY <1>1, <1>2, <1>3, <1>4, HoldInvariance, AllInvariance, PTL
       DEF Spec, BoundedBag, Bag!BagSpec
=============================================================================
