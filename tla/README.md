# Formal verification of mockulus

mockulus is a WireMock-compatible mock server written in Go. Several stateless
replicas ("pods") share one store, normally a Couchbase keyspace. A pod answers
mock requests from an immutable in-memory snapshot of the stubs; the admin API
writes stubs to the store and then moves a shared change counter, the *epoch*;
every pod polls the epoch and rebuilds its snapshot when it has moved.

This directory holds TLA+ models of two kinds of parts. Some depend on order:
what was written, when it reached the disk, when the epoch moved, what a pod had
read by the time it swapped its snapshot, what was still queued when it stopped,
and which of two requests got there first. Others are pure and intricate, and have
two implementations that must agree, or one and a short definition of what it should
compute: selection, matchers, JSONPath, verification, near misses, the
writing of a response. TLC checks the models on small instances, and TLAPS proves
the main safety results for every value of the constants.

Paths below are relative to the repository. Run the tools in this directory:

    tlc -config WatermarkRace.cfg MCWatermark.tla      (a run)
    tlapm WatermarkProofs.tla                          (the proofs of a module)

`PROJECT.json` lists the components, the runs, the hazards with the properties
that cover them, the theorems, and for every definition the lines it stands for.

## 1. The system

### Components and their state

| Component | State it keeps | Operations | Model |
|---|---|---|---|
| Couchbase driver, `internal/store/couchbase/couchbase.go` | per pod: `writeWatermark.tokens`, `publishedWatermark.refused`; shared: `meta::epoch`, `meta::writes`, documents | put and delete a stub or file, `publishWrites`, `BumpEpoch`, `LoadAll` | `Watermark` |
| Admin write path, `internal/admin/mappings.go`, `mappings_write.go`, `files.go`, `settings.go` | none: each handler is a sequence of store calls | create, update, delete, reset, delete all, remove by metadata, save, import, put and delete a file, put settings | `AdminWrites` |
| Snapshot builder, splice, poller, compilation cache, `internal/match/builder.go`, `splice.go`, `poller.go`, `cache.go`, `engine.go` | per pod: the current snapshot and its epoch, the cache, `Builder.mu` | `Rebuild`, `SpliceStub`, `SpliceDelete`, poll, resync | `Serving` |
| Scenarios, `internal/scenario/scenario.go`, `internal/admin/scenarios.go`, `internal/store/couchbase/scenario.go`, the gate in `cmd/mockulus/main.go` | a state document per scenario, a memo per request | gate, `Transition`, `SetState`, reset | `Scenario`, `ScenarioFlow` |
| Match engine, `internal/match/snapshot.go`, `request.go`, `internal/stub/pathtemplate.go` | per snapshot: selection order and its indexes; a pool of `ParsedRequest` | selection of a stub, parsing on demand | `Selection` |
| Response writer, `internal/response/render.go`, `reason.go` | the connection and its write deadline | delay, fault, render, clamp, dribble, hijack | `Response` |
| Journal writer, `internal/journal/journal.go`, `internal/store/couchbase/journal.go`, `internal/admin/requests.go` | bounded queue, byte counter, workers with a batch each | `Record`, flush, `Stop`; clear, remove, delete | `Journal`, `JournalBag` |
| Server lifecycle, `cmd/mockulus/main.go`, `internal/server/server.go` | listeners, readiness, store, drain deadline | start, ready, drain, stop | `Journal` |
| In-memory store, `internal/store/memory/memory.go` | maps under one mutex, epoch, expiry times | every store call | the atomic store calls of `AdminWrites`, `Serving`, `Scenario` and `Journal` |
| File store, `internal/store/file/file.go` | none of its own; its epoch is a fingerprint of file metadata | `LoadAll`, `Epoch`; writes are refused | `FileStore` |
| Matchers, `internal/matchers` | none | compile a criterion, match a subject, equality of JSON | `Matchers` |
| JSONPath, `internal/jsonpath` | none | evaluate a path over a tree, or scan the bytes for it | `JsonPath` |
| Request criteria and near misses, `internal/admin/criteria.go`, `nearmiss.go`, `internal/match/nearmiss.go`, `internal/wmcompat/nearmiss.go` | none | count journal entries, score and rank stubs and entries | `Verification` |
| Regular expressions, JSON Schema, templates, stub compilation, configuration | none | pure functions | not modelled |
| Metrics, tracing, admin router and UI assets | counters, spans, embedded files | observe, route | not modelled: nothing they do feeds back |
| TypeScript SDK, admin UI | clients of the admin API | build requests, poll | not modelled |

### How they interact

- An admin handler calls the store driver several times, then `BumpEpoch`, and
  then brings its *own* pod's snapshot up to date: a splice for a single stub,
  a rebuild for everything else. Only after that does it answer.
- The poller of every pod compares the store's epoch with the one its snapshot
  is stamped with, and rebuilds when they differ. A resync rebuilds
  unconditionally, every five minutes by default.
- `Builder.mu` orders the writers of one pod's snapshot: poller, handlers' rebuilds
  and splices. Nothing orders them against writes to the store, which other
  requests and other pods make at any time.
- A rebuild reads through `LoadAll`. Under Couchbase it is a KV range scan, which
  answers from what a vbucket has *persisted*, so the driver has to make it wait
  for the writes the epoch accounts for: its own (`tokens`) and those that the
  other pods have published in `meta::writes` before moving the epoch.
- A mock request is matched against the snapshot. Where a stub belongs to a
  scenario, matching calls the gate, which reads the scenario's state from the
  store once per request, and the transition after the match writes it back
  under compare-and-swap. The state is shared by all pods.
- The stub that answers is handed to the response writer, which waits, fails,
  dribbles or takes the connection as the stub asks, and then comes back to the
  engine for the bookkeeping (`finish`).
- A served request is enqueued for the journal, whose workers write batches to
  the store; the admin API reads, verifies and clears them. A verification
  evaluates a pattern over what was recorded, not over what arrived.
- `run()` brings store, writer, snapshot and listeners up and takes them down; what
  the writer may still do depends on where that has got to.

### What is hard to test

- Acknowledged, published and counted are three round trips. A peer that reloads
  between any two of them, or a pod that restarts between them, must still end up
  right, and the window is milliseconds wide.
- Failovers change the history of a vbucket; positions of two histories do not compare.
- Compare-and-swap loops give up after a fixed number of rounds.
- A splice installs what one request compiled into whatever is current, under the
  epoch of whatever is current.
- Every handler is several store calls with other handlers' calls in between, and
  any of them can fail after it has landed.
- A mock request looks at several stubs of one scenario while others move it.
- A directory is walked file by file while its owner edits it.
- A journal entry has to get out of a pod that may be stopping, or be counted.
- The same criterion is judged over a live request, over a recorded one, and by a
  distance; the same JSONPath by two evaluators; the same body is written
  by four paths. They disagree only on inputs nobody pairs.

The list with lines and covering properties is `hazards` in `PROJECT.json`.

### What makes each component correct

| Component | Promise | Stated as |
|---|---|---|
| Driver | A snapshot stamped with an epoch contains every write that epoch accounts for: the pod's own always, the peers' whenever the published positions could be used | `OwnWritesSeen`, `PublishedWritesSeen` |
| | No pod's publication loses another pod's position | `PublishedNeverWeakens` |
| | A reload never takes a snapshot backwards, and a failed one leaves it alone | `SnapshotNeverRegresses` |
| | Once the writes stop every pod reaches the store's epoch | `Watermark!Converges` |
| Admin writes | No two stubs share an insertion sequence, so selection is a total order | `SeqsDistinct` |
| | An import ends with the element its duplicate policy names, and earlier elements of a batch win ties | `ImportOutcome` |
| | An edit or an import never moves a stub in the selection order; a save may | `PrecedenceKept` |
| Serving | A pod that would not reload serves what the store holds | `Settled` |
| | A pod that has acknowledged a write serves it for as long as it stands | `ReadYourWrites` |
| | Ties are broken as the store's sequences break them | `OrderAgrees` (violated, see section 4) |
| | With resyncs every pod ends up right whatever was lost | `Serving!Converges` |
| Scenarios | A request is answered as of one state of each scenario | `AnsweredInOneWorld` |
| | Scenarios are one state machine shared by the pods: gated moves are compare-and-swap steps, at most one per request | `OneSharedMachine` |
| | A gated move is dropped only when somebody else moved the scenario | `LostOnlyToAnother` |
| | A reset restarts every scenario it can know of | `ResetRestarts` |
| Journal | The byte cap's account is what is held, whatever was dropped or failed | `BytesAccounted` |
| | Writer and store are one bounded bag: entries are taken under both caps or counted, written at most once, and let go of when they have landed or are counted | `BoundedBag` |
| | Shutdown writes what was recorded before it, to a store that is open | `StopFlushes`, `AppendsToOpenStore` |
| | A clear that answered leaves nothing of what was there | `ClearEmpties` (violated, section 4) |
| | Entries leave the pod | `EntriesLeave` |
| Lifecycle | A pod that says it is ready can answer; one asked to stop exits | `ReadyServes`, `StopsInTheEnd` |
| Match engine | The first stub in selection order that matches on its own answers | `FirstInOrder` |
| Response writer | However the body is sent, the client reads the bytes it is owed in a message that ends | `WholeMessage` |
| File store | A fingerprint that has not moved means the snapshot is what the poll saw; polls alone pick up every edit | `PollTrusts`, `EditsTakeEffect` |
| JSONPath | The scanner answers as the evaluator, the evaluator as the definition of a path | `ScanIsEval`, `EvalSelects` |
| Matchers | JSON equality is decided on exact values and any pairing of elements | `JsonEqualityExact` |
| | A criterion, a negated one too, holds of repeated values when one of them alone satisfies all of it, unless it asks about the values together | `RepeatsDistribute` |
| Verification | What is counted is what would have matched | `VerificationAgrees` (violated, section 4), `RecordedAgrees` |
| Near misses | Nearest first, a match at no distance; the edit distance is the least | `NearestFirst`, `DistanceIsLeast` |

## 2. The modules

### `Watermark`: the driver's reload guarantee

The documents themselves do not appear: a mutation is where it landed, its
collection, its vbucket and `<<vbucket UUID, sequence number>>`.

| Variable | Code |
|---|---|
| `vb` | the server's vbuckets: history, newest and persisted sequence number (external) |
| `epoch`, `wdoc` | `meta::epoch`; `meta::writes` with its CAS, and whether it decodes |
| `tokens`, `refused` | `writeWatermark.tokens`, `publishedWatermark.refused` of each pod |
| `load`, `snap` | the `LoadAll` under way; the epoch of the served snapshot and what its scans saw |
| `req` | where an admin request is between its store calls |
| `acct` | history: which writes each increment accounted for, and whether they were published |

A request mutates documents (`Mutate`, `NoteWrite`), publishes (`BeginPublish`,
`ReadWrites`, `ReplaceWrites`) and increments (`BumpEpoch`); any of these may fail,
also after it landed. A reload reads the epoch first (`LoadEpoch`), builds its
requirement (`RequireFor`), visits each vbucket once the requirement is met
(`ScanVb`), falls back to the pod's own positions when the server refuses the
published ones (`ScanOutdated`), and at the end drops the positions it has
observed and swaps the snapshot in (`LoadDone`), or drops them and swaps nothing in, because
the settings cannot be read or the load was an admin handler's own (`LoadUnused`).
`Persist`, `Failover` and `DamageWrites` are the cluster. Left out: an admin handler's
`LoadAll` takes no `Builder.mu`, so it may run beside a rebuild of its pod.
`UseRangeScan = FALSE` is the N1QL arm. The theorems hold for both arms; the runs
use the range scan, which is the demanding one.

### `AdminWrites`: the write path down to the store

A request is a record that walks through its store calls; `pc` names the call it
is about to make and other requests' calls come in between. `Begin` covers what a
handler does up to its first write: looking the id up is the request's first
store call and happens when it arrives. Bulk removals, saves and imports then read
keys one by one and write them one by one in any order, as their workers do. An
import keeps in `copy` what it saw and what it has written, so that a repeated id
collides with itself (`ApplyItem`). `Abandon` is a failed call at any point;
`Expire` is the time to live of a stub that is not persistent. `unsignalled` records
that something may have changed with no increment after it.

### `Serving`: the snapshots

Extends `AdminWrites`: a request that has incremented the epoch is at `"answer"`,
and `Update` there splices or rebuilds before the request is over. `snap`,
`cache` and `load` are the pod's snapshot, its compilation cache and the rebuild
that holds the mutex (`MutexFree` is `Builder.mu`). A rebuild reads the epoch, then
documents and the body file in any order, then the settings, and swaps. A
splice reads the body file *before* it takes the mutex. `misread` and `acked` are
history variables: stubs spliced without a body file they should have had, and
which pods have acknowledged what the store now holds.

Store reads here are as fresh as the store. That a rebuild under Couchbase is as
fresh as the epoch it read is what `Watermark` establishes; the in-memory driver
gives it by its mutex.

### `Scenario` and `ScenarioFlow`: stateful stubs

A request arrives with the stubs that match it in every other respect, in
selection order (`Candidates`). The gate reads a scenario's state the first time
a candidate needs it and remembers it for the request (`ReadState`, `PassOver`,
`Choose`); a read that fails marks the request, and the answer becomes 500
(`ReadFails`). A gated transition reads the document again, re-checks the gate and
replaces it under its CAS (`Get`, `Swap`, `SwapLost`), at most `CasAttempts` times.
A stub without a required state writes unconditionally (`Upsert`); so does the
admin API (`SetState`). A reset is a bulk read that waits for the pod's own
positions, then a removal per key.

`ScenarioFlow` is the abstract specification: a state per scenario, and the set of
clients that have moved one. `Scenario` implements it under the mapping
`state[n] = doc[n].state`, `moved = {r : req[r].landed # 0}`. `OneSharedMachine` is
that refinement, checked by TLC and proved.

### `Journal`: the writer and the process around it

A run of the process is a walk of `phase` through `run()`: listeners, store, writer,
first load, ready, and back down (`Up`, `Down`). `pod` is what is up.
A request reserves bytes and then sends without blocking (`Reserve`,
`Send`), two steps between which others come. A flusher receives, ticks, sees
the stop channel closed, drains, and appends entry by entry, each of which may fail
(`Flush`). A clear lists keys and removes them one by one (`Call`). `Kill` is SIGKILL at
any point. `landed` and `outlived` are history: entries that were ever stored, and
requests still running when the listeners gave up on them. With `UseRangeScan`, as in
the runs, a clear lists what a vbucket has on disk, since it holds no position of a
journal entry to wait for; in the query arm it lists everything.

`JournalBag` is the abstract specification: sets of entries that wait, that are being
written, that are kept, that have landed and that are counted, with `Take`, `TurnAway`,
`PickUp`, `Land`, `Settle`, `Remove` and `Die`. `Journal` implements it under the mapping
`waiting = Range(queue)`, `writing` = what the flushers' batches hold, `kept = stored`,
`counted = dropped`; `BufferEntries` bounds what waits, `BatchSize` times the number of
flushers what is being written, `BufferBytes` both together. `Reserve` is a stutter of the
bag, or turns an entry away; `Send` takes it or turns it away. `BoundedBag` is that
refinement, checked by TLC and proved. What the bag promises is what the code does: an
entry may land and be counted as dropped too, when another of its batch failed. A
write that is given up and lands only after its batch is over is outside both.

### `FileStore`: a directory as an epoch

A walk is a record: it lists a directory, and for each file takes its stamp and then,
if it is a load, reads it. Edits, deletions, an unmount and a mount come between
any two of these. The abstract clock of `edits` gives every edit a new stamp: that two
edits of one size within the resolution of the file system's clock look alike is
outside, and so are edits behind a symbolic link, whose own stamp is what a walk takes.
The fingerprint names a file within its directory; no body file of the model has the
name of a mapping, so that says which file it is.

### `Selection`: which stub answers

`Shape`s are compiled stubs: how they match a URL, a method, a priority, and what else
they want of a request. `BuildSnapshot` sorts them and builds five lists; `Evaluate`
is one round of the merge. `pr` is the pooled `ParsedRequest`: its memo of parsed parts
and its path variables are filled by one candidate and seen by the next, and
`Release` hands it to another request after `Reset`. `FirstInOrder` knows none of that:
it scans the list as it was given. `Compiled` is what `parseRequest` has made sure of
before a stub gets here. The literal prefix that `matchURL` tries before a pattern or a
template is left out: it turns away only what would not match.

### `Response`: writing one message

A byte of a body is its position, so what the client reads can be compared with what
it is owed. `AwaitDelay` composes and waits out the delay or sees the client leave;
`InjectFault`, `AnswerFileMissing` and a failed render end early. `Prepare` sets the
deadline and clamps the body; `WriteHeaders` frames it, as net/http does or as
`writeWithReason` does on the connection it has taken; `WritePiece` is one pause and one
write. A slow client holds writes up for up to `MaxStall`; a write past the deadline ends
the response. A status below 200 has no body; net/http sends it ahead of a final 200 of its
own (`FinalStatus`), a hijacked connection sends it and nothing after it.
`CompiledResponse` is what `parseDelays` has made sure of.

### `JsonPath`, `Matchers`, `Verification`: pure algorithms

These have no state. A recursive algorithm of the code is a recursive operator, so these
modules are for TLC only. Text is abstract throughout: what a regular
expression or a substring accepts is a set of texts, a body is a text or the document
it decodes to. `JsonPath` has the evaluator and the byte scanner side by side, and apart
from both what a path selects, member by member, and how a filter's term compares
(`Navigates`, `Satisfies`).
`Matchers` has the compilation of a criterion, with its refusals, and matching over
subjects with repeated values; numbers carry their exact value and what `Round` makes
of it, since a float64 tells fewer apart. `Verification` has a pattern matched over a
request (`FullMatch`), the journal entry left by it (`NewEntry`), the verdict
over the entry (`Verdicts`), and the scores; it extends `Matchers`, whose matchers
both sides ask. The entry's URL is the parsed target written out again, which for a raw
byte is another path than the one received (`RequestURIPath`); its cookies are those
net/http keeps, which are not those the engine reads.

### Proof and instance modules

`WatermarkProofs`, `AdminProofs`, `ServingProofs` (which builds on `AdminProofs` as
`Serving` does on `AdminWrites`), `ScenarioProofs`, `FileStoreProofs`, `JournalProofs`,
`SelectionProofs` and `ResponseProofs` hold the theorems. `MC*` modules give the
constants that a `.cfg` cannot write: which pod serves which request, the batches of an
import, the candidate lists, the symmetry sets. Where a theorem asks something of these
constants, the instance module states it as an `ASSUME`, so that the runs show it is
true of them. In `MCReplicas` a behaviour is of one `scene`: one replica with its client
(`LoneStep`, where the other stays as it began), two replicas with a client each (`Apart`),
or the store alone under clients of `AdminWrites`, whose pods stay as they began. `MCParts` puts the
parts that share no state into one run: `subject` says which of them a behaviour is of,
the others keep one initial state. Its state space is the disjoint union of theirs. It
extends those with state, so `Selection` and `Response` name their specification
`MatchSpec` and `WriteSpec`.
Operators whose comment says *Mutant of* are faulty variants of an action, kept
next to it; no specification uses them. Substituting one for its original makes
the run that names it fail, which shows that the property depends on that detail.

## 3. What TLC checks

Every run's cfg is complete: constants, specification, properties. Bounds are
constants named `Max...`. Deadlock checking is off throughout, because every
model stops when its bounds are used up and no request is left.

| Run | Instance | Shows |
|---|---|---|
| `wm_race` | two pods, each writing, 1 vbucket, 2 mutations, 2 increments, no faults | a reload stamped with an epoch contains what that epoch accounts for while publications race for `meta::writes` |
| `wm_faults` | two pods, one writing, 1 vbucket that may fail over, 1 increment, one fault, with fairness | reloads after a failed call, a restart or a damaged document contain what they must, a failed reload leaves the snapshot alone, and both pods end on the store's epoch unless wedged as in finding 1 |
| `wm_wedge` | one pod, a failover, no faults, with fairness | expected violation, finding 1 |
| `serving` | one of five scenes over two ids, three requests: one pod with one client at a time, every operation, body file, one fault; two pods with a client each on an id of its own; two clients with an id each, importing batches that repeat it under both policies, one fault; one client that imports both ids beside its other requests, one fault; two clients that write and empty the collection while stubs expire, one fault. No resync; expiry in the last | `Settled`, `ReadYourWrites`; sequences, the outcome of imports, precedence across edits |
| `serving_live` | one pod, two clients on one id, its body file, expiry, one fault, resyncs, with fairness | convergence whatever the races left behind |
| `serving_stale_splice` | two clients on one id, no faults, no resync | expected violation, finding 2 |
| `serving_order` | one client, two ids, no faults | expected violation, finding 3 |
| `scenario` | two pods, two mock requests on one scenario, an admin write, a reset, one fault | all scenario properties and the refinement of `ScenarioFlow` |
| `journal` | one pod from start to exit, two requests, two workers, a queue of one, a byte cap of two with entries of one or two bytes, a clear by range scan, one fault, a kill; with fairness | the journal's and the lifecycle's properties and the refinement of `JournalBag` |
| `journal_clear` | the same without fairness | expected violation, finding 5 |
| `verification` | the pairs of pattern and request below | expected violation, finding 4 |
| `parts` | see below, with fairness for the file store | the properties of `FileStore`, `Selection`, `Response`, `JsonPath`, `Matchers` and `Verification` |

The subjects of `parts`:

| Subject | Inputs |
|---|---|
| `files` | a mapping and a body file, two contents, two edits, one failed read, a root that comes and goes |
| `select` | every list of up to two stubs of 44 shapes, and of three of 5 shapes; two requests one after the other through the pool |
| `reply` | 3520 ways to send a body: sizes 0, 1 and 5, a rendered body of another size, no, a valid or an invalid declared length, both framings, no dribble, one with a remainder and one of more chunks than bytes, with and without reason phrase, HTTP/2, HEAD, 204, two informational statuses and slack; delays of each kind against each kind of global delay; the answers that send no body |
| `jsonpath` | documents with repeated keys, broken and too deep ones, and every path of up to two steps; filters with each comparison, of numbers, strings and others |
| `equality` | expected documents with placeholders and numbers beyond float64, against every small actual one, under both switches |
| `criterion` | criteria of each kind, their combinations and the refused ones, over up to two values |
| `record` | patterns by each part of a request, against requests with repeated, absent, odd and cut parts, raw paths and cookies that are read two ways among them |
| `words` | every pair of texts of up to four letters over two, and two more |

### Why the bounds are enough for what they show

- Two pods are the smallest cluster with a peer, and every property relates one
  pod to one write, or two writers to each other. A third pod is another peer.
- Positions of different vbuckets meet in one place: a scan refused over one of them is
  repeated for all. The runs have one vbucket; the theorems cover any number.
- Two mutations and two increments allow a write that lands between the read of
  the epoch and the scan, and a second publication that meets the first one's CAS.
- One fault at a time reaches every failure path in every position; two failures in a
  row reach no code that one does not, except giving up after `PublishAttempts`,
  which `wm_race` reaches by losing races.
- Three admin requests are two concurrent ones and one that follows on what they left.
  In the run an import's own order between two new ids is not looked at beside another
  client's stubs, and saves have no other client beside them; `ImportsComeOut` and
  `SequencesDistinct` are proved for any number of clients and ids.
- In `scenario` both requests see the same scenario from two pods with
  different candidate lists, one of which enters a state without requiring one.
  The code's three rounds are two in the run (`CasAttempts`): a first loss, and a
  last one.
- In `journal` a queue of one and a cap of two make every way of dropping happen, a
  second worker receives while the first is appending, and a batch of two has an entry
  that lands and one that fails.
- The pure parts are checked over inputs chosen to hold each feature and each pair
  of features that meet in the code. Two elements and one more than two are
  what pairing, repetition and merging can go wrong with.
- `Response` divides 5 bytes in 2 pieces (a remainder) and in 7 (more pieces than
  bytes), and lets the client stall for as long as the slack and for longer.

### Fairness

- `Watermark!FairSpec`: weak fairness of the disk queue, of every request's next store
  call, and of the poller and its loads. The code has a timeout on each call and
  a ticker that never stops while the process lives. Faults, failovers and
  crashes are not fair and are bounded, and no fairness makes a client send a request.
- `Serving!FairSpec`: weak fairness of the poll, the resync, the rebuild under way and
  store calls. Strong fairness for a handler's own update of its snapshot, because it
  waits for `Builder.mu`, which is taken and released by others again and again; Go's
  `sync.Mutex` hands over to the longest waiter once it has waited for a millisecond.
- `Journal!FairSpec`: weak fairness of `run()` on its way up and down and of each
  flusher; strong fairness of a flusher's choice of the closed stop channel, because a
  `select` with several ready cases picks one at random. None of a request: its
  client may never let it end, and `shutdown_timeout` is what shutdown relies on.
- `MCParts!MCSpec`: weak fairness of the file store's poll and of the walk under way. The
  resync is not in the formula, so what follows comes from the polls alone.

### Assumptions that narrow a run

- `Settled` and `ReadYourWrites` are checked where one client at a time names a given
  stub. With two clients on one stub `Settled` is false, which is finding 2.
- `Reflects` excuses a stub that was spliced while its body file could not be read,
  until it is rebuilt or spliced again. See "Also noted" below.
- `acct`, in `Watermark`, forgets that a write was published when `meta::writes` is
  damaged from outside: the positions are gone, and only a resync brings such a
  write to the peers.
- Watermark's safety properties are stated for vbuckets that have not failed over
  (`Stable`). After a failover acknowledged writes may be lost by the server itself,
  and "contains the write" means nothing. That nothing *wedges* after one is
  `Converges`, and `wm_wedge` shows that it can.
- `ConvergesUnlessWedged` excuses a pod that holds a token of a dead history, which is
  finding 1 and nothing else.
- `StopFlushes` excuses requests that outlived `shutdown_timeout` (`outlived`).
- `RecordedAgrees` and `NearestFirst` are about patterns a verification reads and
  entries that say what was asked of them (`Verifiable`, `Faithful`): a path that is
  recorded as it came, where one is asked for, and cookies that both readers read alike
  among it. What they leave out is finding 4.
- `WholeMessage` excuses an informational status, after which nothing says what the
  client is owed, the client that left or stalled for longer than the slack, a
  stub that declares more bytes than it has, and one that declares a length that is
  none on a connection taken for a reason phrase; see "Also noted".
- `PollTrusts` and `EditsTakeEffect` excuse a file whose read failed: only a resync
  reads it again.
- `ResetRestarts` is about documents this pod has noted or the disk holds when
  the reset begins (`known`).

## 4. Findings

Each is a violation run and an entry of `PROJECT.json`.

1. **A pod can stop reloading after a failover** (`wm_wedge`). `scanCollection`
   (`couchbase.go:1013`) retries a refused scan with the pod's own pending positions,
   and those are only dropped by a read that succeeds. If the pod's own pending
   position names the dead history, scan and fallback are both refused, and so is
   every later reload until the pod happens to write that vbucket. `couchbase.go:249`
   says that "nothing wedges".
2. **A splice can undo a newer write for up to the resync interval**
   (`serving_stale_splice`). Between a request's increment and its splice another
   request may replace the stub and a poll may install that with its epoch.
   The splice then puts the older stub back under the store's current epoch, and no
   poll follows. `splice.go:28` says the reload "reconciles concurrent writes".
3. **A rebuild can change which of two stubs wins** (`serving_order`). The
   compilation cache compares the mapping's bytes; the compiled stub it returns
   carries the sequence it was first compiled with. A stub deleted and created again
   with the same mapping between two rebuilds is spliced with the new sequence and
   rebuilt with the old one. `splice.go:32` says serving the spliced stub differently from
   the rebuilt one is what must not happen.

4. **A verification counts other requests than a stub matches** (`verification`).
   `criteria.matches` (`internal/admin/criteria.go:36`) leaves out host, port, scheme,
   basic authentication, path variables and form fields. Where it does look, a journal
   entry keeps a bare `?` that the engine drops, the last of several equal cookies, no
   pair that does not decode, a cookie without `=`, which the engine skips, and bytes that
   are read without their charset; an absent cookie satisfies `doesNotMatch`. The engine
   matches the request line's target while the journal keeps `URL.RequestURI()`
   (`journal.go:260`): a path with a raw byte that net/url would escape (`{`, `}`, `|`, `"`,
   `^`, `#`, or beyond ASCII) is decoded as a whole and escaped again, so that `/a{b}`
   becomes `/a%7Bb%7D` and a `%2F` beside such a byte becomes a slash, although
   `match/request.go:181` says that "for an origin-form target the two agree exactly". A
   stub for `/a{b}` matches it and a verification of the same URL counts nothing.
   `criteria.go:13` says a verification and a stub must not diverge.
5. **A clear can answer 200 and leave an entry** (`journal_clear`). `ClearJournal` lists the
   collection by a range scan that waits for the positions this pod has noted
   (`requireFor`), and `AppendJournal` notes none (`couchbase/journal.go:46`). An entry that
   has landed and is not on disk yet is not listed and not removed.
   `couchbase/journal.go:131` describes exactly that as what removing by key avoids. In
   the query arm it does not happen.

### Also noted

Differences between code and text that no run states, most of them windows the models
contain:

- `mappings.go:46` looks an id up and writes it three store calls later. Two POSTs
  naming one id can both pass, and the second replaces the first, which the
  comment at line 47 wants rejected. `AdminWrites` has the interleaving.
- A stub may have any status from 100 (`stub/response.go:124`). net/http writes an
  informational one other than 101 ahead of the response, whose own status is then 200;
  `Write` returns, and the metric counts, the stub's, although `render.go:65` says that it
  "reports the status it sent". With a reason phrase such a status is written to the
  hijacked connection, and no final response ever follows.
- `splice.go:95`: a body file that cannot be read is left unresolved because "the
  reload within sync_interval revisits it". If the poll of that epoch has already
  happened, no reload follows before the resync.
- `couchbase.go:326` says the incoming side of `fold` is always fresher. A pod that
  folds its own *pending* token of a dead history over a published one of the live
  history makes it worse (`fold`, line 343); it is the way into finding 1 for peers.
- `couchbase.go:1219`: a reset works from a list and removes by key, so it also
  removes a stub made persistent after the list was read; SPEC.md:682 says only an
  explicit delete does.
- `couchbase.go:1308`: saving upserts the documents it read. A stub deleted, edited
  or expired in between comes back as it was, with its old sequence.
- SPEC.md:734 says a scenario reset deletes all scenario documents. One written
  through another pod a moment earlier may not be on disk when the bulk read
  passes it, and this pod has no position for it.
- `scenario.go:29` reads three lost races as "another pod has moved the state". The
  competitor may also have written the same state, and a transition whose gate would hold
  again is given up with it. `LostOnlyToAnother` is what does hold.
- `couchbase/journal.go:23` says the entries of a batch are written concurrently; the
  loop is sequential, so a batch takes up to its length times the timeout within the
  ten seconds of `journal.go:205`.
- The poller shares the context that a signal cancels (`main.go`), so a draining
  pod no longer follows the epoch.
- SPEC.md:190 and `main.go:523` say that with `start_without_store` admin writes answer
  503 until the store connects. The code substitutes a memory store for good
  (`main.go:178`).
- A request that outlives `shutdown_timeout`, or one whose connection was hijacked,
  may be recorded after the last flusher has left: neither stored nor counted.
- `request.go:373` says path variables are cleared for each candidate; they are only for
  one with a URL template. No criterion can tell (`mapping.go:349`), a template can.
- An unmount between `checkRoot` and the scan swaps in an empty snapshot, against the
  comment of `checkRoot`; the next poll mends it once the volume is back.
- The fingerprint prints a file's path without its directory, so a file that moves
  between `mappings/` and `__files/` with its size and time can leave it as it was; and it
  takes a symbolic link's own size and time (`d.Info`), so an edit of what the link points
  to is not noticed before the resync.
- A negative matcher over a body that the journal cut counts too much, while SPEC's
  deviation 16 says that cut bodies count too little.
- Distance 0 may be reported for a stub that did not match: host, port, scheme,
  authentication, path variables and form are not scored.
- `doesNotMatchJsonPath` over an absent cookie matches (`matchers.go:126` says
  otherwise), and `Body.Present` (`subject.go:280`) is not asked by `doesNotMatch`,
  `doesNotContain` and `binaryEqualTo ""` on an empty body.
- `render.go:192` says net/http drops a `Content-Length` that is not a length. The
  hijacked path of a stub with a reason phrase copies it to the wire and writes no other
  (`reason.go:120`), which a client refuses.
- `composeDelay` adds a fixed delay to a sample that `drawDelay` caps at the largest
  duration (`render.go:293`): the sum wraps and nothing is waited for.
- A fault that finds no connection to take panics (`render.go:381`), so `finish` is not
  reached: the request is neither journaled nor counted.

## 5. What TLAPS proves

All theorems hold for every value of the constants that satisfies the module's
`ASSUME`: any number of pods, vbuckets, stubs, requests and faults. The bounds are
guards of some actions; the proofs never use them, so they show the same of
unbounded systems. Some theorems have a hypothesis of their own, in the last column;
what each says and why it is there follows the arguments.

Every safety property that a passing run checks of a module with state is one of
these theorems.

| Module | Theorem | Statement | If |
|---|---|---|---|
| `WatermarkProofs` | `TypeCorrect` | `Spec => []TypeOK` | |
| | `OwnWritesAlwaysSeen` | `Spec => []OwnWritesSeen` | |
| | `PublishedWritesAlwaysSeen` | `Spec => []PublishedWritesSeen` | |
| | `PublishedNeverWeakened` | `Spec => PublishedNeverWeakens` | |
| | `SnapshotOnlyAdvances` | `Spec => SnapshotNeverRegresses` | |
| `AdminProofs` | `AdminTypeCorrect` | `AdminSpec => []AdminTypeOK` | |
| | `SequencesDistinct` | `AdminSpec => []SeqsDistinct` | |
| | `EditsKeepPrecedence` | `AdminSpec => PrecedenceKept` | `ClientsApart`, no save |
| | `ImportsComeOut` | `AdminSpec => []ImportOutcome` | `OnlyOwn`, no expiry |
| `ServingProofs` | `ServingTypes` | `Spec => []TypeOK` | |
| | `AcknowledgedIsServed` | `Spec => []ReadYourWrites` | `ClientsApart`, `FilesApart` |
| | `QuietServesStore` | `Spec => []Settled` | `SplicesApart`, `FilesApart` |
| `ScenarioProofs` | `ScenarioTypeCorrect` | `Spec => []TypeOK` | |
| | `ScenarioIsOneMachine` | `Spec => OneSharedMachine`, the refinement of `ScenarioFlow` | |
| | `AlwaysAnsweredInOneWorld` | `Spec => []AnsweredInOneWorld` | |
| | `OnlyLostToAnother` | `Spec => []LostOnlyToAnother` | |
| | `ResetsRestart` | `Spec => []ResetRestarts` | |
| `FileStoreProofs` | `PollsMayTrust` | `Spec => []PollTrusts` | |
| `JournalProofs` | `WriterIsBag` | `Spec => BoundedBag`, the refinement of `JournalBag` | finitely many `Requests` |
| | `NothingLostUncounted` | `Spec => []LossIsCounted` | |
| | `StopLeavesNothing` | `Spec => []StopFlushes` | |
| | `BatchesHaveStore` | `Spec => []AppendsToOpenStore` | |
| | `ReadyCanServe` | `Spec => []ReadyServes` | |
| | `BytesAreAccounted` | `Spec => []BytesAccounted` | finitely many `Requests` |
| | `JournalTypes` | `Spec => []TypeOK` | finitely many `Requests` |
| `SelectionProofs` | `FirstMatchAnswers` | `MatchSpec => []FirstInOrder` | `CompiledLists` |
| `ResponseProofs` | `PatientClientReadsWhole` | `WriteSpec => []WholeMessage` | `CompiledExchanges` |

**Watermark.** Neither safety property is inductive: a snapshot contains a write because
of what a load carried, which it did because of what was outstanding or published
when the load began, which in turn goes back to the order of a request's calls.
`IInv` follows that chain. `NotedInv`: what a process wrote is in its tokens
until *every* read returns it (`Holds`). `PublishInv`: what a request reports as
published is in `meta::writes`, and nothing is lost from the positions it
carries on the way; its clause for a pending replace is what compare-and-swap buys.
`LoadInv`: a load past `RequireFor` carries every write accounted for by the epoch it
read *before*, and what it has scanned contains them. `EpochInv` and
`PositionsInv` say that epochs and positions come from the past. Each conjunct has
a step lemma that uses the ones before it.

`SnapshotOnlyAdvances` needs `ForwardInv` besides: the load under way was begun at the
snapshot's epoch or at a later one, and has read nothing older than the snapshot has.
That is `Builder.mu`, one load at a time, together with `VisibleGrows`: within one history
what a bulk read can return never shrinks, so a later scan sees at least as much
whatever it required.

**AdminWrites.** Two stubs share no sequence because no two *ids* ever hold one,
anywhere: in the collection, in the copy a request has read, or in the document it
is about to write (`Held`). `OwnerInv` is that, `DrawnInv` bounds what is held by the
counter, and `RecordsInv` says which record a request may have at each call. Deleting,
saving back or re-creating a stub can therefore only ever move a sequence within its id.

`OrderInv`: the sequence a request is about to write was read some calls ago, and
is still the stub's unless the stub is gone (`Knows`), because whatever others do to
it in the meantime removes it. This is where a save would break the argument: it brings
stubs back. `ImportInv`: the batch is applied back to front, so at each call there is a
`Lo` from which on its elements are applied. Of these, each id holds what the policy
makes of its occurrences so far, and ids new to the collection are ordered by their
occurrences (`AppliedFits`). The import judges this by its own copy, which is the
store as long as only its own client touches its ids.

**Serving.** `AckInv` carries `ReadYourWrites` past a rebuild that began before the write
was acknowledged: for each pod that has acknowledged what the store holds of a stub, the
snapshot serves it, and a rebuild under way has not read the stub yet or has read the
same. `PutInv` covers the splice that is still to come: it would install the same, or
nobody has acknowledged yet.

For `Settled`: while every change has been announced (`Still`), a rebuild or a snapshot that
carries the store's epoch has missed nothing (`LoadInv`, `SnapInv`), because it read
its epoch before the documents and every change is followed by an increment. Splices are
the exception, since they keep the epoch of the snapshot they find; `HeldInv` says that
the stub a splice installs is what the store holds, because nobody else writes it
between the splice's store calls and the splice.

**Scenario.** `FlowInv` says that the CAS a request holds still names a document in the
state its stub requires, as long as the CAS matches (`CasInv`), that a client
has landed at most one write (`LandInv`), and that what it is writing comes from one
of its candidates (`PickInv`). Each action then maps to one of `Advance`,
`SetState` and `Restart`, or to a stutter.

The two theorems about answers add what a request remembers. `WorldInv`: while it
is matched it has seen the current state of every scenario, everything in its memo
is a state it has seen, and every candidate it has passed over is ruled out by the
memo alone, because a scenario is read once and never again. The memo, completed
with the current states, is then the one world its answer belongs to; a failed read
leaves no such world, which is why the request must not be answered from one.
`LossInv`: the memo is the scenario's state until the scenario's version moves on,
and the CAS a transition holds belongs to that version; a gate or a CAS that no
longer fits is therefore a later version. It needs `WorldInv`, which knows that the
stub a request was served by is one of its candidates.

`ResetsRestart` is about what a bulk read can miss. `RestartInv`: a document that the reset
knew when it began has been in the starting state since, or is still there and the scan has
found it or will, because once the disk has reached the position that the scan waits for
it has the document. `DiskInv`: the disk is never ahead of the writes, and when it has the
last one it holds the document if there is one.

**FileStore.** `PastInv`: no stamp lies in the future, so a stamp that a fingerprint holds
never comes back to a file that has lost it. `Fits`: bytes read after a file was stated are
what it holds for as long as it keeps that stamp; `WalkInv` has it of a load under way,
except for the file between its two steps, and `SnapInv` of the snapshot. So where a poll
meets the snapshot's stamp it meets what the snapshot has (`SeenInv`). Taking the
fingerprint after the read would break `Fits`.

**Journal.** That an entry is accounted for at every moment, `LossIsCounted`, is
inductive once a batch is known to have landed up to `next` or to have failed
(`FlusherOK`). `StopFlushes` asks why no flusher leaves too early. `FlusherOK` answers
that one leaves only after it has found the queue empty with `stop` closed, and
`StopInv` that a request still running by then has outlived the drain, so nothing that
comes later is owed. `JournalAssumption` says there is at least one worker: with none the
queue would be left. `PhaseInv` is what `run()` has up in each phase, and both
`AppendsToOpenStore` and `ReadyServes` are read off it.

`BytesAccounted` is a sum over the requests that hold bytes. `OnceInv` says that an entry
is in one place at a time, on the queue or in one batch and there once, so that what a
step takes off the sum it takes once. The sum itself is a fold, about which the prover has
no induction; `SumIs` shows that it counts the pairs of a request and a unit of its
size, by a least set on which it would not, and from there on the proof
counts. `TypeOK` asks that `bytes` is never negative, which is the same
account.

`WriterIsBag` takes all of these and two more. `SizeInv`: a flusher that waits for an entry
has room in its batch, so one place of all the batches is free and what is being written is
fewer than their number (`WritingCount` counts the places). `FateInv`: what waits, or stands
in a batch at or behind `next`, has not landed, so `Land` is a first landing and a cleared
entry stays away; and nothing has become of an entry whose request is not over, so `Take`
and `TurnAway` meet a fresh one. The byte cap of `Take` is read off the account: what is in
flight and the entry that comes to it are among what is charged (`LoadFits`). That a batch
without a failure has landed as a whole, which `Settle` asks, is `FlusherOK`. Each of
`Receives`, `Turns`, `Writes` and `Settles` says what one step of a flusher does, and is
one step of the bag. `LossIsCounted` no run checks any more: `BoundedBag` says it, and
more, of the entries that were taken.

**Selection.** Three arguments meet in `SelectInv`. `Before` is a strict total order, so ranks
number the stubs and the snapshot holds each of them once, in order (`Inverts`, `Sorted`).
What a candidate sees in the shared `ParsedRequest` is what it would see in one of its
own (`SameAnswer`): the memo only holds what parsing gives, and path variables of an
earlier candidate are asked for only by stubs that bind their own first. And every stub
that answers is filed in a list the lookup takes (`Filed`), where the merge has passed
only positions that do not answer (`PassedInv`).

**Response.** `ReplyInv` follows two sums. The bytes on the wire are the pieces written times their
size, which the plan keeps within the body; and since the deadline was set the clock has
moved by the pieces written times the pause between them, which the plan keeps within
the dribble's duration, and by what the client has stalled. So a write past the
deadline means a client that stalled for longer than the slack.

### The hypotheses

Each is an `ASSUME` of the instance module whose run checks the property, except those
of `Journal`, which its cfg's constants meet.

- `ClientsApart`: no two requests name one stub. Of two clients that
  delete and create the same stub, neither edits it, yet between them its place changes.
- `OnlyOwn`: nor does anyone empty, save or prune the collection. An import cannot leave
  what its policy promises if another request removes its elements. Expiry is excluded
  for the same reason; bulk removals and expiry are in `EditsKeepPrecedence`.
- `SplicesApart`: `OnlyOwn`, or one request at a time, for `Settled`. Without it `Settled`
  is false: that is finding 2.
- `FilesApart`: no body file changes between a splice's read of it and its swap. The file is
  read before the mutex is taken, so another write of the file can be overtaken.
- Finitely many requests, so that the sum of their bytes is one.
- `CompiledLists`: a stub has one kind of URL criterion and asks for path variables only with a
  template; `mapping.go:349` refuses the rest.
- `CompiledExchanges`: sizes and pauses that are not negative, as `parseDelays` and
  `config.go:404` demand. It leaves out a dribble that lasts longer than a `Duration`
  can hold, 292 years.

### Model-checked only

- Liveness: `ConvergesUnlessWedged`, `Serving!Converges`, `EntriesLeave`,
  `StopsInTheEnd`, `EditsTakeEffect`. TLAPS has no rules for fairness.
- `ScanIsEval`, `EvalSelects`, `JsonEqualityExact`, `RepeatsDistribute`, `RecordedAgrees`,
  `NearestFirst` and `DistanceIsLeast`, of `JsonPath`, `Matchers` and `Verification`: these
  are about what recursive operators compute for every input, which takes an
  induction over data that the prover does not have.

## 6. Not modelled

- Regular expressions, templates, dates, XML, multipart parsing, JSON Schema, and the
  validation of mapping documents: functions of text whose difficulty is in the data.
  Where a modelled part uses one, the model has a set of texts that pass.
- The parsing of a JSONPath, of numbers, of query strings, cookies and charsets; the
  models start from what was parsed.
- The Couchbase server beyond what the driver sees of it: one copy of a vbucket in
  memory, one on disk, failover as a jump to a shorter history. Durability
  settings and rollback of a *reader* are outside.
- The in-memory store's internals: one mutex around maps.
- HTTP beyond the framing of a body, authentication, configuration, metrics, tracing, the UI.
- `Builder`'s "mark dirty and run once more" is a mutex in the code: rebuilds queue
  behind each other. The model has the mutex.

## 7. Plan

Every part whose state or algorithm this development set out to model is modelled.
What is left, in this order:

1. Proofs: what holds of `Settled` where clients share stubs, namely for all
   stubs but those that are being spliced; `ReadYourWrites` for a stub whose body file is
   written by another client; whether `OrderAgrees` holds while no stub is created again with
   the mapping it had.
2. Compositions: `Selection` under `Serving`'s splices, what a spliced index answers
   being what a rebuilt one answers; `Journal` with `Verification`, a verification
   that reads while a flush is landing.
3. The SDK's polling helpers (`verify`, `waitForStub`) and the UI's generation guard.
