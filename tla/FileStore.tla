----------------------------- MODULE FileStore -----------------------------
(***************************************************************************)
(* The file driver under the poller: a WireMock project directory that     *)
(* others edit while it is walked.                                         *)
(*                                                                         *)
(* There is no counter to announce a change.  The epoch of the tree is a   *)
(* fingerprint of what stat says of every file, a poll walks the tree to   *)
(* compare it with the fingerprint of the snapshot being served, and a     *)
(* load takes it on the walk that reads the files.  No walk is atomic: a   *)
(* file is listed, then stated, then read, and may change at each point.   *)
(* The hash is taken as injective.  A file's line in it names it within    *)
(* its own directory, which tells files apart as long as no body file is   *)
(* named like a mapping: FileAssumption.  WalkDir's lexical order is left  *)
(* open.                                                                   *)
(***************************************************************************)
EXTENDS Integers

CONSTANTS
  Mappings,   \* the files under mappings/
  Bodies,     \* those under __files/
  Contents,   \* what a file may hold
  MaxEdits,   \* bound: edits of the tree
  MaxFaults   \* bound: reads that fail

Files == Mappings \cup Bodies

\* The state of a path: no file, or content and the (size, mtime) stat gives.
Absent     == [content |-> "absent", stamp |-> 0]
Unreadable == "unreadable"

ASSUME FileAssumption ==
  /\ Mappings \cap Bodies = {}
  /\ "absent" \notin Contents /\ Unreadable \notin Contents
  /\ MaxEdits \in Nat /\ MaxFaults \in Nat

VARIABLES
  root,    \* the volume is mounted
  tree,    \* per path, its state
  edits,   \* how often the tree was edited; also the clock mtime is read from
  walk,    \* the walk under way, of a poll or of a load
  snap,    \* the served snapshot: its fingerprint, and what each path gave
  faults

vars == <<root, tree, edits, walk, snap, faults>>

NoStamps == [f \in Files |-> 0]
NoBytes  == [f \in Files |-> "absent"]

\* todo is what is listed and not stated yet, open the file a load is about to
\* read; print is what the hash is fed with; got, what a load has read; seen, what a
\* path held when it was stated (history: nothing in the code looks at it).
IdleWalk == [pc |-> "idle", load |-> FALSE, dir |-> "mappings", todo |-> {}, open |-> {},
             print |-> NoStamps, got |-> NoBytes, seen |-> NoBytes]

\* Open and NewEngine: nothing served, under the zero epoch.
Init ==
  /\ root = TRUE
  /\ tree \in [Files -> {Absent} \cup [content : Contents, stamp : {1}]]
  /\ edits = 1
  /\ walk = IdleWalk
  /\ snap = [print |-> NoStamps, got |-> NoBytes]
  /\ faults = 0

Fault == faults < MaxFaults /\ faults' = faults + 1

-----------------------------------------------------------------------------
(* The project's owner (external).                                         *)

\* A file is written: its size or its modification time moves, and d.Info sees
\* it.  (Behind a symbolic link it would not: Info is an lstat of the link.)
Edit(f) ==
  /\ root /\ edits <= MaxEdits
  /\ \E c \in Contents : tree' = [tree EXCEPT ![f] = [content |-> c, stamp |-> edits + 1]]
  /\ edits' = edits + 1
  /\ UNCHANGED <<root, walk, snap, faults>>

Delete(f) ==
  /\ root /\ edits <= MaxEdits
  /\ tree[f] # Absent
  /\ tree' = [tree EXCEPT ![f] = Absent]
  /\ edits' = edits + 1
  /\ UNCHANGED <<root, walk, snap, faults>>

\* The volume goes away under the pod, and comes back.
Unmount ==
  /\ root /\ Fault
  /\ root' = FALSE
  /\ UNCHANGED <<tree, edits, walk, snap>>

Mount ==
  /\ ~root
  /\ root' = TRUE
  /\ UNCHANGED <<tree, edits, walk, snap, faults>>

-----------------------------------------------------------------------------
(* The walk (Store.checkRoot, Store.scan).                                 *)

Exists(f) == root /\ tree[f] # Absent

Begin(load) == [IdleWalk EXCEPT !.pc = "list", !.load = load]

\* checkRoot: without the root neither a poll nor a load goes on.
BeginPoll ==
  /\ walk.pc = "idle" /\ root
  /\ walk' = Begin(FALSE)
  /\ UNCHANGED <<root, tree, edits, snap, faults>>

\* The resync ticker and the admin's own rebuilds do not ask for the epoch.
BeginLoad ==
  /\ walk.pc = "idle" /\ root
  /\ walk' = Begin(TRUE)
  /\ UNCHANGED <<root, tree, edits, snap, faults>>

\* WalkDir lists a directory before it hands out its entries; one that is not
\* there reads as empty.
List ==
  /\ walk.pc = "list"
  /\ LET here == IF walk.dir = "mappings" THEN Mappings ELSE Bodies
     IN walk' = [walk EXCEPT !.pc = "stat", !.todo = {f \in here : Exists(f)}]
  /\ UNCHANGED <<root, tree, edits, snap, faults>>

\* d.Info() feeds the hash, and only then is the file read, if at all.  A file
\* that went away since it was listed fails the whole walk.
Stat ==
  /\ walk.pc = "stat"
  /\ \E f \in walk.todo :
       LET held == [walk EXCEPT !.todo = @ \ {f}, !.seen[f] = tree[f].content, !.print[f] = tree[f].stamp]
       IN walk' = IF ~Exists(f) THEN IdleWalk
                  ELSE IF walk.load THEN [held EXCEPT !.pc = "read", !.open = {f}]
                  ELSE held
  /\ UNCHANGED <<root, tree, edits, snap, faults>>

\* os.ReadFile: a mapping that cannot be read is carried through to be
\* quarantined, a body file that cannot be read is left out.
Read ==
  /\ walk.pc = "read"
  /\ \E f \in walk.open :
       LET Gives(bytes) == walk' = [walk EXCEPT !.pc = "stat", !.open = {}, !.got[f] = bytes]
       IN \/ Exists(f) /\ Gives(tree[f].content) /\ UNCHANGED faults
          \/ ~Exists(f) /\ Gives(Unreadable) /\ UNCHANGED faults
          \/ Exists(f) /\ Fault /\ Gives(Unreadable)
  /\ UNCHANGED <<root, tree, edits, snap>>

\* Mutant of NextDir: the fingerprint leaves the body files out.
NextDirPollsMappings ==
  /\ walk.pc = "stat" /\ walk.todo = {} /\ walk.dir = "mappings"
  /\ walk' = IF walk.load THEN [walk EXCEPT !.pc = "list", !.dir = "files"]
             ELSE [walk EXCEPT !.dir = "files",
                     !.print = [f \in Files |-> IF f \in Bodies THEN snap.print[f] ELSE @[f]]]
  /\ UNCHANGED <<root, tree, edits, snap, faults>>

NextDir ==
  /\ walk.pc = "stat" /\ walk.todo = {} /\ walk.dir = "mappings"
  /\ walk' = [walk EXCEPT !.pc = "list", !.dir = "files"]
  /\ UNCHANGED <<root, tree, edits, snap, faults>>

Walked == walk.pc = "stat" /\ walk.todo = {} /\ walk.dir = "files"

\* pollOnce: a fingerprint that moved starts a load, which checks the root
\* again; one that has not leaves the snapshot alone.
EndPoll ==
  /\ Walked /\ ~walk.load
  /\ walk' = IF walk.print = snap.print \/ ~root THEN IdleWalk ELSE Begin(TRUE)
  /\ UNCHANGED <<root, tree, edits, snap, faults>>

\* Mutant of EndLoad: the fingerprint is taken once the files have been read.
EndLoadStampsLate ==
  /\ Walked /\ walk.load
  /\ snap' = [print |-> [f \in Files |-> tree[f].stamp], got |-> walk.got]
  /\ walk' = IdleWalk
  /\ UNCHANGED <<root, tree, edits, faults>>

\* LoadAll returns and the rebuild swaps.
EndLoad ==
  /\ Walked /\ walk.load
  /\ snap' = [print |-> walk.print, got |-> walk.got]
  /\ walk' = IdleWalk
  /\ UNCHANGED <<root, tree, edits, faults>>

-----------------------------------------------------------------------------
Owner == (\E f \in Files : Edit(f) \/ Delete(f)) \/ Unmount \/ Mount

Walking == List \/ Stat \/ Read \/ NextDir \/ EndPoll \/ EndLoad

Next == Owner \/ BeginPoll \/ BeginLoad \/ Walking

Spec == Init /\ [][Next]_vars

\* The poller's ticker goes on and a walk ends.  Resyncs are left out: what
\* follows must come from the polls alone.
FairSpec == Spec /\ WF_vars(BeginPoll) /\ WF_vars(Walking)

-----------------------------------------------------------------------------
\* "The other ordering would record the new fingerprint against the old bytes
\* and never look again" (Store.scan): when a poll finds the fingerprint it
\* knows and leaves the snapshot alone, every file is served as it was when
\* that poll passed it, those apart that could not be read.
PollTrusts ==
  (Walked /\ ~walk.load /\ walk.print = snap.print)
    => \A f \in Files : snap.got[f] \in {walk.seen[f], Unreadable}

\* Store.Epoch: an edit takes effect within sync_interval instead of at the
\* next resync.  Whatever was edited, deleted, created or unmounted during
\* whichever walk, polls alone bring the snapshot to the tree.
EditsTakeEffect ==
  <>[](root => \A f \in Files : snap.got[f] \in {tree[f].content, Unreadable})
=============================================================================
