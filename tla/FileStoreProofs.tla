-------------------------- MODULE FileStoreProofs --------------------------
(* A poll that finds the fingerprint it knows may leave the snapshot       *)
(* alone, for any number of files, edits and failed reads: FileStore's     *)
(* PollTrusts.                                                             *)
EXTENDS FileStore, TLAPS

Bytes == Contents \cup {"absent", Unreadable}
Prints == [Files -> Nat]
Held == [Files -> Bytes]
PathState == {Absent} \cup [content : Contents, stamp : Nat \ {0}]
WalkState ==
  [pc : {"idle", "list", "stat", "read"}, load : BOOLEAN, dir : {"mappings", "files"},
   todo : SUBSET Files, open : SUBSET Files, print : Prints, got : Held, seen : Held]

TypeInv ==
  /\ edits \in Nat
  /\ tree \in [Files -> PathState]
  /\ walk \in WalkState
  /\ snap \in [print : Prints, got : Held]

\* No stamp is of the future, so none that a fingerprint holds comes back.
PastInv ==
  \A f \in Files : tree[f].stamp <= edits /\ walk.print[f] <= edits /\ snap.print[f] <= edits

\* Bytes read after a file was stated: while it keeps that stamp it holds them.
Fits(f, print, bytes) ==
  \/ print = 0 /\ bytes = "absent"
  \/ print > 0 /\ (tree[f].stamp = print => bytes \in {tree[f].content, Unreadable})

SnapInv == \A f \in Files : Fits(f, snap.print[f], snap.got[f])

\* A load's fingerprint fits what it has read, except for the file it has stated
\* and is about to read.
WalkInv ==
  /\ walk.pc # "read" => walk.open = {}
  /\ \A f, g \in walk.open : f = g /\ walk.print[f] > 0
  /\ walk.load => \A f \in Files \ walk.open : Fits(f, walk.print[f], walk.got[f])

\* Where the walk has met the stamp of the snapshot, the snapshot has what the
\* file held when the walk passed it.
SeenInv ==
  \A f \in Files :
    /\ walk.print[f] = 0 => walk.seen[f] = "absent"
    /\ walk.print[f] = snap.print[f] => snap.got[f] \in {walk.seen[f], Unreadable}

IInv == TypeInv /\ PastInv /\ SnapInv /\ WalkInv /\ SeenInv

-----------------------------------------------------------------------------
\* An idle walk is well typed, and so is one that begins.
LEMMA IdleTyped ==
  /\ IdleWalk \in WalkState
  /\ \A l \in BOOLEAN : Begin(l) \in WalkState
  /\ NoBytes \in Held /\ NoStamps \in Prints
  BY DEF IdleWalk, Begin, WalkState, NoBytes, NoStamps, Held, Prints, Bytes

\* A path that is there has a stamp and contents.
LEMMA PathTyped ==
  ASSUME TypeInv, NEW f \in Files
  PROVE  /\ tree[f].stamp \in Nat
         /\ tree[f].content \in Bytes
         /\ tree[f] # Absent => tree[f].stamp > 0
  <1>1. tree[f] \in PathState
    BY DEF TypeInv
  <1>2. CASE tree[f] = Absent
    BY <1>2 DEF Absent, Bytes
  <1>3. CASE tree[f] \in [content : Contents, stamp : Nat \ {0}]
    BY <1>3 DEF Bytes
  <1> QED
    BY <1>1, <1>2, <1>3 DEF PathState

\* Nothing is served and nothing is under way.
LEMMA InitInv == Init => IInv
  <1> SUFFICES ASSUME Init PROVE IInv
    OBVIOUS
  <1>1. TypeInv
    <2>1. tree \in [Files -> PathState]
      BY DEF Init, PathState
    <2> QED
      BY <2>1, IdleTyped DEF Init, TypeInv
  <1>2. ASSUME NEW f \in Files
        PROVE  /\ tree[f].stamp <= 1
               /\ walk.print[f] = 0 /\ walk.got[f] = "absent" /\ walk.seen[f] = "absent"
               /\ snap.print[f] = 0 /\ snap.got[f] = "absent"
    <2>1. tree[f] \in {Absent} \cup [content : Contents, stamp : {1}]
      BY DEF Init
    <2>2. tree[f].stamp <= 1
      BY <2>1 DEF Absent
    <2> QED
      BY <2>2 DEF Init, IdleWalk, NoStamps, NoBytes
  <1>3. PastInv
    BY <1>2 DEF PastInv, Init
  <1>4. SnapInv /\ SeenInv
    BY <1>2 DEF SnapInv, SeenInv, Fits
  <1>5. WalkInv
    BY DEF WalkInv, Init, IdleWalk
  <1> QED
    BY <1>1, <1>3, <1>4, <1>5 DEF IInv

-----------------------------------------------------------------------------
\* The owner touches neither the walk nor the snapshot, and a file that changes
\* takes a stamp no fingerprint has, or none.
LEMMA OwnerKeeps ==
  ASSUME IInv, Owner PROVE IInv'
  <1> USE DEF IInv
  <1>1. ASSUME NEW f \in Files, NEW new \in PathState,
               new.stamp = 0 \/ new.stamp = edits + 1,
               tree' = [tree EXCEPT ![f] = new], edits' = edits + 1, UNCHANGED <<walk, snap>>
        PROVE  IInv'
    <2>1. TypeInv'
      BY <1>1 DEF TypeInv
    <2>2. ASSUME NEW g \in Files
          PROVE  /\ tree'[g] = tree[g] \/ tree'[g].stamp = 0 \/ tree'[g].stamp = edits + 1
                 /\ walk.print[g] \in Nat /\ snap.print[g] \in Nat /\ tree[g].stamp \in Nat
                 /\ tree[g].stamp <= edits /\ walk.print[g] <= edits /\ snap.print[g] <= edits
      <3>1. walk.print \in Prints /\ snap.print \in Prints
        BY DEF TypeInv, WalkState
      <3>2. tree'[g] = tree[g] \/ tree'[g] = new
        BY <1>1 DEF TypeInv
      <3> QED
        BY <1>1, <3>1, <3>2, PathTyped DEF Prints, PastInv
    <2>3. PastInv'
      BY <1>1, <2>2 DEF PastInv, TypeInv
    <2>4. ASSUME NEW g \in Files, NEW p \in Nat, NEW b, p <= edits, Fits(g, p, b)
          PROVE  Fits(g, p, b)'
      BY <2>4, <2>2 DEF Fits, TypeInv
    <2>5. SnapInv'
      <3> SUFFICES ASSUME NEW g \in Files PROVE Fits(g, snap.print[g], snap.got[g])'
        BY DEF SnapInv
      <3>1. Fits(g, snap.print[g], snap.got[g])
        BY DEF SnapInv
      <3> QED
        BY <1>1, <2>2, <2>4, <3>1
    <2>6. WalkInv'
      <3>1. ASSUME walk.load, NEW g \in Files \ walk.open PROVE Fits(g, walk.print[g], walk.got[g])'
        <4>1. Fits(g, walk.print[g], walk.got[g])
          BY <3>1 DEF WalkInv
        <4> QED
          BY <1>1, <2>2, <2>4, <4>1
      <3> QED
        BY <1>1, <3>1 DEF WalkInv
    <2>7. SeenInv'
      BY <1>1 DEF SeenInv
    <2> QED
      BY <2>1, <2>3, <2>5, <2>6, <2>7
  <1>2. ASSUME NEW f \in Files, Edit(f) PROVE IInv'
    <2>1. PICK c \in Contents : tree' = [tree EXCEPT ![f] = [content |-> c, stamp |-> edits + 1]]
      BY <1>2 DEF Edit
    <2>2. [content |-> c, stamp |-> edits + 1] \in PathState
      BY DEF PathState, TypeInv
    <2> QED
      BY <1>1, <1>2, <2>1, <2>2 DEF Edit
  <1>3. ASSUME NEW f \in Files, Delete(f) PROVE IInv'
    <2>1. Absent \in PathState /\ Absent.stamp = 0
      BY DEF PathState, Absent
    <2> QED
      BY <1>1, <1>3, <2>1 DEF Delete
  <1>4. ASSUME Unmount \/ Mount PROVE IInv'
    BY <1>4 DEF Unmount, Mount, TypeInv, PastInv, SnapInv, WalkInv, SeenInv, Fits
  <1> QED
    BY <1>2, <1>3, <1>4 DEF Owner

\* A walk that starts or is given up knows nothing.
LEMMA FreshKeeps ==
  ASSUME IInv, NEW l \in BOOLEAN, walk' = Begin(l) \/ walk' = IdleWalk, UNCHANGED <<tree, edits, snap>>
  PROVE  IInv'
  <1> USE DEF IInv
  <1>1. TypeInv'
    BY IdleTyped DEF TypeInv
  <1>2. /\ walk'.open = {} /\ walk'.print = NoStamps
        /\ walk'.got = NoBytes /\ walk'.seen = NoBytes
    <2>1. CASE walk' = IdleWalk
      BY <2>1 DEF IdleWalk
    <2>2. CASE walk' = Begin(l)
      BY <2>2 DEF Begin, IdleWalk
    <2> QED
      BY <2>1, <2>2
  <1>3. \A f \in Files : NoStamps[f] = 0 /\ NoBytes[f] = "absent"
    BY DEF NoStamps, NoBytes
  <1>4. PastInv'
    BY <1>2, <1>3 DEF PastInv, TypeInv
  <1>5. SnapInv'
    BY DEF SnapInv, Fits
  <1>6. WalkInv'
    BY <1>2, <1>3 DEF WalkInv, Fits
  <1>7. SeenInv'
    BY <1>2, <1>3 DEF SeenInv, SnapInv, Fits
  <1> QED
    BY <1>1, <1>4, <1>5, <1>6, <1>7

\* Only what a directory lists is still to do.
LEMMA ListKeeps ==
  ASSUME IInv, List \/ NextDir PROVE IInv'
  <1> USE DEF IInv
  <1>1. walk'.print = walk.print /\ walk'.got = walk.got /\ walk'.seen = walk.seen
        /\ walk'.load = walk.load /\ walk'.open = walk.open
        /\ walk'.pc # "read" /\ walk.pc # "read"
    BY DEF List, NextDir, TypeInv, WalkState
  <1>2. walk' \in WalkState
    <2>1. \A g : {f \in Mappings : Exists(f)} \subseteq Files /\ {f \in Bodies : Exists(f)} \subseteq Files
      BY DEF Files
    <2>2. CASE List
      BY <2>1, <2>2 DEF List, TypeInv, WalkState
    <2>3. CASE NextDir
      BY <2>3 DEF NextDir, TypeInv, WalkState
    <2> QED
      BY <2>2, <2>3
  <1>3. UNCHANGED <<tree, edits, snap>>
    BY DEF List, NextDir
  <1> QED
    BY <1>1, <1>2, <1>3 DEF TypeInv, PastInv, SnapInv, WalkInv, SeenInv, Fits

\* The stamp is taken before the file is read: a poll that meets the snapshot's
\* stamp meets what the snapshot has.
LEMMA StatKeeps ==
  ASSUME IInv, Stat PROVE IInv'
  <1> USE DEF IInv
  <1>1. PICK f \in walk.todo :
          LET held == [walk EXCEPT !.todo = @ \ {f}, !.seen[f] = tree[f].content, !.print[f] = tree[f].stamp]
          IN walk' = IF ~Exists(f) THEN IdleWalk
                     ELSE IF walk.load THEN [held EXCEPT !.pc = "read", !.open = {f}] ELSE held
    BY DEF Stat
  <1>2. f \in Files /\ walk.pc = "stat" /\ UNCHANGED <<tree, edits, snap>>
    BY DEF Stat, TypeInv, WalkState
  <1>3. CASE ~Exists(f)
    BY <1>1, <1>2, <1>3, FreshKeeps
  <1>4. CASE Exists(f)
    <2>1. tree[f].stamp \in Nat /\ tree[f].stamp > 0 /\ tree[f].content \in Bytes
      BY <1>2, <1>4, PathTyped DEF Exists
    <2>2. walk.print \in Prints /\ walk.seen \in Held /\ walk.got \in Held /\ snap.print \in Prints
      BY DEF TypeInv, WalkState
    <2>3. /\ walk'.print = [walk.print EXCEPT ![f] = tree[f].stamp]
          /\ walk'.seen = [walk.seen EXCEPT ![f] = tree[f].content]
          /\ walk'.got = walk.got /\ walk'.load = walk.load /\ walk'.dir = walk.dir
          /\ walk'.todo = walk.todo \ {f}
          /\ IF walk.load THEN walk'.pc = "read" /\ walk'.open = {f}
             ELSE walk'.pc = walk.pc /\ walk'.open = walk.open
      BY <1>1, <1>4 DEF TypeInv, WalkState
    <2>4. walk' \in WalkState
      <3>1. [walk.print EXCEPT ![f] = tree[f].stamp] \in Prints
        BY <2>1, <2>2 DEF Prints
      <3>2. [walk.seen EXCEPT ![f] = tree[f].content] \in Held
        BY <2>1, <2>2 DEF Held
      <3> HIDE DEF Exists
      <3> QED
        BY <1>1, <1>2, <1>4, <3>1, <3>2 DEF TypeInv, WalkState
    <2>5. TypeInv'
      BY <1>2, <2>4 DEF TypeInv
    <2>6. \A g \in Files : g # f => walk'.print[g] = walk.print[g] /\ walk'.seen[g] = walk.seen[g]
      BY <2>2, <2>3 DEF Prints, Held
    <2>7. walk'.print[f] = tree[f].stamp /\ walk'.seen[f] = tree[f].content
      BY <1>2, <2>2, <2>3 DEF Prints, Held
    <2>8. PastInv'
      BY <1>2, <2>6, <2>7 DEF PastInv
    <2>9. SnapInv'
      BY <1>2 DEF SnapInv, Fits
    <2>10. WalkInv'
      BY <1>2, <2>1, <2>3, <2>6, <2>7 DEF WalkInv, Fits
    <2>11. SeenInv'
      BY <1>2, <2>1, <2>6, <2>7 DEF SeenInv, SnapInv, Fits
    <2> QED
      BY <2>5, <2>8, <2>9, <2>10, <2>11
  <1> QED
    BY <1>3, <1>4

\* What is read is what the file holds now, under the stamp it had before.
LEMMA ReadKeeps ==
  ASSUME IInv, Read PROVE IInv'
  <1> USE DEF IInv
  <1>1. PICK f \in walk.open, b \in Bytes :
          /\ walk' = [walk EXCEPT !.pc = "stat", !.open = {}, !.got[f] = b]
          /\ b = tree[f].content \/ b = Unreadable
    <2>1. ASSUME NEW g \in walk.open PROVE g \in Files /\ tree[g].content \in Bytes /\ Unreadable \in Bytes
      BY PathTyped DEF TypeInv, WalkState, Bytes
    <2> QED
      BY <2>1 DEF Read
  <1>2. f \in Files /\ UNCHANGED <<tree, edits, snap>>
    BY DEF Read, TypeInv, WalkState
  <1>3. walk.got \in Held /\ walk.open = walk.open \cup {f}
    BY DEF TypeInv, WalkState
  <1>4. /\ walk'.print = walk.print /\ walk'.seen = walk.seen /\ walk'.load = walk.load
        /\ walk'.open = {} /\ walk'.got = [walk.got EXCEPT ![f] = b]
    BY <1>1 DEF TypeInv, WalkState
  <1>5. walk' \in WalkState
    <2>1. [walk.got EXCEPT ![f] = b] \in Held
      BY <1>3 DEF Held
    <2> QED
      BY <1>1, <2>1 DEF TypeInv, WalkState
  <1>6. TypeInv' /\ PastInv' /\ SnapInv' /\ SeenInv'
    BY <1>2, <1>4, <1>5 DEF TypeInv, PastInv, SnapInv, SeenInv, Fits
  <1>7. WalkInv'
    <2> SUFFICES ASSUME walk.load, NEW g \in Files PROVE Fits(g, walk.print[g], walk'.got[g])
      BY <1>2, <1>4 DEF WalkInv, Fits
    <2>1. CASE g = f
      BY <1>1, <1>2, <1>3, <2>1, <1>4 DEF WalkInv, Fits, Held
    <2>2. CASE g # f
      <3>1. walk'.got[g] = walk.got[g]
        BY <1>3, <1>4, <2>2 DEF Held
      <3>2. g \notin walk.open
        BY <2>2 DEF WalkInv
      <3> QED
        BY <3>1, <3>2 DEF WalkInv
    <2> QED
      BY <2>1, <2>2
  <1> QED
    BY <1>6, <1>7

\* The load swaps in what it has read, under what it has stated.
LEMMA EndKeeps ==
  ASSUME IInv, EndPoll \/ EndLoad PROVE IInv'
  <1> USE DEF IInv
  <1>1. CASE EndPoll
    <2>1. walk' = IdleWalk \/ walk' = Begin(TRUE)
      BY <1>1 DEF EndPoll
    <2> QED
      BY <1>1, <2>1, FreshKeeps DEF EndPoll
  <1>2. CASE EndLoad
    <2>1. /\ walk' = IdleWalk /\ walk.pc = "stat" /\ walk.load
          /\ snap' = [print |-> walk.print, got |-> walk.got] /\ UNCHANGED <<tree, edits>>
      BY <1>2 DEF EndLoad, Walked
    <2>2. walk.open = {}
      BY <2>1 DEF WalkInv
    <2>3. \A f \in Files : Fits(f, walk.print[f], walk.got[f])
      BY <2>1, <2>2 DEF WalkInv
    <2>4. /\ walk'.open = {} /\ walk'.load = FALSE
          /\ \A f \in Files : walk'.print[f] = 0 /\ walk'.seen[f] = "absent"
      BY <2>1 DEF IdleWalk, NoStamps, NoBytes
    <2>5. TypeInv'
      BY <2>1, IdleTyped DEF TypeInv, WalkState
    <2>6. PastInv'
      BY <2>1, <2>4 DEF PastInv, TypeInv
    <2>7. SnapInv'
      BY <2>1, <2>3 DEF SnapInv, Fits
    <2>8. WalkInv'
      BY <2>4 DEF WalkInv
    <2>9. SeenInv'
      BY <2>1, <2>3, <2>4 DEF SeenInv, Fits
    <2> QED
      BY <2>5, <2>6, <2>7, <2>8, <2>9
  <1> QED
    BY <1>1, <1>2

LEMMA NextKeeps == IInv /\ [Next]_vars => IInv'
  <1> SUFFICES ASSUME IInv, [Next]_vars PROVE IInv'
    OBVIOUS
  <1>1. CASE Owner
    BY <1>1, OwnerKeeps
  <1>2. CASE BeginPoll \/ BeginLoad
    <2>1. walk' = Begin(FALSE) \/ walk' = Begin(TRUE)
      BY <1>2 DEF BeginPoll, BeginLoad
    <2> QED
      BY <1>2, <2>1, FreshKeeps DEF BeginPoll, BeginLoad
  <1>3. CASE List \/ NextDir
    BY <1>3, ListKeeps
  <1>4. CASE Stat
    BY <1>4, StatKeeps
  <1>5. CASE Read
    BY <1>5, ReadKeeps
  <1>6. CASE EndPoll \/ EndLoad
    BY <1>6, EndKeeps
  <1>7. CASE UNCHANGED vars
    BY <1>7 DEF vars, IInv, TypeInv, PastInv, SnapInv, WalkInv, SeenInv, Fits
  <1> QED
    BY <1>1, <1>2, <1>3, <1>4, <1>5, <1>6, <1>7 DEF Next, Walking

\* SeenInv asks at every moment of a walk what PollTrusts asks at its end.
LEMMA Trusted == IInv => PollTrusts
  <1> SUFFICES ASSUME IInv, walk.print = snap.print, NEW f \in Files
               PROVE  snap.got[f] \in {walk.seen[f], Unreadable}
    BY DEF PollTrusts
  <1> QED
    BY DEF IInv, SeenInv

\* Store.scan, Store.LoadAll: when a poll finds the fingerprint it knows, every
\* file is served as it was when that poll passed it, those apart that could
\* not be read - for any number of files and edits, whenever they come.
THEOREM PollsMayTrust == Spec => []PollTrusts
  <1>1. Spec => []IInv
    BY InitInv, NextKeeps, PTL DEF Spec
  <1> QED
    BY <1>1, Trusted, PTL
=============================================================================
