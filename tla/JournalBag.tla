----------------------------- MODULE JournalBag -----------------------------
(***************************************************************************)
(* What the journal promises, whatever flushers, batches and failures lie  *)
(* between a request and the collection.                                   *)
(*                                                                         *)
(* An entry is taken while the queue has room, under both caps, or is      *)
(* turned away and counted.  It is then written at most once, so one that  *)
(* was cleared never comes back, and the pod lets go of it only when it    *)
(* has been written or is counted.  What the process holds dies with it;   *)
(* what has landed stays until somebody removes it.                        *)
(***************************************************************************)
EXTENDS Naturals, FiniteSets, Functions

CONSTANTS
  Requests,  \* each leaves at most one entry
  Room,      \* entries that may wait
  Hands,     \* entries that may be being written
  ByteCap    \* cap on the bytes of both; 0: no cap

VARIABLES
  alive,     \* the process is there
  sizes,     \* bytes of each entry
  waiting,   \* entries taken and waiting
  writing,   \* entries some flusher has
  kept,      \* entries in the collection
  landed,    \* entries that were in it at some time
  counted    \* entries counted as dropped

bag == <<alive, sizes, waiting, writing, kept, landed, counted>>

BagInit ==
  /\ alive = TRUE
  /\ sizes \in [Requests -> Nat]
  /\ waiting = {} /\ writing = {}
  /\ kept = {} /\ landed = {} /\ counted = {}

Load(held) == SumFunction([e \in Requests |-> IF e \in held THEN sizes[e] ELSE 0])

\* Nothing has become of the entry yet.
Fresh(e) == e \notin waiting \cup writing \cup landed \cup counted

\* An entry is taken, within both caps ...
Take(e) ==
  /\ alive /\ Fresh(e)
  /\ Cardinality(waiting) < Room
  /\ ByteCap > 0 => Load(waiting \cup writing \cup {e}) <= ByteCap
  /\ waiting' = waiting \cup {e}
  /\ UNCHANGED <<alive, sizes, writing, kept, landed, counted>>

\* ... or is turned away, and counted.
TurnAway(e) ==
  /\ alive /\ Fresh(e)
  /\ counted' = counted \cup {e}
  /\ UNCHANGED <<alive, sizes, waiting, writing, kept, landed>>

\* A flusher takes it up.
PickUp(e) ==
  /\ alive /\ e \in waiting
  /\ Cardinality(writing) < Hands
  /\ waiting' = waiting \ {e}
  /\ writing' = writing \cup {e}
  /\ UNCHANGED <<alive, sizes, kept, landed, counted>>

\* It lands, once.
Land(e) ==
  /\ alive /\ e \in writing \ landed
  /\ kept' = kept \cup {e} /\ landed' = landed \cup {e}
  /\ UNCHANGED <<alive, sizes, waiting, writing, counted>>

\* The pod lets go of a batch: all of it has landed, or all of it is counted.
Settle(batch) ==
  /\ alive /\ batch \subseteq writing
  /\ writing' = writing \ batch
  /\ \/ batch \subseteq landed /\ UNCHANGED counted
     \/ counted' = counted \cup batch
  /\ UNCHANGED <<alive, sizes, waiting, kept, landed>>

\* The admin API removes entries.
Remove(gone) ==
  /\ kept' = kept \ gone
  /\ UNCHANGED <<alive, sizes, waiting, writing, landed, counted>>

\* The process ends, with all it held and all it counted.
Die ==
  /\ alive /\ alive' = FALSE
  /\ waiting' = {} /\ writing' = {} /\ counted' = {}
  /\ UNCHANGED <<sizes, kept, landed>>

BagNext ==
  \/ \E e \in Requests : Take(e) \/ TurnAway(e) \/ PickUp(e) \/ Land(e)
  \/ \E some \in SUBSET Requests : Settle(some) \/ Remove(some)
  \/ Die

BagSpec == BagInit /\ [][BagNext]_bag
=============================================================================
