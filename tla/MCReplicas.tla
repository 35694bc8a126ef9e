---------------------------- MODULE MCReplicas ----------------------------
(* Deployments and clienteles in one run.  A behaviour has one replica and *)
(* one client that uses every operation, or two replicas with a client     *)
(* each; or it stops at the store, under clients that write and import     *)
(* stubs of their own, or that write and empty the collection while stubs  *)
(* expire.                                                                 *)
EXTENDS Serving, TLC

CONSTANTS r1, r2, p1, p2, i1, i2, a, f

VARIABLE scene  \* which of them this behaviour is of

BothPods == (r1 :> p1) @@ (r2 :> p2)

\* One client names both stubs, or each names one.
FirstNames == (r1 :> Ids) @@ (r2 :> {})
OneEach    == (r1 :> {i1}) @@ (r2 :> {i2})

Ephemeral   == [text : Texts, persistent : {FALSE}]
AllMappings == [text : Texts, persistent : BOOLEAN]

Elem(i, t) == [id |-> i, text |-> t, persistent |-> FALSE]

Import(items, ignore, prune) == [items |-> items, ignore |-> ignore, prune |-> prune]

Pruning == {Import(<<Elem(i1, a)>>, FALSE, TRUE)}

\* Batches with a repeated id, under both duplicate policies.
Repeats ==
  {Import(items, ignore, FALSE) :
     items \in {<<Elem(i1, a), Elem(i2, f), Elem(i1, f)>>, <<Elem(i1, a), Elem(i1, f)>>},
     ignore \in BOOLEAN}
  \cup {Import(<<Elem(i2, a), Elem(i1, f)>>, FALSE, FALSE)}

Writes == {"create", "update", "delete", "import"}

\* The bulk operations but for a save, which puts back stubs removed meanwhile,
\* and an import, whose stubs they remove.
Empties == {"create", "update", "delete", "reset", "deleteAll", "removeByMetadata",
            "file", "settings", "expire"}

Alone == INSTANCE Serving WITH
  Requests <- {r1}, IdsOf <- (r1 :> Ids), Pods <- {p1}, PodOf <- (r1 :> p1)

\* Two clients that create and delete a stub each.
Apart == INSTANCE Serving WITH
  IdsOf <- OneEach, Texts <- {a}, FileTexts <- {}, Contents <- {0},
  Mappings <- [text : {a}, persistent : {FALSE}], Batches <- {}, Ops <- {"create", "delete"},
  MaxFaults <- 0

\* Clients with a stub each, one that imports several, and clients that empty.
Own == INSTANCE AdminWrites WITH
  IdsOf <- OneEach, Batches <- Repeats, Mappings <- AllMappings, Ops <- Writes

Importing == INSTANCE AdminWrites WITH
  IdsOf <- FirstNames, Batches <- Repeats, Mappings <- AllMappings, Ops <- Writes

Emptying == INSTANCE AdminWrites WITH
  IdsOf <- OneEach, Batches <- {}, Mappings <- AllMappings, Ops <- Empties

\* What the theorems ask of the clients; OnlyOwn is SplicesApart's first case.
ASSUME ClientsAreApart ==
  /\ Alone!ClientsApart /\ Alone!SplicesApart /\ Alone!FilesApart
  /\ Apart!ClientsApart /\ Apart!OnlyOwn /\ Apart!FilesApart
  /\ Own!OnlyOwn /\ Importing!OnlyOwn /\ "expire" \notin Writes
  /\ Emptying!ClientsApart /\ "save" \notin Empties

MCInit == scene \in {"alone", "apart", "own", "importing", "emptying"} /\ Init

\* The steps of the first replica and its client.
LoneStep ==
  \/ WriteStore /\ req'[r2] = req[r2]
  \/ Poll(p1) \/ Rebuild(p1) \/ RebuildFails(p1) \/ Crash(p1)
  \/ Update(r1)

OwnStep       == Own!AdminStep \/ \E r \in Requests : Own!Answer(r)
ImportingStep == Importing!AdminStep \/ \E r \in Requests : Importing!Answer(r)
EmptyingStep  == Emptying!AdminStep \/ \E r \in Requests : Emptying!Answer(r)

MCNext ==
  /\ UNCHANGED scene
  /\ \/ scene = "alone" /\ LoneStep
     \/ scene = "apart" /\ Apart!Next
     \/ scene = "own" /\ OwnStep /\ UNCHANGED podVars
     \/ scene = "importing" /\ ImportingStep /\ UNCHANGED podVars
     \/ scene = "emptying" /\ EmptyingStep /\ UNCHANGED podVars

MCSpec == MCInit /\ [][MCNext]_<<scene, vars>>
=============================================================================
