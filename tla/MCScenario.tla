---------------------------- MODULE MCScenario ----------------------------
(* Instances of Scenario for TLC.                                          *)
EXTENDS Scenario, TLC

CONSTANTS r1, r2, q, x, p1, p2, n1, A

Step(n, from, to) == [scenario |-> n, required |-> from, new |-> to]

\* A flow with a stub for every state, the later one listed first, so that a
\* request may see the state move between its two candidates; and one that
\* leaves a state and enters it again whatever the state is.
Cycle == <<Step(n1, A, Started), Step(n1, Started, A)>>
Detour == <<Step(n1, A, Started), Step(n1, None, A)>>

Flows == (r1 :> Cycle) @@ (r2 :> Detour)
PodMap == (r1 :> p1) @@ (r2 :> p2) @@ (q :> p1) @@ (x :> p1)
=============================================================================
