---------------------------- MODULE ScenarioFlow ----------------------------
(***************************************************************************)
(* What scenarios promise, whatever the number of replicas: one shared     *)
(* state machine.                                                          *)
(*                                                                         *)
(* A mock request moves it at most once.  A stub that declares a required  *)
(* state moves it only from that state; a stub that declares none, and the *)
(* admin API, put it where they like; a reset puts it back to Started.     *)
(***************************************************************************)
EXTENDS Sequences

CONSTANTS
  Names,      \* scenarios
  States,     \* the states stubs name
  Started,    \* the initial state of every scenario
  None,       \* a stub that requires no state, or names no new one
  Requests,   \* mock requests
  Setters,    \* PUT /__admin/scenarios/{name}/state
  Candidates  \* per request, the stubs that match it, in selection order

VARIABLES
  state,      \* the state of each scenario
  moved       \* the clients that have moved one

flow == <<state, moved>>

FlowInit ==
  /\ state = [n \in Names |-> Started]
  /\ moved = {}

\* A client moves a scenario; it has not moved any before.
Move(r, n, s) ==
  /\ r \notin moved
  /\ moved' = moved \cup {r}
  /\ state' = [state EXCEPT ![n] = s]

\* A request moves a scenario with one of its candidates, whose gate holds.
Advance(r) ==
  \E i \in DOMAIN Candidates[r] :
    LET stub == Candidates[r][i] IN
      /\ stub.new # None
      /\ stub.required \in {None, state[stub.scenario]}
      /\ Move(r, stub.scenario, stub.new)

\* The admin API puts a scenario in a state.
SetState(r) == \E n \in Names, s \in States : Move(r, n, s)

\* A reset puts a scenario back.
Restart(n) ==
  /\ state' = [state EXCEPT ![n] = Started]
  /\ UNCHANGED moved

FlowNext ==
  \/ \E r \in Requests : Advance(r)
  \/ \E r \in Setters : SetState(r)
  \/ \E n \in Names : Restart(n)

FlowSpec == FlowInit /\ [][FlowNext]_flow
=============================================================================
