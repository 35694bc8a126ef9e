----------------------------- MODULE MCServing -----------------------------
(* Instances of Serving for TLC.                                           *)
EXTENDS Serving, TLC

CONSTANTS r1, r2, p1, p2, i1, i2, a, f

\* The mappings that expire and a reset removes.
Ephemeral == [text : Texts, persistent : {FALSE}]

\* Every client is on the first replica, and names any stub.
Alone == [r \in Requests |-> p1]
AnyId == [r \in Requests |-> Ids]

NoBatches == {}
=============================================================================
