----------------------------- MODULE MCJournal -----------------------------
(* Instances of Journal for TLC: the settings.                              *)
EXTENDS Journal, TLC

CONSTANTS r1, r2

\* Two entries that fit the byte cap of 2 together, and two that do not.
SmallOrLarge == {[lenient |-> FALSE, size |-> (r1 :> 1) @@ (r2 :> 1)],
                 [lenient |-> TRUE,  size |-> (r1 :> 1) @@ (r2 :> 2)]}
=============================================================================
