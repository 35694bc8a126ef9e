--------------------------- MODULE MCWatermark ---------------------------
(* Instances of Watermark for TLC: which pod serves which request.         *)
EXTENDS Watermark, TLC

CONSTANTS r1, r2, p1, p2

\* One request slot per pod; the two pods are interchangeable.
OnePerPod == (r1 :> p1) @@ (r2 :> p2)
SwapPods == {(p1 :> p2) @@ (p2 :> p1) @@ (r1 :> r2) @@ (r2 :> r1)}

\* A single writer.
OneWriter == (r1 :> p1)
=============================================================================
