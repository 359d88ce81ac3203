--------------------------- MODULE MCBoundedQueue ---------------------------
(***************************************************************************)
(* Instances of BoundedQueue for TLC.                                      *)
(***************************************************************************)
EXTENDS BoundedQueue

CONSTANTS p1, p2, c1, c2

(* Two producers and two consumers, as main() starts.                      *)
TwoProducers == {p1, p2}
TwoConsumers == {c1, c2}
=============================================================================
