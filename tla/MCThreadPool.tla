---------------------------- MODULE MCThreadPool ----------------------------
(***************************************************************************)
(* Instances of ThreadPool for TLC.                                        *)
(***************************************************************************)
EXTENDS ThreadPool

CONSTANTS w1, w2, w3

TwoWorkers == {w1, w2}
ThreeWorkers == {w1, w2, w3}

(* The jobs of main() that submit a job themselves.                        *)
SpawningFirst == {1}
SpawningTwo == {1, 2}
=============================================================================
