------------------------------ MODULE MCArena ------------------------------
(* Instances of Arena for TLC.                                             *)
EXTENDS Arena, TLC

Symmetry == Permutations(Addr)
=============================================================================
