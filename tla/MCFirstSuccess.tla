--------------------------- MODULE MCFirstSuccess ---------------------------
(***************************************************************************)
(* Instances of FirstSuccess for TLC.                                      *)
(***************************************************************************)
EXTENDS FirstSuccess

CONSTANTS l1, l2, l3

ThreeLookups == {l1, l2, l3}
=============================================================================
