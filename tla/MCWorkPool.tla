----------------------------- MODULE MCWorkPool -----------------------------
(***************************************************************************)
(* Small instances of WorkPool.  The item or items of a run are model       *)
(* values, and so are the identities of the workers.                       *)
(***************************************************************************)
EXTENDS WorkPool, TLC

CONSTANTS i1, i2, w1, w2, w3, w4

(* The items are alike whenever none or all of them may fail.              *)
ItemSymmetry == Permutations(Items)
=============================================================================
