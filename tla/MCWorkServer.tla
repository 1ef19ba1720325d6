---------------------------- MODULE MCWorkServer ----------------------------
(* Instances of WorkServer. *)
EXTENDS WorkServer, TLC

CONSTANTS c1, c2, d1, d2
=============================================================================
