--------------------------- MODULE MCRecurrentJobs ---------------------------
(***************************************************************************)
(* Small instances of RecurrentJobs: one pool whose workers and buffer     *)
(* suffice for all its jobs, and two pools that share a storage.           *)
(***************************************************************************)
EXTENDS RecurrentJobs, TLC

CONSTANTS s1, s2, r1, r2, r3, p1, p2, w1, w2, c1, c2

(* Every definition is for p1, except s2, which is for p2 if there is one. *)
AllInP1 == [d \in Definitions |-> p1]
S2InP2 == [d \in Definitions |-> IF d = s2 THEN p2 ELSE p1]

WorkForP1 == [w \in Workers |-> p1]
WorkForBoth == [w \in Workers |-> IF w = w1 THEN p1 ELSE p2]

Symmetry == Permutations({r1, r2, r3} \cap Recurrents)
            \cup Permutations(Callers)
=============================================================================
