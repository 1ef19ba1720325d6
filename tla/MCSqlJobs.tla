------------------------------ MODULE MCSqlJobs ------------------------------
(***************************************************************************)
(* Small instances of SqlJobs: two servers over one table, and one server  *)
(* whose two pools share its schedules.                                    *)
(***************************************************************************)
EXTENDS SqlJobs, TLC

CONSTANTS j1, j2, j3, k1, k2, k3, k4, x, p1, p2, w1, w2, s1, s2

(* p1 is the pool of s1; p2 that of s2, or a second pool of s1.            *)
PoolPerServer == [p \in Pools |-> IF p = p1 THEN s1 ELSE s2]
BothOnS1 == [p \in Pools |-> s1]

OneName == [p \in Pools |-> "default"]
TwoNames == [p \in Pools |-> IF p = p1 THEN "default" ELSE "second"]
AllDefault == [j \in Jobs |-> "default"]

AllFromS1 == [d \in Singles \cup Schedules |-> s1]

WorkForBoth == [w \in Workers |-> IF w = w1 THEN p1 ELSE p2]

(* Bound: once a server has gone down, or a command has thrown (which may    *)
(* itself end a process), neither happens again.                           *)
OneMishap == crashes + faults > 0 => UNCHANGED <<crashes, faults>>
=============================================================================
