---------------------------- MODULE MCDashboard ----------------------------
(* Instances of Dashboard: two pools. *)
EXTENDS Dashboard

CONSTANTS a, b

\* Each pool processes something else in each second.
Load == (a :> [t \in Seconds |-> t]) @@ (b :> [t \in Seconds |-> 10 * t])

\* At UTC, and far enough from it that padding and samples never meet.
TimeZones == {0, 100}
=============================================================================
