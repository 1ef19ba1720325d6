-------------------------- MODULE MCServerMetrics --------------------------
(* Instances of ServerMetrics: one pool, with a worker and a metrics thread. *)
EXTENDS ServerMetrics

CONSTANTS p1, w1, m1, u1, u2

AllOfP == [th \in Workers \cup MetricsThreads |-> p1]
=============================================================================
