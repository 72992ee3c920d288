-------------------------- MODULE MCLeaderElection --------------------------
(* Model checking LeaderElection: two replicas, Lag of one tick.           *)
EXTENDS LeaderElection
=============================================================================
