-------------------- MODULE ServerProcess --------------------
(***************************************************************************)
(* A process of the backend from its start to its exit: the services that  *)
(* index.js starts and shuts down, and the delivery counters that each     *)
(* process loads from Redis and counts on.  The two share no variable.     *)
(***************************************************************************)
EXTENDS Lifecycle, DeliveryMetrics

LifecycleSpec == LifecycleInit /\ [][LifecycleNext]_lifecycleVars
MetricsSpec == MetricsInit /\ [][MetricsNext]_metricsVars

ProcessSpec == LifecycleSpec /\ MetricsSpec

\* A process leaves nothing half done behind it, and its counters in Redis.
ProcessEndsWell == ShutdownClean /\ CountersDurable

=============================================================================
