--------------------------- MODULE MCEventIndexer ---------------------------
(* Model checking EventIndexer: the configurations only give the constants. *)
EXTENDS EventIndexer
=============================================================================
