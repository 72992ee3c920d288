----------------------------- MODULE MCAirdrops -----------------------------
(* Model checking Airdrops: the configurations only give the constants.    *)
EXTENDS Airdrops
=============================================================================
