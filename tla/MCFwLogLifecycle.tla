-------------------------- MODULE MCFwLogLifecycle --------------------------
(* Model values for FwLogLifecycle: two receiving threads.                 *)
EXTENDS FwLogLifecycle

CONSTANTS r1, r2

MCReceivers == {r1, r2}
=============================================================================
