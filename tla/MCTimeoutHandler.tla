-------------------------- MODULE MCTimeoutHandler --------------------------
(***************************************************************************)
(* TimeoutHandler with two processes, one of which may start two ticks.    *)
(***************************************************************************)
EXTENDS TimeoutHandler, TLC

CONSTANTS t1, t2, t3, i1, i2

TwoHosts == t1 :> i1 @@ t2 :> i1 @@ t3 :> i2
=============================================================================
