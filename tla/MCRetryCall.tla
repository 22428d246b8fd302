------------------------------ MODULE MCRetryCall ------------------------------
(***************************************************************************)
(* One caller of each copy of the loop.  35 is the first number of retries *)
(* for which a pause is not positive.                                      *)
(***************************************************************************)
EXTENDS RetryCall, TLC

CONSTANTS c1, c2

MCCopyOf == (c1 :> "rpc") @@ (c2 :> "eth")
MCRetriesOf == (c1 :> 35) @@ (c2 :> 2)
=============================================================================
