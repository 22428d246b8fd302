-------------------------------- MODULE Retry --------------------------------
(***************************************************************************)
(* The retry loop around every RPC of the benchmarks, of which there are   *)
(* two copies: ethClientAdapter.do in cmd/bloom-bench/main.go and          *)
(* RawRPC.Call in logbench/client.go.                                      *)
(*                                                                         *)
(* A caller has at most one call in progress.  A component says when one   *)
(* of its callers sends a request, and with which answer: each action      *)
(* below is one iteration of the loop, and a component conjoins it with    *)
(* what its caller does next.  The waits of the loop are left out here;    *)
(* RetryCall has them, and implements this module.                         *)
(***************************************************************************)
EXTENDS Naturals

CONSTANT Retries  \* a.retries, r.retries

ASSUME RetryAssumption == Retries \in Nat

VARIABLE attempt  \* attempt[c]: requests of c's call that failed so far

RetryInit(callers) == attempt = [c \in callers |-> 0]

(***************************************************************************)
(* The call returns, and the caller's next call starts from 0.             *)
(***************************************************************************)
Returned(c) == attempt' = [attempt EXCEPT ![c] = 0]

\* Mutant: one attempt too many.
TryAgainOnceMore(c) ==
  /\ attempt[c] <= Retries
  /\ attempt' = [attempt EXCEPT ![c] = @ + 1]

(***************************************************************************)
(* An error worth a retry (isRetryable): sleep, and go round again.        *)
(***************************************************************************)
TryAgain(c) ==
  /\ attempt[c] < Retries
  /\ attempt' = [attempt EXCEPT ![c] = @ + 1]

(***************************************************************************)
(* The call fails for good: on an error not worth a retry at any attempt,  *)
(* and on any error at the last one, after a last sleep.  So a call may    *)
(* fail whatever the attempt.                                              *)
(***************************************************************************)
GiveUp(c) == Returned(c)

RetryTypeOK(callers) == attempt \in [callers -> 0..Retries]
=============================================================================
