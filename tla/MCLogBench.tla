----------------------------- MODULE MCLogBench -------------------------------
(***************************************************************************)
(* Two forks of three blocks above block 0, for TLC.  a2 has a transaction *)
(* with two logs and one without; on the other fork the one with the logs  *)
(* is in the next block.                                                   *)
(***************************************************************************)
EXTENDS LogBench, TLC

CONSTANTS g, a1, a2, a3, b2, b3, t1, t2, l1, l2

MCNumber == g :> 0 @@ a1 :> 1 @@ a2 :> 2 @@ a3 :> 3 @@ b2 :> 2 @@ b3 :> 3

MCChainOf ==
  g :> {g} @@ a1 :> {g, a1}
    @@ a2 :> {g, a1, a2} @@ a3 :> {g, a1, a2, a3}
    @@ b2 :> {g, a1, b2} @@ b3 :> {g, a1, b2, b3}

MCTxsOf ==
  g :> <<>> @@ a1 :> <<>> @@ a2 :> <<t1, t2>> @@ a3 :> <<>>
    @@ b2 :> <<t2>> @@ b3 :> <<t1>>

MCLogTx == l1 :> t1 @@ l2 :> t1

MCLogsIn == [b \in Block |-> IF b \in {a2, b3} THEN {l1, l2} ELSE {}]
=============================================================================
