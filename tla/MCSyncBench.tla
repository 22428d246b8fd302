----------------------------- MODULE MCSyncBench ------------------------------
(***************************************************************************)
(* Two forks above block 0, of one and of three blocks, for TLC.           *)
(***************************************************************************)
EXTENDS SyncBench, TLC

CONSTANTS g, a1, a2, a3, b1, fast

MCNumber == g :> 0 @@ a1 :> 1 @@ a2 :> 2 @@ a3 :> 3 @@ b1 :> 1

MCChainOf ==
  g :> {g} @@ a1 :> {g, a1} @@ a2 :> {g, a1, a2} @@ a3 :> {g, a1, a2, a3}
    @@ b1 :> {g, b1}

MCNoTxs == [b \in Block |-> <<>>]

MCNoLogs == [b \in Block |-> {}]

MCNoLogTx == <<>>
=============================================================================
