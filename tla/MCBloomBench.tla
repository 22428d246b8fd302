----------------------------- MODULE MCBloomBench -----------------------------
(***************************************************************************)
(* Two forks of three blocks above block 0, for TLC.  The filter of a2     *)
(* says yes to a topic that is not there, and a1 and b1, at the same       *)
(* height, differ in both topics.                                          *)
(***************************************************************************)
EXTENDS BloomBench, TLC

CONSTANTS g, a1, a2, a3, b1, b2, b3, la, lb, rare, common, tx

MCNumber == g :> 0 @@ a1 :> 1 @@ a2 :> 2 @@ a3 :> 3 @@ b1 :> 1 @@ b2 :> 2 @@ b3 :> 3

MCChainOf ==
  g :> {g}
    @@ a1 :> {g, a1} @@ a2 :> {g, a1, a2} @@ a3 :> {g, a1, a2, a3}
    @@ b1 :> {g, b1} @@ b2 :> {g, b1, b2} @@ b3 :> {g, b1, b2, b3}

MCTxsOf == [b \in Block |-> <<tx>>]

MCLogTx == [l \in Log |-> tx]

MCLogsIn ==
  [b \in Block |-> CASE b = a1 -> {la}
                     [] b \in {b1, b3} -> {la, lb}
                     [] OTHER -> {}]

MCTopicOf == la :> common @@ lb :> rare

MCBloom ==
  [b \in Block |-> TopicsIn(b) \cup (IF b = a2 THEN {common} ELSE {})]
=============================================================================
