------------------------------- MODULE MCWatcher -------------------------------
(***************************************************************************)
(* A small chain for TLC: two forks above the genesis block g,             *)
(*                                                                         *)
(*     g <- a1 <- a2        g <- b1 <- b2                                  *)
(*                                                                         *)
(* t1 is a whale mined on both forks, at the same height, t2 is mined once *)
(* on each fork, at different heights, and has an ERC-20 log.              *)
(***************************************************************************)
EXTENDS Watcher, TLC

CONSTANTS g, a1, a2, b1, b2, t1, t2, l1

MCBlock == {g, a1, a2, b1, b2}
MCNumber == (g :> 0) @@ (a1 :> 1) @@ (a2 :> 2) @@ (b1 :> 1) @@ (b2 :> 2)
MCChainOf ==
  (g :> {g}) @@ (a1 :> {g, a1}) @@ (a2 :> {g, a1, a2})
    @@ (b1 :> {g, b1}) @@ (b2 :> {g, b1, b2})
MCTx == {t1, t2}
MCTxsOf ==
  (g :> <<>>) @@ (a1 :> <<t1, t2>>) @@ (a2 :> <<>>) @@ (b1 :> <<t1>>) @@ (b2 :> <<t2>>)
MCLog == {l1}
MCLogsIn == (g :> {}) @@ (a1 :> {l1}) @@ (a2 :> {}) @@ (b1 :> {}) @@ (b2 :> {l1})
MCLogTx == l1 :> t2
MCLogKind == l1 :> "erc20"
=============================================================================
