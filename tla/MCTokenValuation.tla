--------------------------- MODULE MCTokenValuation ---------------------------
(***************************************************************************)
(* Two tokens and one pool of them, for TLC.                               *)
(***************************************************************************)
EXTENDS TokenValuation, TLC

CONSTANTS t1, t2, p1

MCToken0 == p1 :> t1
MCToken1 == p1 :> t2
=============================================================================
