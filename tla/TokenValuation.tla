---------------------------- MODULE TokenValuation ----------------------------
(***************************************************************************)
(* How the Watcher values ERC-20 transfers and Uniswap V2 swaps            *)
(* (checkERC20Transfer in watcher.go, swap.go, tokens.go).  A log is       *)
(* valued with its pool's tokens, its tokens' decimals and the price of    *)
(* one token.  Pools and decimals are read from the node once and cached,  *)
(* failures included; prices come from the price service.                  *)
(*                                                                         *)
(* Each action handles a log up to its next RPC.  Amounts are abstracted   *)
(* to which side of a swap was paid in, and to whether the value reaches   *)
(* the threshold, which may go either way.                                 *)
(***************************************************************************)
EXTENDS Naturals, Sequences, PriceService

CONSTANTS
  Pool,    \* contracts that emit swap logs
  Token0,  \* Token0[p] and Token1[p] are the tokens of pool p
  Token1,
  MaxLogs  \* bound on the number of logs handled

ASSUME PoolAssumption ==
  /\ Token0 \in [Pool -> Token]
  /\ Token1 \in [Pool -> Token]
  /\ MaxLogs \in Nat

Lookup == {"absent", "known", "failed"}

(***************************************************************************)
(* A log that passed the checks of its shape.  A swap's direction names    *)
(* the side paid in, "neither" if no side was paid in and the other out.   *)
(***************************************************************************)
Transfer(t) == [kind |-> "erc20", token |-> t]
Swap(p, side) == [kind |-> "swap", pool |-> p, paidIn |-> side]

Log ==
  {Transfer(t) : t \in Token}
    \cup {Swap(p, side) : p \in Pool, side \in {"token0", "token1", "neither"}}

\* The token whose price values a log, and the tokens whose decimals it needs.
TokenIn(l) ==
  IF l.kind = "erc20" THEN l.token
  ELSE IF l.paidIn = "token0" THEN Token0[l.pool] ELSE Token1[l.pool]

TokenOut(l) ==
  IF l.paidIn = "token0" THEN Token1[l.pool] ELSE Token0[l.pool]

\* Mutant: the decimals of the token paid out are not looked up.
NeededIn(l) == <<TokenIn(l)>>

Needed(l) ==
  IF l.kind = "erc20" THEN <<TokenIn(l)>> ELSE <<TokenIn(l), TokenOut(l)>>

NoLog == [kind |-> "none"]

VARIABLES
  decimals,  \* w.decimalsCache, by token
  pools,     \* w.poolCache, by pool
  pc,        \* where the check is
  log,       \* the log in hand, or NoLog
  needs,     \* tokens whose decimals are still to be looked up for it
  handled,   \* logs taken so far, at most MaxLogs
  skipped,   \* erc20_tokens_skipped_total
  alerted,   \* logs an event was made of
  calls      \* how often decimals() was called, by token

lookupVars == <<decimals, pools>>
resultVars == <<skipped, alerted>>
valuationVars == <<lookupVars, pc, log, needs, handled, resultVars, calls>>
vars == <<cancelled, serviceVars, valuationVars>>

Init ==
  /\ ContextInit
  /\ ServiceInit
  /\ decimals = [t \in Token |-> "absent"]
  /\ pools = [p \in Pool |-> "absent"]
  /\ pc = "next"
  /\ log = NoLog
  /\ needs = <<>>
  /\ handled = 0
  /\ skipped = 0
  /\ alerted = {}
  /\ calls = [t \in Token |-> 0]

Goto(from, to) == pc = from /\ pc' = to

-------------------------------------------------------------------------------
\* The next log of the loop over txLogs.
Take(l) ==
  /\ handled < MaxLogs
  /\ handled' = handled + 1
  /\ log' = l
  /\ IF l.kind = "swap"
       THEN Goto("next", "pool") /\ needs' = <<>>
       ELSE Goto("next", "decimals") /\ needs' = Needed(l)
  /\ UNCHANGED <<cancelled, serviceVars, lookupVars, resultVars, calls>>

\* continue: on to the next log.
Continue ==
  /\ pc' = "next"
  /\ log' = NoLog
  /\ needs' = <<>>

(***************************************************************************)
(* resolvePool: token0() and token1() of a pool not seen before.  If one   *)
(* of the two calls fails the pool is not asked again.                     *)
(***************************************************************************)
ResolvePool ==
  /\ pc = "pool"
  /\ pools[log.pool] = "absent"
  /\ \E result \in {"known", "failed"} : pools' = [pools EXCEPT ![log.pool] = result]
  /\ UNCHANGED <<cancelled, serviceVars, decimals, pc, log, needs, handled, resultVars, calls>>

\* The pool is unknown, or nothing was paid in on one side and out on the other.
DropSwap ==
  /\ pc = "pool"
  /\ \/ pools[log.pool] = "failed"
     \/ pools[log.pool] = "known" /\ log.paidIn = "neither"
  /\ Continue
  /\ UNCHANGED <<cancelled, serviceVars, lookupVars, handled, resultVars, calls>>

DirectSwap ==
  /\ Goto("pool", "decimals")
  /\ pools[log.pool] = "known"
  /\ log.paidIn # "neither"
  /\ needs' = Needed(log)
  /\ UNCHANGED <<cancelled, serviceVars, lookupVars, log, handled, resultVars, calls>>

\* Mutant: a failed call is not cached.
LookUpDecimalsAgain ==
  /\ pc = "decimals"
  /\ decimals[Head(needs)] = "absent"
  /\ \/ decimals' = [decimals EXCEPT ![Head(needs)] = "known"]
        /\ UNCHANGED <<pc, log, needs, skipped>>
     \/ UNCHANGED decimals /\ Continue /\ skipped' = skipped + 1
  /\ calls' = [calls EXCEPT ![Head(needs)] = @ + 1]
  /\ UNCHANGED <<cancelled, serviceVars, pools, handled, alerted>>

\* tokenDecimals: decimals() of a token not seen before.
LookUpDecimals ==
  /\ pc = "decimals"
  /\ decimals[Head(needs)] = "absent"
  /\ \E result \in {"known", "failed"} :
       decimals' = [decimals EXCEPT ![Head(needs)] = result]
  /\ calls' = [calls EXCEPT ![Head(needs)] = @ + 1]
  /\ UNCHANGED <<cancelled, serviceVars, pools, pc, log, needs, handled, resultVars>>

\* Mutant: the loop over the tokens is not left after the last.
DecimalsKnownAgain ==
  /\ pc = "decimals"
  /\ decimals[Head(needs)] = "known"
  /\ needs' = Tail(needs)
  /\ UNCHANGED <<cancelled, serviceVars, lookupVars, pc, log, handled, resultVars, calls>>

DecimalsKnown ==
  /\ Goto("decimals", IF Len(needs) = 1 THEN "price" ELSE "decimals")
  /\ decimals[Head(needs)] = "known"
  /\ needs' = Tail(needs)
  /\ UNCHANGED <<cancelled, serviceVars, lookupVars, log, handled, resultVars, calls>>

DecimalsFailed ==
  /\ pc = "decimals"
  /\ decimals[Head(needs)] = "failed"
  /\ skipped' = skipped + 1
  /\ Continue
  /\ UNCHANGED <<cancelled, serviceVars, lookupVars, handled, alerted, calls>>

\* Mutant: the check waits until the price is there.
AwaitPrice ==
  /\ pc = "price"
  /\ TokenIn(log) \notin known
  /\ Want(TokenIn(log))
  /\ UNCHANGED <<cancelled, valuationVars>>

\* PriceInETH has no price: it is asked for, and the log skipped.
PriceMissing ==
  /\ pc = "price"
  /\ TokenIn(log) \notin known
  /\ Want(TokenIn(log))
  /\ skipped' = skipped + 1
  /\ Continue
  /\ UNCHANGED <<cancelled, lookupVars, handled, alerted, calls>>

\* The log is valued: it reaches the threshold or it does not.
Value ==
  /\ pc = "price"
  /\ TokenIn(log) \in known
  /\ alerted' \in {alerted, alerted \cup {log}}
  /\ Continue
  /\ UNCHANGED <<cancelled, serviceVars, lookupVars, handled, skipped, calls>>

-------------------------------------------------------------------------------
ValuationStep ==
  \/ ResolvePool
  \/ DropSwap
  \/ DirectSwap
  \/ LookUpDecimals
  \/ DecimalsKnown
  \/ DecimalsFailed
  \/ PriceMissing
  \/ Value

Next ==
  \/ \E l \in Log : Take(l)
  \/ ValuationStep
  \/ ServiceStep /\ UNCHANGED <<cancelled, valuationVars>>
  \/ Cancel /\ UNCHANGED <<serviceVars, valuationVars>>

Spec == Init /\ [][Next]_vars

(***************************************************************************)
(* The node answers each eth_call.  Nothing is assumed of the refresher or *)
(* of the price provider.                                                  *)
(***************************************************************************)
FairSpec == Spec /\ WF_vars(ValuationStep)

-------------------------------------------------------------------------------
(* Properties. *)

TypeOK ==
  /\ cancelled \in BOOLEAN
  /\ known \subseteq Token
  /\ wanted \subseteq Token
  /\ asked \subseteq Token
  /\ decimals \in [Token -> Lookup]
  /\ pools \in [Pool -> Lookup]
  /\ pc \in {"next", "pool", "decimals", "price"}
  /\ log \in Log \cup {NoLog}
  /\ pc # "next" => log # NoLog
  /\ pc = "pool" => log.kind = "swap"
  /\ needs \in Seq(Token)
  /\ pc = "decimals" => needs # <<>>
  /\ handled \in 0..MaxLogs
  /\ skipped \in Nat
  /\ alerted \subseteq Log
  /\ calls \in [Token -> Nat]

(***************************************************************************)
(* tokens.go:19-34.  The node is asked for the decimals of a token at most *)
(* once, by transfers and by either side of swaps, and whatever it said is *)
(* remembered.                                                             *)
(***************************************************************************)
DecimalsAskedOnce ==
  \A t \in Token : calls[t] = (IF decimals[t] = "absent" THEN 0 ELSE 1)

(***************************************************************************)
(* watcher.go:214-229, swap.go:50-83.  An event is only made of a log for  *)
(* which all of this is known: the pool, the decimals of both tokens, and  *)
(* the price of the token paid in.  It stays so: caches do not forget.     *)
(***************************************************************************)
AlertsAreBacked ==
  \A l \in alerted :
    /\ TokenIn(l) \in known
    /\ decimals[TokenIn(l)] = "known"
    /\ l.kind = "swap" => /\ pools[l.pool] = "known"
                          /\ l.paidIn # "neither"
                          /\ decimals[TokenOut(l)] = "known"

(***************************************************************************)
(* coingecko.go:60.  PriceInETH never waits for the network: each log is   *)
(* done with although the refresher may never run again.                   *)
(***************************************************************************)
EveryLogHandled == pc # "next" ~> pc = "next"
=============================================================================
