-------------------------- MODULE TokenValuationProofs --------------------------
(***************************************************************************)
(* Proofs about the valuation of transfers and swaps, for every set of     *)
(* tokens and pools, whatever the node and the price provider answer.      *)
(***************************************************************************)
EXTENDS TokenValuation, SequenceTheorems, TLAPS

-------------------------------------------------------------------------------
(* The operators on logs. *)

\* A log is a transfer of a token or a swap of a pool, and both differ from no log.
LEMMA LogShape ==
  ASSUME NEW l \in Log
  PROVE  /\ l # NoLog
         /\ \/ l.kind = "erc20" /\ l.token \in Token
            \/ l.kind = "swap" /\ l.pool \in Pool
BY DEF Log, Transfer, Swap, NoLog

\* A log is valued with known tokens, at least one and at most two.
LEMMA NeededType ==
  ASSUME NEW l \in Log
  PROVE  /\ TokenIn(l) \in Token
         /\ l.kind = "swap" => TokenOut(l) \in Token
         /\ Needed(l) \in Seq(Token)
         /\ Needed(l) # <<>>
<1>1. TokenIn(l) \in Token
  BY LogShape, PoolAssumption DEF TokenIn
<1>2. l.kind = "swap" => TokenOut(l) \in Token
  BY LogShape, PoolAssumption DEF TokenOut
<1> QED
  BY <1>1, <1>2, LogShape DEF Needed

\* Taking tokens from a list one by one, the list is empty after the last.
LEMMA OneByOne ==
  ASSUME NEW s \in Seq(Token), s # <<>>
  PROVE  Tail(s) \in Seq(Token) /\ (Len(s) # 1 => Tail(s) # <<>>)
<1>1. Tail(s) \in Seq(Token) /\ Len(Tail(s)) = Len(s) - 1 /\ Len(s) \in Nat
  BY HeadTailProperties, LenProperties
<1>2. ASSUME Tail(s) = <<>> PROVE Len(s) = 1
  <2>1. Len(Tail(s)) = 0
    BY <1>2, EmptySeq, Zenon
  <2> QED
    BY <1>1, <2>1
<1> QED
  BY <1>1, <1>2

\* What the refresher does keeps prices, and only deals in tokens.
LEMMA ServiceStepType ==
  ASSUME known \subseteq Token, wanted \subseteq Token, asked \subseteq Token, ServiceStep
  PROVE  /\ known' \subseteq Token /\ wanted' \subseteq Token /\ asked' \subseteq Token
         /\ known \subseteq known'
<1>1. CASE Send
  BY <1>1 DEF Send
<1>2. CASE Answer
  BY <1>2 DEF Answer
<1>3. CASE Abandon
  BY <1>3 DEF Abandon
<1> QED
  BY <1>1, <1>2, <1>3 DEF ServiceStep

-------------------------------------------------------------------------------
(* Type correctness. *)

LEMMA InitType == Init => TypeOK
<1> SUFFICES ASSUME Init PROVE TypeOK
  OBVIOUS
<1>1. known = {} /\ wanted = {} /\ asked = {} /\ cancelled = FALSE
  BY DEF Init, ContextInit, ServiceInit
<1>2. needs \in Seq(Token)
  BY EmptySeq DEF Init
<1>3. handled \in 0..MaxLogs
  BY PoolAssumption DEF Init
<1>4. decimals \in [Token -> Lookup] /\ pools \in [Pool -> Lookup] /\ calls \in [Token -> Nat]
  BY DEF Init, Lookup
<1> QED
  BY <1>1, <1>2, <1>3, <1>4 DEF Init, TypeOK

LEMMA NextType == TypeOK /\ [Next]_vars => TypeOK'
<1> SUFFICES ASSUME TypeOK, [Next]_vars PROVE TypeOK'
  OBVIOUS
<1> USE DEF TypeOK, serviceVars, lookupVars, resultVars
<1>1. ASSUME NEW l \in Log, Take(l) PROVE TypeOK'
  <2>1. handled' \in 0..MaxLogs
    BY <1>1, PoolAssumption DEF Take
  <2>2. /\ needs' \in Seq(Token)
        /\ pc' \in {"pool", "decimals"} /\ (pc' = "pool" => l.kind = "swap")
        /\ pc' = "decimals" => needs' # <<>>
    BY <1>1, NeededType, EmptySeq DEF Take, Goto
  <2> QED
    BY <1>1, <2>1, <2>2, LogShape DEF Take
<1>2. CASE ResolvePool
  <2>1. log.pool \in Pool
    BY <1>2, LogShape DEF ResolvePool
  <2>2. pools' \in [Pool -> Lookup]
    BY <1>2, <2>1 DEF ResolvePool, Lookup
  <2> QED
    BY <1>2, <2>2 DEF ResolvePool
<1>3. CASE DropSwap
  BY <1>3, EmptySeq DEF DropSwap, Continue
<1>4. CASE DirectSwap
  BY <1>4, NeededType DEF DirectSwap, Goto
<1>5. CASE LookUpDecimals
  <2>1. Head(needs) \in Token
    BY <1>5, HeadTailProperties DEF LookUpDecimals
  <2>2. decimals' \in [Token -> Lookup] /\ calls' \in [Token -> Nat]
    BY <1>5, <2>1 DEF LookUpDecimals, Lookup
  <2> QED
    BY <1>5, <2>2 DEF LookUpDecimals
<1>6. CASE DecimalsKnown
  <2>1. needs \in Seq(Token) /\ needs # <<>>
    BY <1>6 DEF DecimalsKnown, Goto
  <2>2. Tail(needs) \in Seq(Token) /\ (Len(needs) # 1 => Tail(needs) # <<>>)
    BY <2>1, OneByOne
  <2> QED
    BY <1>6, <2>2 DEF DecimalsKnown, Goto
<1>7. CASE DecimalsFailed
  BY <1>7, EmptySeq DEF DecimalsFailed, Continue
<1>8. CASE PriceMissing
  <2>1. wanted' \subseteq Token /\ UNCHANGED <<known, asked>>
    BY <1>8, NeededType DEF PriceMissing, Want
  <2> QED
    BY <1>8, <2>1, EmptySeq DEF PriceMissing, Continue
<1>9. CASE Value
  BY <1>9, EmptySeq DEF Value, Continue
<1>10. CASE ServiceStep /\ UNCHANGED <<cancelled, valuationVars>>
  BY <1>10, ServiceStepType DEF valuationVars
<1>11. CASE Cancel /\ UNCHANGED <<serviceVars, valuationVars>>
  BY <1>11 DEF Cancel, valuationVars
<1>12. CASE UNCHANGED vars
  BY <1>12 DEF vars, valuationVars
<1> QED
  BY <1>1, <1>2, <1>3, <1>4, <1>5, <1>6, <1>7, <1>8, <1>9, <1>10, <1>11, <1>12
  DEF Next, ValuationStep

(***************************************************************************)
(* Every variable keeps its type, and each check has a log in hand and, if *)
(* it looks for decimals, a token to look them up for (watcher.go:178-229, *)
(* swap.go:18-83), for all constants.                                      *)
(***************************************************************************)
THEOREM TypeCorrect == Spec => []TypeOK
BY InitType, NextType, PTL DEF Spec

-------------------------------------------------------------------------------
(* The decimals. *)

LEMMA NextAskedOnce == TypeOK /\ DecimalsAskedOnce /\ [Next]_vars => DecimalsAskedOnce'
<1> SUFFICES ASSUME TypeOK, DecimalsAskedOnce, [Next]_vars PROVE DecimalsAskedOnce'
  OBVIOUS
<1>1. CASE LookUpDecimals
  <2> DEFINE t == Head(needs)
  <2>1. t \in Token /\ decimals[t] = "absent"
    BY <1>1, HeadTailProperties DEF LookUpDecimals, TypeOK
  <2>2. PICK result \in {"known", "failed"} : decimals' = [decimals EXCEPT ![t] = result]
    BY <1>1 DEF LookUpDecimals
  <2>3. calls' = [calls EXCEPT ![t] = @ + 1]
    BY <1>1 DEF LookUpDecimals
  <2> QED
    BY <2>1, <2>2, <2>3 DEF DecimalsAskedOnce, TypeOK
<1>2. CASE UNCHANGED <<decimals, calls>>
  BY <1>2 DEF DecimalsAskedOnce
<1>3. [Next]_vars => LookUpDecimals \/ UNCHANGED <<decimals, calls>>
  BY DEF Next, ValuationStep, Take, ResolvePool, DropSwap, DirectSwap, DecimalsKnown,
         DecimalsFailed, PriceMissing, Value, vars, valuationVars, lookupVars
<1> QED
  BY <1>1, <1>2, <1>3

(***************************************************************************)
(* The node is asked for the decimals of each token at most once, and for  *)
(* those of a token whose answer is cached exactly once (tokens.go:19-34). *)
(***************************************************************************)
THEOREM AskedForDecimalsOnce == Spec => []DecimalsAskedOnce
<1>1. Init => DecimalsAskedOnce
  BY DEF Init, DecimalsAskedOnce
<1> QED
  BY <1>1, NextAskedOnce, TypeCorrect, PTL DEF Spec

-------------------------------------------------------------------------------
(* What an event rests on. *)

(***************************************************************************)
(* AlertsAreBacked is not inductive: what is known of the log in hand has  *)
(* been found out step by step, and each step relies on those before.      *)
(***************************************************************************)
PoolKnown(l) == l.kind = "swap" => pools[l.pool] = "known" /\ l.paidIn # "neither"

DecimalsOfBoth(l) ==
  /\ decimals[TokenIn(l)] = "known"
  /\ l.kind = "swap" => decimals[TokenOut(l)] = "known"

\* The tokens still to be looked up: all, or the one paid out.
LookupUnderWay(l) ==
  \/ needs = Needed(l)
  \/ l.kind = "swap" /\ needs = <<TokenOut(l)>> /\ decimals[TokenIn(l)] = "known"

LogInHand ==
  /\ pc \in {"decimals", "price"} => PoolKnown(log)
  /\ pc = "decimals" => LookupUnderWay(log)
  /\ pc = "price" => DecimalsOfBoth(log)

BackedInv == LogInHand /\ AlertsAreBacked

\* An event stays backed as long as the caches forget nothing.
LEMMA StaysBacked ==
  ASSUME AlertsAreBacked, known \subseteq known', alerted' = alerted,
         alerted \subseteq Log, TypeOK,
         \A t \in Token : decimals[t] = "known" => decimals'[t] = "known",
         \A p \in Pool : pools[p] = "known" => pools'[p] = "known"
  PROVE  AlertsAreBacked'
<1> SUFFICES ASSUME NEW l \in alerted
             PROVE  /\ TokenIn(l) \in known'
                    /\ decimals'[TokenIn(l)] = "known"
                    /\ l.kind = "swap" => /\ pools'[l.pool] = "known"
                                          /\ l.paidIn # "neither"
                                          /\ decimals'[TokenOut(l)] = "known"
  BY DEF AlertsAreBacked
<1>1. l \in Log
  OBVIOUS
<1>2. /\ TokenIn(l) \in known
      /\ decimals[TokenIn(l)] = "known"
      /\ l.kind = "swap" => /\ pools[l.pool] = "known"
                            /\ l.paidIn # "neither"
                            /\ decimals[TokenOut(l)] = "known"
  BY DEF AlertsAreBacked
<1>3. l.kind = "swap" => l.pool \in Pool
  BY <1>1, LogShape
<1> QED
  BY <1>1, <1>2, <1>3, NeededType

LEMMA NextBacked == TypeOK /\ BackedInv /\ [Next]_vars => BackedInv'
<1> SUFFICES ASSUME TypeOK, BackedInv, [Next]_vars PROVE BackedInv'
  OBVIOUS
<1> LogInHand /\ AlertsAreBacked /\ alerted \subseteq Log
  BY DEF BackedInv, TypeOK
<1>1. ASSUME NEW l \in Log, Take(l) PROVE BackedInv'
  <2>1. AlertsAreBacked'
    BY <1>1, StaysBacked DEF Take, serviceVars, lookupVars, resultVars
  <2>2. LogInHand'
    BY <1>1, LogShape DEF Take, Goto, LogInHand, PoolKnown, LookupUnderWay, lookupVars
  <2> QED
    BY <2>1, <2>2 DEF BackedInv
<1>2. CASE ResolvePool
  <2>1. log.pool \in Pool /\ log \in Log
    BY <1>2, LogShape DEF ResolvePool, TypeOK
  <2>2. \A p \in Pool : pools[p] = "known" => pools'[p] = "known"
    BY <1>2, <2>1 DEF ResolvePool, TypeOK
  <2>3. AlertsAreBacked'
    BY <1>2, <2>2, StaysBacked DEF ResolvePool, serviceVars, resultVars
  <2>4. LogInHand'
    BY <1>2 DEF ResolvePool, LogInHand
  <2> QED
    BY <2>3, <2>4 DEF BackedInv
<1>3. CASE DropSwap
  <2>1. AlertsAreBacked'
    BY <1>3, StaysBacked DEF DropSwap, Continue, serviceVars, lookupVars, resultVars
  <2> QED
    BY <1>3, <2>1 DEF DropSwap, Continue, BackedInv, LogInHand
<1>4. CASE DirectSwap
  <2>1. AlertsAreBacked'
    BY <1>4, StaysBacked DEF DirectSwap, serviceVars, lookupVars, resultVars
  <2>2. LogInHand'
    BY <1>4 DEF DirectSwap, Goto, LogInHand, PoolKnown, LookupUnderWay, lookupVars
  <2> QED
    BY <2>1, <2>2 DEF BackedInv
<1>5. CASE LookUpDecimals
  <2>1. Head(needs) \in Token /\ log \in Log
    BY <1>5, HeadTailProperties DEF LookUpDecimals, TypeOK
  <2>2. \A t \in Token : decimals[t] = "known" => decimals'[t] = "known"
    BY <1>5, <2>1 DEF LookUpDecimals, TypeOK
  <2>3. AlertsAreBacked'
    BY <1>5, <2>2, StaysBacked DEF LookUpDecimals, serviceVars, resultVars
  <2>4. LookupUnderWay(log)'
    BY <1>5, <2>1, <2>2, NeededType DEF LookUpDecimals, LogInHand, LookupUnderWay
  <2>5. LogInHand'
    BY <1>5, <2>4 DEF LookUpDecimals, LogInHand, PoolKnown
  <2> QED
    BY <2>3, <2>5 DEF BackedInv
<1>6. CASE DecimalsKnown
  <2>1. AlertsAreBacked'
    BY <1>6, StaysBacked DEF DecimalsKnown, serviceVars, lookupVars, resultVars
  <2>2. LogInHand'
    <3>1. pc = "decimals" /\ PoolKnown(log) /\ LookupUnderWay(log) /\ log \in Log
      BY <1>6 DEF DecimalsKnown, Goto, LogInHand, TypeOK
    <3>2. CASE needs = Needed(log) /\ log.kind = "swap"
      <4>1. needs = <<TokenIn(log), TokenOut(log)>>
        BY <3>2 DEF Needed
      <4>2. Len(needs) = 2 /\ Head(needs) = TokenIn(log) /\ Tail(needs) = <<TokenOut(log)>>
        BY <4>1
      <4> QED
        BY <1>6, <3>1, <3>2, <4>2
        DEF DecimalsKnown, Goto, LogInHand, PoolKnown, LookupUnderWay, lookupVars
    <3>3. CASE needs = Needed(log) /\ log.kind # "swap"
      <4>1. log.kind = "erc20" /\ needs = <<TokenIn(log)>>
        BY <3>1, <3>3, LogShape DEF Needed
      <4> QED
        BY <1>6, <4>1 DEF DecimalsKnown, Goto, LogInHand, PoolKnown, DecimalsOfBoth, lookupVars
    <3>4. CASE /\ log.kind = "swap" /\ needs = <<TokenOut(log)>>
               /\ decimals[TokenIn(log)] = "known"
      BY <1>6, <3>1, <3>4
      DEF DecimalsKnown, Goto, LogInHand, PoolKnown, DecimalsOfBoth, lookupVars
    <3> QED
      BY <3>1, <3>2, <3>3, <3>4 DEF LookupUnderWay
  <2> QED
    BY <2>1, <2>2 DEF BackedInv
<1>7. CASE DecimalsFailed
  <2>1. AlertsAreBacked'
    BY <1>7, StaysBacked DEF DecimalsFailed, Continue, serviceVars, lookupVars
  <2> QED
    BY <1>7, <2>1 DEF DecimalsFailed, Continue, BackedInv, LogInHand
<1>8. CASE PriceMissing
  <2>1. AlertsAreBacked'
    BY <1>8, StaysBacked DEF PriceMissing, Want, Continue, lookupVars
  <2> QED
    BY <1>8, <2>1 DEF PriceMissing, Continue, BackedInv, LogInHand
<1>9. CASE Value
  <2>1. PoolKnown(log) /\ DecimalsOfBoth(log) /\ TokenIn(log) \in known
    BY <1>9 DEF Value, LogInHand
  <2>2. alerted' \subseteq alerted \cup {log} /\ UNCHANGED <<known, decimals, pools>>
    BY <1>9 DEF Value, serviceVars, lookupVars
  <2>3. AlertsAreBacked'
    BY <2>1, <2>2 DEF AlertsAreBacked, PoolKnown, DecimalsOfBoth
  <2> QED
    BY <1>9, <2>3 DEF Value, Continue, BackedInv, LogInHand
<1>10. CASE ServiceStep /\ UNCHANGED <<cancelled, valuationVars>>
  <2>1. known \subseteq known'
    BY <1>10, ServiceStepType DEF TypeOK
  <2>2. AlertsAreBacked'
    BY <1>10, <2>1, StaysBacked DEF valuationVars, lookupVars, resultVars
  <2> QED
    BY <1>10, <2>2
    DEF valuationVars, lookupVars, BackedInv, LogInHand, PoolKnown, LookupUnderWay, DecimalsOfBoth
<1>11. CASE UNCHANGED <<serviceVars, valuationVars>>
  BY <1>11 DEF serviceVars, valuationVars, lookupVars, resultVars, BackedInv, AlertsAreBacked,
               LogInHand, PoolKnown, LookupUnderWay, DecimalsOfBoth
<1> QED
  BY <1>1, <1>2, <1>3, <1>4, <1>5, <1>6, <1>7, <1>8, <1>9, <1>10, <1>11
  DEF Next, ValuationStep, vars

(***************************************************************************)
(* An event is only made of a log whose pool, decimals and price are       *)
(* known, and they stay known (watcher.go:214-229, swap.go:50-83).         *)
(***************************************************************************)
THEOREM EventsAreBacked == Spec => []AlertsAreBacked
<1>1. Init => BackedInv
  BY DEF Init, BackedInv, LogInHand, AlertsAreBacked
<1>2. BackedInv => AlertsAreBacked
  BY DEF BackedInv
<1> QED
  BY <1>1, <1>2, NextBacked, TypeCorrect, PTL DEF Spec
=============================================================================
