---------------------------- MODULE PriceCacheProofs ----------------------------
(***************************************************************************)
(* Proofs about the price cache, for every finite set of tokens and every  *)
(* batch size.                                                             *)
(***************************************************************************)
EXTENDS PriceCache, FiniteSetTheorems, TLAPS

-------------------------------------------------------------------------------
(* Type correctness. *)

LEMMA InitType == Init => TypeOK
BY DEF Init, ContextInit, TypeOK

LEMMA NextType == TypeOK /\ [Next]_vars => TypeOK'
<1> SUFFICES ASSUME TypeOK, [Next]_vars PROVE TypeOK'
  OBVIOUS
<1> USE DEF TypeOK, Goto, listVars, limiterVars
<1>1. ASSUME NEW t \in Token, Miss(t) PROVE TypeOK'
  BY <1>1 DEF Miss
<1>2. CASE ScheduleFetch
  BY <1>2 DEF ScheduleFetch
<1>3. CASE TakePending
  BY <1>3 DEF TakePending
<1>4. CASE CollectStale
  BY <1>4 DEF CollectStale, Old
<1>5. CASE NextSlice
  BY <1>5 DEF NextSlice, Slices
<1>6. CASE LastSliceDone \/ WaitForPermit \/ GiveUp \/ FetchFails \/ RefresherStops
  BY <1>6 DEF LastSliceDone, WaitForPermit, GiveUp, FetchFails, RefresherStops
<1>7. CASE Store
  BY <1>7 DEF Store
<1>8. ASSUME NEW t \in Token, Expire(t) PROVE TypeOK'
  BY <1>8 DEF Expire
<1>9. CASE Refill
  BY <1>9 DEF Refill
<1>10. CASE Shutdown
  BY <1>10 DEF Shutdown, Cancel, cacheVars
<1>11. CASE UNCHANGED vars
  BY <1>11 DEF vars, cacheVars
<1> QED
  BY <1>1, <1>2, <1>3, <1>4, <1>5, <1>6, <1>7, <1>8, <1>9, <1>10, <1>11
  DEF Next, RefresherStep

(***************************************************************************)
(* Every variable of the cache, of the refresher's list and of its limiter *)
(* keeps its type (coingecko.go:32-58), for all constants.                 *)
(***************************************************************************)
THEOREM TypeCorrect == Spec => []TypeOK
BY InitType, NextType, PTL DEF Spec

-------------------------------------------------------------------------------
(* The lists. *)

\* A request names at least one token and at most BatchSize of the list.
LEMMA SliceSize ==
  ASSUME fetching \subseteq Token, stale \subseteq Token, fetching \cup stale # {},
         NEW s \in Slices
  PROVE  s \subseteq fetching \cup stale /\ s # {} /\ Cardinality(s) <= BatchSize
<1>1. IsFiniteSet(fetching \cup stale)
  BY FS_Subset, BatchAssumption
<1>2. Cardinality(fetching \cup stale) \in Nat /\ Cardinality(fetching \cup stale) # 0
  BY <1>1, FS_CardinalityType, FS_EmptySet
<1>3. Cardinality(s) = Smaller(BatchSize, Cardinality(fetching \cup stale))
  BY DEF Slices
<1>4. Cardinality(s) <= BatchSize /\ Cardinality(s) # 0
  BY <1>2, <1>3, BatchAssumption DEF Smaller
<1>5. s # {}
  BY <1>4, FS_EmptySet
<1> QED
  BY <1>4, <1>5 DEF Slices

(***************************************************************************)
(* AskedOnce is not inductive: it needs that a refresh starts with empty   *)
(* lists, although each of them is filled and emptied by other steps.      *)
(***************************************************************************)
ListsByStage ==
  /\ pc \notin {"limit", "fetch"} => batch = {}
  /\ pc \in {"limit", "fetch"} => batch # {}
  /\ pc \in {"wait", "collect", "done"} => stale = {}
  /\ pc \in {"wait", "done"} => fetching = {}

ListInv == ListsByStage /\ AskedOnce

LEMMA InitList == Init => ListInv
BY FS_EmptySet, BatchAssumption DEF Init, ListInv, ListsByStage, AskedOnce

LEMMA NextList == TypeOK /\ ListInv /\ [Next]_vars => ListInv'
<1> SUFFICES ASSUME TypeOK, ListInv, [Next]_vars PROVE ListInv'
  OBVIOUS
<1> USE DEF ListInv, ListsByStage, AskedOnce, Goto
<1>0. Cardinality({}) <= BatchSize
  BY FS_EmptySet, BatchAssumption
<1>1. CASE TakePending
  BY <1>1 DEF TakePending
<1>2. CASE CollectStale
  BY <1>2 DEF CollectStale
<1>3. CASE NextSlice
  <2>1. /\ batch' \subseteq fetching \cup stale /\ batch' # {}
        /\ Cardinality(batch') <= BatchSize
    BY <1>3, SliceSize DEF NextSlice, TypeOK
  <2> QED
    BY <1>3, <2>1 DEF NextSlice
<1>4. CASE LastSliceDone
  BY <1>4 DEF LastSliceDone, listVars
<1>5. CASE WaitForPermit
  BY <1>5 DEF WaitForPermit, listVars
<1>6. CASE GiveUp \/ Store \/ FetchFails
  BY <1>0, <1>6 DEF GiveUp, Store, FetchFails
<1>7. CASE RefresherStops
  BY <1>7 DEF RefresherStops, listVars
<1>8. CASE UNCHANGED <<pc, listVars>>
  BY <1>8 DEF listVars
<1> QED
  BY <1>1, <1>2, <1>3, <1>4, <1>5, <1>6, <1>7, <1>8
  DEF Next, RefresherStep, Miss, ScheduleFetch, Expire, Refill, Shutdown, vars, cacheVars

LEMMA Lists == Spec => []ListInv
BY InitList, NextList, TypeCorrect, PTL DEF Spec

(***************************************************************************)
(* A refresh asks for each token at most once, in requests of at most      *)
(* BatchSize tokens, also when a token is both scheduled and has an old    *)
(* price (coingecko.go:95-107).                                            *)
(***************************************************************************)
THEOREM EachTokenAskedOnce == Spec => []AskedOnce
<1>1. ListInv => AskedOnce
  BY DEF ListInv
<1> QED
  BY <1>1, Lists, PTL

-------------------------------------------------------------------------------
(* The refinement. *)

Known == {t \in Token : cache[t] # "none"}
Wanted == missed \cup pending \cup fetching

\* A request may name a token that is not wanted if its price is known, but old.
StaleIsKnown == stale \subseteq Known

LEMMA NextStale == TypeOK /\ ListInv /\ StaleIsKnown /\ [Next]_vars => StaleIsKnown'
<1> SUFFICES ASSUME TypeOK, ListInv, StaleIsKnown, [Next]_vars PROVE StaleIsKnown'
  OBVIOUS
<1>1. Known \subseteq Known'
  <2>1. CASE Store
    BY <2>1 DEF Store, TypeOK, Known
  <2>2. ASSUME NEW t \in Token, Expire(t) PROVE Known \subseteq Known'
    BY <2>2 DEF Expire, TypeOK, Known
  <2>3. CASE UNCHANGED cache
    BY <2>3 DEF Known
  <2> QED
    BY <2>1, <2>2, <2>3
    DEF Next, RefresherStep, Miss, ScheduleFetch, TakePending, CollectStale, NextSlice,
        LastSliceDone, WaitForPermit, GiveUp, FetchFails, RefresherStops, Refill, Shutdown,
        vars, cacheVars
<1>2. CASE CollectStale
  BY <1>1, <1>2 DEF CollectStale, Old, Known, StaleIsKnown
<1>3. stale' \subseteq stale \/ CollectStale
  BY DEF Next, RefresherStep, Miss, ScheduleFetch, TakePending, NextSlice, LastSliceDone,
         WaitForPermit, GiveUp, Store, FetchFails, RefresherStops, Expire, Refill, Shutdown,
         vars, cacheVars, listVars
<1> QED
  BY <1>1, <1>2, <1>3 DEF StaleIsKnown

LEMMA InitService == Init => Service!ContextInit /\ Service!ServiceInit
<1> SUFFICES ASSUME Init PROVE Service!ContextInit /\ Service!ServiceInit
  OBVIOUS
<1>1. Known = {} /\ Wanted = {}
  BY DEF Init, Known, Wanted
<1> QED
  BY <1>1
  DEF Init, ContextInit, Known, Wanted, Service!ContextInit, Service!ServiceInit

\* What a step may do to the service without being a step of it.
ServiceUnchanged == UNCHANGED <<cancelled, Known, Wanted, batch>>

LEMMA NextService ==
  TypeOK /\ ListInv /\ StaleIsKnown /\ [Next]_vars
    => [Service!ServiceNext]_<<cancelled, Service!serviceVars>>
<1> SUFFICES ASSUME TypeOK, ListInv, StaleIsKnown, [Next]_vars
             PROVE  Service!ServiceNext \/ ServiceUnchanged
  BY DEF ServiceUnchanged, Known, Wanted, Service!serviceVars
<1>0. ListsByStage
  BY DEF ListInv
<1>1. ASSUME NEW t \in Token, Miss(t) PROVE Service!ServiceNext
  <2>1. t \notin Known /\ Wanted' = Wanted \cup {t} /\ Known' = Known
    BY <1>1 DEF Miss, Known, Wanted, listVars
  <2>2. Service!Want(t)
    BY <1>1, <2>1 DEF Miss, Known, Wanted, listVars, Service!Want
  <2> QED
    BY <1>1, <2>2 DEF Miss, Service!ServiceNext
<1>2. CASE ScheduleFetch
  <2>1. Wanted' = Wanted /\ Known' = Known
    BY <1>2 DEF ScheduleFetch, Known, Wanted, listVars
  <2> QED
    BY <1>2, <2>1 DEF ScheduleFetch, ServiceUnchanged, listVars
<1>3. CASE TakePending
  <2>1. Wanted' = Wanted /\ Known' = Known
    BY <1>0, <1>3 DEF TakePending, Goto, ListsByStage, Known, Wanted
  <2> QED
    BY <1>3, <2>1 DEF TakePending, ServiceUnchanged
<1>4. CASE CollectStale
  BY <1>4 DEF CollectStale, ServiceUnchanged, Known, Wanted
<1>5. CASE NextSlice
  <2>1. batch' \subseteq fetching \cup stale /\ batch' # {}
    BY <1>5, SliceSize DEF NextSlice, TypeOK
  <2>2. batch = {} /\ Known' = Known /\ Wanted' = missed \cup pending \cup (fetching \ batch')
    BY <1>0, <1>5 DEF NextSlice, Goto, ListsByStage, Known, Wanted
  <2>3. /\ batch' \in (SUBSET (Wanted \cup Known)) \ {{}}
        /\ Wanted' \in SUBSET Wanted /\ Wanted \subseteq Wanted' \cup batch'
    BY <2>1, <2>2 DEF StaleIsKnown, Wanted
  <2>4. Service!Send
    BY <2>2, <2>3 DEF Known, Wanted, Service!Send
  <2> QED
    BY <1>5, <2>4 DEF NextSlice, Service!ServiceNext, Service!ServiceStep
<1>6. CASE LastSliceDone \/ WaitForPermit \/ RefresherStops
  BY <1>6 DEF LastSliceDone, WaitForPermit, RefresherStops, listVars, ServiceUnchanged, Known,
              Wanted
<1>7. CASE GiveUp
  <2>1. Service!Abandon
    BY <1>7 DEF GiveUp, Service!Abandon
  <2> QED
    BY <1>7, <2>1 DEF GiveUp, Service!ServiceNext, Service!ServiceStep
<1>8. CASE Store
  <2>1. PICK priced \in SUBSET batch :
          cache' = [t \in Token |-> IF t \in priced THEN "fresh" ELSE cache[t]]
    BY <1>8 DEF Store
  <2>2. Known' = Known \cup priced
    BY <2>1 DEF TypeOK, Known
  <2>3. batch # {} /\ batch' = {} /\ Wanted' = Wanted
    BY <1>0, <1>8 DEF Store, Goto, ListsByStage, Wanted
  <2>4. Service!Answer
    BY <2>2, <2>3 DEF Known, Wanted, Service!Answer
  <2> QED
    BY <1>8, <2>4 DEF Store, Service!ServiceNext, Service!ServiceStep
<1>9. CASE FetchFails
  <2>1. /\ batch # {} /\ batch' = {} /\ Wanted' = Wanted
        /\ Known' = Known \cup {} /\ {} \in SUBSET batch
    BY <1>0, <1>9 DEF FetchFails, Goto, ListsByStage, Wanted, Known
  <2>2. Service!Answer
    BY <2>1 DEF Known, Wanted, Service!Answer
  <2> QED
    BY <1>9, <2>2 DEF FetchFails, Service!ServiceNext, Service!ServiceStep
<1>10. ASSUME NEW t \in Token, Expire(t) PROVE ServiceUnchanged
  <2>1. Known' = Known
    BY <1>10 DEF Expire, TypeOK, Known
  <2> QED
    BY <1>10, <2>1 DEF Expire, listVars, ServiceUnchanged, Wanted
<1>11. CASE Refill
  BY <1>11 DEF Refill, listVars, ServiceUnchanged, Known, Wanted
<1>12. CASE Shutdown
  BY <1>12 DEF Shutdown, Cancel, cacheVars, listVars, Service!Cancel, Service!serviceVars,
               Service!ServiceNext
<1>13. CASE UNCHANGED vars
  BY <1>13 DEF vars, cacheVars, listVars, ServiceUnchanged, Known, Wanted
<1> QED
  BY <1>1, <1>2, <1>3, <1>4, <1>5, <1>6, <1>7, <1>8, <1>9, <1>10, <1>11, <1>12, <1>13
  DEF Next, RefresherStep

(***************************************************************************)
(* The two goroutines and their mutexes implement the price service: a     *)
(* token that was missed stays wanted until a request names it, and a      *)
(* price, once known, stays available (coingecko.go:60-144).               *)
(***************************************************************************)
THEOREM ServiceImplemented == Spec => ImplementsService
<1>1. Spec => []StaleIsKnown
  <2>1. Init => StaleIsKnown
    BY DEF Init, StaleIsKnown
  <2> QED
    BY <2>1, NextStale, TypeCorrect, Lists, PTL DEF Spec
<1> QED
  BY <1>1, InitService, NextService, TypeCorrect, Lists, PTL
  DEF Spec, ImplementsService, Service!ServiceSpec
=============================================================================
