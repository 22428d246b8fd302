------------------------------ MODULE PriceCache ------------------------------
(***************************************************************************)
(* The token prices (internal/client/coingecko.go).  Two goroutines share  *)
(* a price cache and a set of tokens to fetch, each behind its own mutex:  *)
(* the Watcher asks for prices and never waits for the network; a          *)
(* refresher wakes up on a ticker and asks CoinGecko, batch by batch.      *)
(* Each action is one critical section, or one wait, of one goroutine.     *)
(***************************************************************************)
EXTENDS Naturals, FiniteSets, Context

CONSTANTS
  Token,     \* token addresses, in lower case
  BatchSize  \* tokens per request (50)

ASSUME BatchAssumption ==
  /\ IsFiniteSet(Token)
  /\ BatchSize \in Nat \ {0}

VARIABLES
  cache,     \* cg.cache: is there a price, and is it older than cacheTTL?
  pending,   \* cg.pending
  missed,    \* tokens the Watcher has found no price for and not yet scheduled
  pc,        \* where the refresher is
  fetching,  \* tokens taken from cg.pending, in the list still to be sent
  stale,     \* tokens added because their price is old, after the former
  batch,     \* tokens of the request that is next or under way
  permit,    \* the limiter has a permit
  slowed     \* the limiter runs at its slower rate, after a status 429

listVars == <<fetching, stale, batch>>
limiterVars == <<permit, slowed>>
cacheVars == <<cache, pending, missed, pc, listVars, limiterVars>>
vars == <<cancelled, cacheVars>>

Init ==
  /\ ContextInit
  /\ cache = [t \in Token |-> "none"]
  /\ pending = {}
  /\ missed = {}
  /\ pc = "wait"
  /\ fetching = {}
  /\ stale = {}
  /\ batch = {}
  /\ permit = TRUE
  /\ slowed = FALSE

Goto(from, to) == pc = from /\ pc' = to

-------------------------------------------------------------------------------
(* PriceInETH, called by the Watcher: one call at a time.                  *)

(***************************************************************************)
(* No price: the read lock is released before scheduleFetch locks          *)
(* pendingMu.  A price in the cache, however old, is returned at once and  *)
(* changes nothing.                                                        *)
(***************************************************************************)
Miss(t) ==
  /\ missed = {}
  /\ cache[t] = "none"
  /\ missed' = {t}
  /\ UNCHANGED <<cancelled, cache, pending, pc, listVars, limiterVars>>

ScheduleFetch ==
  /\ missed # {}
  /\ pending' = pending \cup missed
  /\ missed' = {}
  /\ UNCHANGED <<cancelled, cache, pc, listVars, limiterVars>>

-------------------------------------------------------------------------------
(* Run and refresh. *)

\* The ticker fires and the refresher takes the tokens to fetch.
TakePending ==
  /\ Goto("wait", "collect")
  /\ fetching' = pending
  /\ pending' = {}
  /\ UNCHANGED <<cancelled, cache, missed, stale, batch, limiterVars>>

Old == {t \in Token : cache[t] = "stale"}

\* Mutant: nothing pending, nothing to do.
CollectStaleSometimes ==
  /\ Goto("collect", IF fetching = {} THEN "wait" ELSE "slice")
  /\ stale' = IF fetching = {} THEN {} ELSE Old \ fetching
  /\ UNCHANGED <<cancelled, cache, pending, missed, fetching, batch, limiterVars>>

\* Mutant: no look at the tokens seen.
CollectStaleTwice ==
  /\ Goto("collect", IF fetching \cup Old = {} THEN "wait" ELSE "slice")
  /\ stale' = Old
  /\ UNCHANGED <<cancelled, cache, pending, missed, fetching, batch, limiterVars>>

\* Under the read lock: add the tokens with an old price, each token once.
CollectStale ==
  /\ Goto("collect", IF fetching \cup Old = {} THEN "wait" ELSE "slice")
  /\ stale' = Old \ fetching
  /\ UNCHANGED <<cancelled, cache, pending, missed, fetching, batch, limiterVars>>

-------------------------------------------------------------------------------
(* fetchBatch *)

Smaller(m, n) == IF m < n THEN m ELSE n

\* What tokens[i:end] may hold: map order is random, stale tokens come last.
Slices ==
  {s \in SUBSET (fetching \cup stale) :
     /\ Cardinality(s) = Smaller(BatchSize, Cardinality(fetching \cup stale))
     /\ s \subseteq fetching \/ fetching \subseteq s}

NextSlice ==
  /\ Goto("slice", "limit")
  /\ fetching \cup stale # {}
  /\ batch' \in Slices
  /\ fetching' = fetching \ batch'
  /\ stale' = stale \ batch'
  /\ UNCHANGED <<cancelled, cache, pending, missed, limiterVars>>

\* Mutant: cg.pending is emptied when the refresh is over.
LastSliceDoneClearing ==
  /\ Goto("slice", "wait")
  /\ fetching \cup stale = {}
  /\ pending' = {}
  /\ UNCHANGED <<cancelled, cache, missed, listVars, limiterVars>>

LastSliceDone ==
  /\ Goto("slice", "wait")
  /\ fetching \cup stale = {}
  /\ UNCHANGED <<cancelled, cache, pending, missed, listVars, limiterVars>>

\* limiter.Wait gets its permit.
WaitForPermit ==
  /\ Goto("limit", "fetch")
  /\ permit
  /\ permit' = FALSE
  /\ UNCHANGED <<cancelled, cache, pending, missed, listVars, slowed>>

\* limiter.Wait returns the context's error: what is left of the list is dropped.
GiveUp ==
  /\ Goto("limit", "wait")
  /\ cancelled
  /\ fetching' = {}
  /\ stale' = {}
  /\ batch' = {}
  /\ UNCHANGED <<cancelled, cache, pending, missed, limiterVars>>

\* Mutant: the answer replaces the cache.
StoreOnly ==
  /\ Goto("fetch", "slice")
  /\ \E priced \in SUBSET batch : cache' = [t \in priced |-> "fresh"]
  /\ batch' = {}
  /\ UNCHANGED <<cancelled, pending, missed, fetching, stale, limiterVars>>

\* CoinGecko answers with prices for some of the tokens; they are stored.  The code
\* stores a price for any address in the answer (coingecko.go:137); that those are
\* addresses of the request is an assumption about CoinGecko.
Store ==
  /\ Goto("fetch", "slice")
  /\ \E priced \in SUBSET batch :
       cache' = [t \in Token |-> IF t \in priced THEN "fresh" ELSE cache[t]]
  /\ batch' = {}
  /\ UNCHANGED <<cancelled, pending, missed, fetching, stale, limiterVars>>

\* Mutant: a failed batch ends the refresh.
FetchFailsForAll ==
  /\ Goto("fetch", "wait")
  /\ batch' = {}
  /\ fetching' = {}
  /\ stale' = {}
  /\ slowed' \in {slowed, TRUE}
  /\ UNCHANGED <<cancelled, cache, pending, missed, permit>>

\* The request fails; a status 429 slows the limiter down, for good.
FetchFails ==
  /\ Goto("fetch", "slice")
  /\ batch' = {}
  /\ slowed' \in {slowed, TRUE}
  /\ UNCHANGED <<cancelled, cache, pending, missed, fetching, stale, permit>>

RefresherStops ==
  /\ cancelled
  /\ Goto("wait", "done")
  /\ UNCHANGED <<cancelled, cache, pending, missed, listVars, limiterVars>>

-------------------------------------------------------------------------------
(* Time. *)

Expire(t) ==
  /\ cache[t] = "fresh"
  /\ cache' = [cache EXCEPT ![t] = "stale"]
  /\ UNCHANGED <<cancelled, pending, missed, pc, listVars, limiterVars>>

Refill ==
  /\ ~permit
  /\ permit' = TRUE
  /\ UNCHANGED <<cancelled, cache, pending, missed, pc, listVars, slowed>>

-------------------------------------------------------------------------------
RefresherStep ==
  \/ TakePending
  \/ CollectStale
  \/ NextSlice
  \/ LastSliceDone
  \/ WaitForPermit
  \/ GiveUp
  \/ Store
  \/ FetchFails
  \/ RefresherStops

Shutdown == Cancel /\ UNCHANGED cacheVars

Next ==
  \/ \E t \in Token : Miss(t)
  \/ ScheduleFetch
  \/ RefresherStep
  \/ \E t \in Token : Expire(t)
  \/ Refill
  \/ Shutdown

Spec == Init /\ [][Next]_vars

(***************************************************************************)
(* The goroutines are scheduled, the ticker fires, a permit comes back     *)
(* after the limiter's interval, and a request ends within its time limit. *)
(***************************************************************************)
FairSpec ==
  Spec /\ WF_vars(RefresherStep) /\ WF_vars(ScheduleFetch) /\ WF_vars(Refill)

-------------------------------------------------------------------------------
(* Properties. *)

TypeOK ==
  /\ cancelled \in BOOLEAN
  /\ cache \in [Token -> {"none", "fresh", "stale"}]
  /\ pending \subseteq Token
  /\ missed \subseteq Token
  /\ pc \in {"wait", "collect", "slice", "limit", "fetch", "done"}
  /\ fetching \subseteq Token
  /\ stale \subseteq Token
  /\ batch \subseteq Token
  /\ permit \in BOOLEAN
  /\ slowed \in BOOLEAN

(***************************************************************************)
(* coingecko.go:95-107.  A refresh asks for each token once.  A token can  *)
(* be scheduled and have an old price: its price may arrive between the    *)
(* Watcher's read of the cache and its scheduleFetch.                      *)
(***************************************************************************)
AskedOnce ==
  /\ fetching \cap stale = {}
  /\ batch \cap (fetching \cup stale) = {}
  /\ Cardinality(batch) <= BatchSize

Service == INSTANCE PriceService WITH
             known <- {t \in Token : cache[t] # "none"},
             wanted <- missed \cup pending \cup fetching,
             asked <- batch

(***************************************************************************)
(* coingecko.go:60-144.  Two goroutines, two mutexes and a list that is    *)
(* sent in batches together do what PriceService promises: a token the     *)
(* Watcher missed stays wanted until a request names it, whatever is       *)
(* scheduled, stored or failing in the meantime, and known prices stay.    *)
(***************************************************************************)
ImplementsService == Service!ServiceSpec

(***************************************************************************)
(* coingecko.go:60-82.  While a token is unknown, a call that misses it is *)
(* followed by a request that names it.                                    *)
(***************************************************************************)
MissLeadsToRequest ==
  \A t \in Token : t \in missed ~> ((t \in batch /\ pc = "fetch") \/ cancelled)

(***************************************************************************)
(* coingecko.go:95-113.  A price that has become old is asked for again,   *)
(* however often the requests before failed.                               *)
(***************************************************************************)
OldPriceIsRequested ==
  \A t \in Token :
    cache[t] = "stale" ~> ((t \in batch /\ pc = "fetch") \/ cancelled)
=============================================================================
