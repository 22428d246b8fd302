------------------------------ MODULE BloomBench ------------------------------
(***************************************************************************)
(* The bloom benchmark (benchmarks/bloombench/bench.go, run by             *)
(* cmd/bloom-bench): for each of the last BlockCount blocks, compare what  *)
(* the bloom filter in the block's header says of some log topics with the *)
(* logs of the block.  Blocks are processed by goroutines, of which a      *)
(* channel used as a semaphore admits Slots at a time.                     *)
(*                                                                         *)
(* A block is read twice, by number: its header, then, if the filter says  *)
(* yes to a topic, its receipts.  The node may move to another fork        *)
(* between any two reads.                                                  *)
(***************************************************************************)
EXTENDS Integers, Node, Retry

CONSTANTS
  Topic,       \* the topics asked about
  TopicOf,     \* TopicOf[l] is the first topic of log l
  Bloom,       \* Bloom[b]: the topics for which b's filter says yes
  BlockCount,  \* how many blocks to analyse
  Concurrency  \* as configured; New replaces it when it is not positive

TopicsIn(b) == {TopicOf[l] : l \in LogsIn[b]} \cap Topic

\* A bloom filter may say yes for nothing, but never no to what is there.
ASSUME BloomAssumption ==
  /\ Bloom \in [Block -> SUBSET Topic]
  /\ \A b \in Block : TopicsIn(b) \subseteq Bloom[b]

ASSUME BenchAssumption ==
  /\ BlockCount \in Nat
  /\ Concurrency \in Int

Slots == IF Concurrency <= 0 THEN 4 ELSE Concurrency

Index == 0..(BlockCount - 1)

\* The caller of LatestBlockNumber; the goroutine of index i is caller i.
Main == BlockCount

(***************************************************************************)
(* BlockResult.  A result that was never filled in is Go's zero value: its *)
(* number is 0.  PerTopic is two sets: the topics with BloomMatch and the  *)
(* topics with Actual.                                                     *)
(***************************************************************************)
Result == [number : Nat, skipped : BOOLEAN,
           match : SUBSET Topic, actual : SUBSET Topic]

Unfilled == [number |-> 0, skipped |-> FALSE, match |-> {}, actual |-> {}]

VARIABLES
  pc,       \* Run: "latest", "loop", "done" or "error"
  start,    \* startBlock
  spawned,  \* goroutines started so far
  worker,   \* by index: "none", "header", "receipts" or "done"
  match,    \* by index: what the filter of the header said
  results,
  failed

runVars == <<pc, start, spawned>>
workerVars == <<worker, match, results, failed>>
vars == <<cancelled, nodeVars, attempt, runVars, workerVars>>

\* The benchmark does not subscribe to anything, and nothing cancels it.
Init ==
  /\ ContextInit
  /\ head = Genesis
  /\ headers = <<>>
  /\ subscribed = FALSE
  /\ moves = 0
  /\ RetryInit(Index \cup {Main})
  /\ pc = "latest"
  /\ start = 0
  /\ spawned = 0
  /\ worker = [i \in Index |-> "none"]
  /\ match = [i \in Index |-> {}]
  /\ results = [i \in Index |-> Unfilled]
  /\ failed = 0

Active == {i \in Index : worker[i] \in {"header", "receipts"}}

-------------------------------------------------------------------------------
(* Run. *)

\* Mutant: the length of the chain is not checked.
TooLongNever(latest) == FALSE

TooLong(latest) == BlockCount > latest

GotLatest ==
  /\ pc = "latest"
  /\ Returned(Main)
  /\ IF TooLong(Number[head])
       THEN pc' = "error" /\ UNCHANGED start
       ELSE pc' = "loop" /\ start' = (Number[head] + 1) - BlockCount
  /\ UNCHANGED <<cancelled, nodeVars, spawned, workerVars>>

NoLatest ==
  /\ pc = "latest"
  /\ GiveUp(Main)
  /\ pc' = "error"
  /\ UNCHANGED <<cancelled, nodeVars, start, spawned, workerVars>>

\* Mutant: a goroutine that fails keeps its slot.
SlotFreeUnlessFailed == Cardinality(Active) + failed < Slots

SlotFree == Cardinality(Active) < Slots

\* An iteration of the loop: acquire the semaphore, start the goroutine.
Spawn ==
  /\ pc = "loop"
  /\ spawned < BlockCount
  /\ SlotFree
  /\ worker' = [worker EXCEPT ![spawned] = "header"]
  /\ spawned' = spawned + 1
  /\ UNCHANGED <<cancelled, nodeVars, attempt, pc, start, match, results, failed>>

\* Mutant: Run returns when the last goroutine has started.
AllSpawned == spawned = BlockCount

AllDone == \A i \in Index : worker[i] = "done"

\* wg.Wait() returns.
Finish ==
  /\ pc = "loop"
  /\ AllDone
  /\ pc' = "done"
  /\ UNCHANGED <<cancelled, nodeVars, attempt, start, spawned, workerVars>>

-------------------------------------------------------------------------------
(* processBlock, by the goroutine of index i. *)

\* Mutant: the numbers are off by one.
BlockAfter(i) == CanonicalAt(start + i + 1)

BlockAt(i) == CanonicalAt(start + i)

\* Mutant: receipts are only read if the filter says yes to all topics.
AllMatch(m) == m = Topic

NeedReceipts(m) == m # {}

\* The goroutine ends: it stores its result and releases the semaphore.
Store(i, result) ==
  /\ worker' = [worker EXCEPT ![i] = "done"]
  /\ results' = [results EXCEPT ![i] = result]

GotHeader(i) ==
  /\ worker[i] = "header"
  /\ Returned(i)
  /\ \E b \in BlockAt(i) :
       /\ match' = [match EXCEPT ![i] = Bloom[b]]
       /\ IF NeedReceipts(Bloom[b])
            THEN worker' = [worker EXCEPT ![i] = "receipts"] /\ UNCHANGED results
            ELSE Store(i, [number |-> start + i, skipped |-> TRUE,
                           match |-> Bloom[b], actual |-> {}])
  /\ UNCHANGED <<cancelled, nodeVars, runVars, failed>>

GotReceipts(i) ==
  /\ worker[i] = "receipts"
  /\ Returned(i)
  /\ \E b \in BlockAt(i) :
       Store(i, [number |-> start + i, skipped |-> FALSE,
                 match |-> match[i], actual |-> TopicsIn(b)])
  /\ UNCHANGED <<cancelled, nodeVars, runVars, match, failed>>

\* Either read fails for good: the result stays unfilled.
Fail(i) ==
  /\ i \in Active
  /\ GiveUp(i)
  /\ worker' = [worker EXCEPT ![i] = "done"]
  /\ failed' = failed + 1
  /\ UNCHANGED <<cancelled, nodeVars, runVars, match, results>>

\* A read fails and is tried again.
Again(c) ==
  /\ c \in Active \/ (c = Main /\ pc = "latest")
  /\ TryAgain(c)
  /\ UNCHANGED <<cancelled, nodeVars, runVars, workerVars>>

-------------------------------------------------------------------------------
Worker(i) == GotHeader(i) \/ GotReceipts(i) \/ Fail(i) \/ Again(i)

MainStep == GotLatest \/ NoLatest \/ Again(Main) \/ Spawn \/ Finish

\* The node moves on.
Reorg ==
  /\ \E b \in Block : NewHead(b)
  /\ UNCHANGED <<cancelled, attempt, runVars, workerVars>>

Next ==
  \/ MainStep
  \/ \E i \in Index : Worker(i)
  \/ Reorg

Spec == Init /\ [][Next]_vars

\* Goroutines are scheduled, and the node answers every request.
FairSpec ==
  /\ Spec
  /\ WF_vars(MainStep)
  /\ \A i \in Index : WF_vars(Worker(i))

-------------------------------------------------------------------------------
(* Aggregate and BuildSummary. *)

Analyzed == {i \in Index : results[i].number # 0}

TP(t) == Cardinality({i \in Analyzed : t \in results[i].match \cap results[i].actual})
FP(t) == Cardinality({i \in Analyzed : t \in results[i].match \ results[i].actual})
FN(t) == Cardinality({i \in Analyzed : t \in results[i].actual \ results[i].match})
TN(t) == Cardinality({i \in Analyzed : t \notin results[i].actual \cup results[i].match})

-------------------------------------------------------------------------------
(* Properties. *)

TypeOK ==
  /\ head \in Block
  /\ RetryTypeOK(Index \cup {Main})
  /\ pc \in {"latest", "loop", "done", "error"}
  /\ start \in Nat
  /\ spawned \in 0..BlockCount
  /\ worker \in [Index -> {"none", "header", "receipts", "done"}]
  /\ match \in [Index -> SUBSET Topic]
  /\ results \in [Index -> Result]
  /\ failed \in 0..BlockCount

(***************************************************************************)
(* bench.go:77-110, 163-186.  When Run returns, each block either failed   *)
(* and was counted as failed, or is analysed, and for each topic the four  *)
(* outcomes add up to the analysed blocks.  This rests on block 0 never    *)
(* being asked for: Aggregate takes number 0 for a result not filled in.   *)
(***************************************************************************)
EveryBlockAccounted ==
  pc = "done" =>
    /\ Cardinality(Analyzed) + failed = BlockCount
    /\ \A t \in Topic : TP(t) + FP(t) + TN(t) + FN(t) = Cardinality(Analyzed)

(***************************************************************************)
(* bench.go:28, 134-137.  A block whose receipts were not read is one that *)
(* has no log of the topics, whatever the chain did in the meantime.       *)
(***************************************************************************)
SkippingIsSound ==
  \A i \in Analyzed :
    results[i].skipped =>
      \E b \in Block : /\ Number[b] = results[i].number
                       /\ TopicsIn(b) = {}

(***************************************************************************)
(* bench.go:163-186.  On a chain that does not move the benchmark measures *)
(* the truth: per topic, the outcomes are those of the blocks themselves.  *)
(***************************************************************************)
TruthfulOnStableChain ==
  moves = 0 =>
    \A i \in Analyzed :
      \E b \in ChainOf[head] :
        /\ Number[b] = results[i].number
        /\ results[i].match = Bloom[b]
        /\ results[i].actual = TopicsIn(b)

\* bench.go:106.  Run returns: no goroutine waits for a slot for ever.
RunReturns == <>(pc \in {"done", "error"})

\* bench.go:180.  "must always be 0 -- bloombench never lies negatively".
NoFalseNegative == \A t \in Topic : FN(t) = 0
=============================================================================
