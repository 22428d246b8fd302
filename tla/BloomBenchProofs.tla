--------------------------- MODULE BloomBenchProofs ---------------------------
(***************************************************************************)
(* Proofs about the bloom benchmark, for every chain, every set of topics, *)
(* every number of blocks, goroutines and retries.                         *)
(***************************************************************************)
EXTENDS BloomBench, FiniteSetTheorems, TLAPS

(***************************************************************************)
(* The inductive invariant.  The goroutines are those of the first         *)
(* `spawned' indices, and there are none before the latest block is known. *)
(***************************************************************************)
InOrder ==
  /\ \A i \in Index : worker[i] # "none" => i < spawned
  /\ pc \in {"latest", "error"} => spawned = 0
  /\ pc = "done" => AllDone

\* The length check of Run keeps block 0 out, so a filled result has a number.
FilledWhenDone ==
  /\ pc \in {"loop", "done"} => start > 0
  /\ \A i \in Index :
       \/ results[i] = Unfilled
       \/ worker[i] = "done" /\ results[i].number = start + i /\ start > 0

\* The indices whose goroutine ended without a result.
Failed == {i \in Index : worker[i] = "done" /\ results[i] = Unfilled}

BaseTypeOK ==
  /\ head \in Block
  /\ moves \in Nat
  /\ pc \in {"latest", "loop", "done", "error"}
  /\ start \in Nat
  /\ spawned \in 0..BlockCount
  /\ worker \in [Index -> {"none", "header", "receipts", "done"}]
  /\ match \in [Index -> SUBSET Topic]
  /\ results \in [Index -> Result]

BenchInv ==
  /\ BaseTypeOK
  /\ RetryTypeOK(Index \cup {Main})
  /\ InOrder
  /\ FilledWhenDone
  /\ failed = Cardinality(Failed)

-------------------------------------------------------------------------------
(* Operators. *)

LEMMA IndexFinite ==
  /\ IsFiniteSet(Index)
  /\ Cardinality(Index) = BlockCount
  /\ \A S \in SUBSET Index : IsFiniteSet(S) /\ Cardinality(S) \in 0..BlockCount
<1>1. IsFiniteSet(Index) /\ Cardinality(Index) = BlockCount
  <2>1. BlockCount \in Nat /\ 0 \in Int /\ BlockCount - 1 \in Int
    BY BenchAssumption
  <2>2. /\ IsFiniteSet(0..(BlockCount - 1))
        /\ Cardinality(0..(BlockCount - 1)) =
             IF 0 > BlockCount - 1 THEN 0 ELSE (BlockCount - 1) - 0 + 1
    BY <2>1, FS_Interval
  <2> QED
    BY <2>1, <2>2 DEF Index
<1>2. ASSUME NEW S \in SUBSET Index
      PROVE  IsFiniteSet(S) /\ Cardinality(S) \in 0..BlockCount
  <2>1. IsFiniteSet(S) /\ Cardinality(S) <= BlockCount
    BY <1>1, FS_Subset
  <2>2. Cardinality(S) \in Nat
    BY <2>1, FS_CardinalityType
  <2> QED
    BY <2>1, <2>2, BenchAssumption
<1> QED
  BY <1>1, <1>2

\* At most one canonical block has a given number.
LEMMA BlockAtUnique ==
  ASSUME head \in Block, NEW i \in Index, NEW b \in BlockAt(i)
  PROVE  BlockAt(i) = {b} /\ b \in Block /\ b \in ChainOf[head] /\ Number[b] = start + i
BY ChainAssumption DEF BlockAt, CanonicalAt

\* The counters of the retry loops stay in their range.
LEMMA RetryType ==
  ASSUME NEW callers, RetryTypeOK(callers), NEW c \in callers,
         Returned(c) \/ GiveUp(c) \/ TryAgain(c)
  PROVE  RetryTypeOK(callers)'
<1>1. CASE Returned(c) \/ GiveUp(c)
  BY <1>1, RetryAssumption DEF RetryTypeOK, Returned, GiveUp
<1>2. CASE TryAgain(c)
  <2>1. attempt[c] \in Nat /\ attempt[c] + 1 \in 0..Retries
    BY <1>2, RetryAssumption DEF RetryTypeOK, TryAgain
  <2> QED
    BY <1>2, <2>1 DEF RetryTypeOK, TryAgain
<1> QED
  BY <1>1, <1>2

\* An index has a result that counts if it was filled in.
LEMMA AnalyzedFilled ==
  ASSUME BaseTypeOK, FilledWhenDone
  PROVE  Analyzed = {i \in Index : results[i] # Unfilled}
<1>1. ASSUME NEW i \in Index, results[i] # Unfilled PROVE results[i].number # 0
  <2>1. results[i].number = start + i /\ start > 0 /\ start \in Nat /\ i \in Nat
    BY <1>1, BenchAssumption DEF BaseTypeOK, FilledWhenDone, Index
  <2> QED
    BY <2>1
<1>2. Unfilled.number = 0
  BY DEF Unfilled
<1> QED
  BY <1>1, <1>2 DEF Analyzed

-------------------------------------------------------------------------------
(* Type correctness, with the order of the goroutines and the count of     *)
(* the failures.                                                           *)

LEMMA InitBench == Init => BenchInv
<1> SUFFICES ASSUME Init PROVE BenchInv
  OBVIOUS
<1>1. Unfilled \in Result
  BY DEF Unfilled, Result
<1>2. BaseTypeOK
  BY <1>1, ChainAssumption, BenchAssumption DEF Init, BaseTypeOK
<1>3. RetryTypeOK(Index \cup {Main})
  BY RetryAssumption DEF Init, RetryInit, RetryTypeOK
<1>4. InOrder /\ FilledWhenDone
  BY DEF Init, InOrder, FilledWhenDone
<1>5. Failed = {}
  BY DEF Init, Failed
<1> QED
  BY <1>2, <1>3, <1>4, <1>5, FS_EmptySet DEF Init, BenchInv

\* The main goroutine learns the latest block, or does not.
LEMMA LatestBench ==
  ASSUME BenchInv, GotLatest \/ NoLatest
  PROVE  BenchInv'
<1> USE DEF BenchInv
<1>1. pc = "latest" /\ UNCHANGED <<head, moves, spawned, worker, match, results, failed>>
  BY DEF GotLatest, NoLatest, nodeVars, workerVars
<1>2. RetryTypeOK(Index \cup {Main})'
  BY RetryType DEF GotLatest, NoLatest
<1>3. \A i \in Index : worker[i] = "none" /\ results[i] = Unfilled
  <2>1. ASSUME NEW i \in Index PROVE worker[i] = "none"
    <3>1. i \in Nat /\ spawned = 0
      BY <1>1, BenchAssumption DEF InOrder, Index
    <3> QED
      BY <3>1 DEF InOrder
  <2> QED
    BY <2>1 DEF FilledWhenDone
<1>4. \/ pc' = "error" /\ start' = start
      \/ pc' = "loop" /\ start' \in Nat /\ start' > 0
  <2>1. Number[head] \in Nat /\ BlockCount \in Nat
    BY ChainAssumption, BenchAssumption DEF BaseTypeOK
  <2>2. CASE NoLatest
    BY <2>2 DEF NoLatest
  <2>3. CASE GotLatest /\ TooLong(Number[head])
    BY <2>3 DEF GotLatest
  <2>4. CASE GotLatest /\ ~TooLong(Number[head])
    <3>1. pc' = "loop" /\ start' = (Number[head] + 1) - BlockCount
      BY <2>4 DEF GotLatest
    <3>2. BlockCount <= Number[head]
      BY <2>1, <2>4 DEF TooLong
    <3> QED
      BY <2>1, <3>1, <3>2
  <2> QED
    BY <2>2, <2>3, <2>4
<1>5. BaseTypeOK'
  BY <1>1, <1>4 DEF BaseTypeOK
<1>6. InOrder' /\ FilledWhenDone'
  BY <1>1, <1>3, <1>4 DEF InOrder, FilledWhenDone
<1>7. Failed' = Failed
  BY <1>1 DEF Failed
<1> QED
  BY <1>1, <1>2, <1>5, <1>6, <1>7

\* A goroutine is started for the first index that has none.
LEMMA SpawnBench ==
  ASSUME BenchInv, Spawn
  PROVE  BenchInv'
<1> USE DEF BenchInv
<1>1. /\ spawned \in Index /\ spawned' = spawned + 1
      /\ spawned \in Nat /\ spawned' \in 0..BlockCount
  BY BenchAssumption DEF Spawn, BaseTypeOK, Index
<1>2. /\ worker' = [worker EXCEPT ![spawned] = "header"]
      /\ UNCHANGED <<head, moves, attempt, pc, start, match, results, failed>>
      /\ pc = "loop"
  BY DEF Spawn, nodeVars
<1>3. worker[spawned] = "none" /\ results[spawned] = Unfilled
  <2>1. worker[spawned] = "none"
    BY <1>1 DEF InOrder
  <2> QED
    BY <1>1, <2>1 DEF FilledWhenDone
<1>4. BaseTypeOK'
  BY <1>1, <1>2 DEF BaseTypeOK
<1>5. InOrder'
  <2>1. ASSUME NEW i \in Index, worker'[i] # "none" PROVE i < spawned'
    <3>1. i \in Nat
      BY BenchAssumption DEF Index
    <3>2. CASE i = spawned
      BY <1>1, <3>2
    <3>3. CASE i # spawned
      <4>1. worker[i] # "none"
        BY <1>2, <2>1, <3>3 DEF BaseTypeOK
      <4> QED
        BY <1>1, <3>1, <4>1 DEF InOrder
    <3> QED
      BY <3>2, <3>3
  <2> QED
    BY <1>2, <2>1 DEF InOrder
<1>6. FilledWhenDone'
  BY <1>1, <1>2, <1>3 DEF FilledWhenDone, BaseTypeOK
<1>7. Failed' = Failed
  BY <1>1, <1>2, <1>3 DEF Failed, BaseTypeOK
<1>8. RetryTypeOK(Index \cup {Main})'
  BY <1>2 DEF RetryTypeOK
<1> QED
  BY <1>2, <1>4, <1>5, <1>6, <1>7, <1>8

(***************************************************************************)
(* A goroutine goes on to the receipts, ends with a result that bears its  *)
(* number, or ends without one.                                            *)
(***************************************************************************)
LEMMA WorkerBench ==
  ASSUME BenchInv, NEW i \in Index, GotHeader(i) \/ GotReceipts(i) \/ Fail(i)
  PROVE  BenchInv'
<1> USE DEF BenchInv
<1>1. /\ worker[i] \in {"header", "receipts"}
      /\ UNCHANGED <<head, moves, pc, start, spawned>>
  BY DEF GotHeader, GotReceipts, Fail, Active, nodeVars, runVars
<1>2. RetryTypeOK(Index \cup {Main})'
  BY RetryType DEF GotHeader, GotReceipts, Fail
<1>3. results[i] = Unfilled /\ i \notin Failed
  BY <1>1 DEF FilledWhenDone, Failed
<1>4. start \in Nat /\ start > 0 /\ start + i \in Nat
  <2>1. spawned # 0 /\ i \in Nat
    BY <1>1, BenchAssumption DEF InOrder, Index, BaseTypeOK
  <2>2. pc \in {"loop", "done"}
    BY <2>1 DEF InOrder, BaseTypeOK
  <2> QED
    BY <2>1, <2>2 DEF FilledWhenDone, BaseTypeOK
<1>5. \/ /\ worker' = [worker EXCEPT ![i] = "receipts"]
         /\ match' \in [Index -> SUBSET Topic]
         /\ UNCHANGED <<results, failed>>
      \/ /\ worker' = [worker EXCEPT ![i] = "done"]
         /\ match' \in [Index -> SUBSET Topic]
         /\ \E r \in Result : r.number = start + i /\ results' = [results EXCEPT ![i] = r]
         /\ failed' = failed
      \/ /\ worker' = [worker EXCEPT ![i] = "done"]
         /\ failed' = failed + 1
         /\ UNCHANGED <<match, results>>
  <2>1. CASE GotHeader(i)
    <3>1. PICK b \in BlockAt(i) :
            /\ match' = [match EXCEPT ![i] = Bloom[b]]
            /\ IF NeedReceipts(Bloom[b])
                 THEN worker' = [worker EXCEPT ![i] = "receipts"] /\ UNCHANGED results
                 ELSE Store(i, [number |-> start + i, skipped |-> TRUE,
                                match |-> Bloom[b], actual |-> {}])
      BY <2>1 DEF GotHeader
    <3>2. Bloom[b] \in SUBSET Topic
      BY BlockAtUnique, BloomAssumption DEF BaseTypeOK
    <3>3. match' \in [Index -> SUBSET Topic] /\ failed' = failed
      BY <2>1, <3>1, <3>2 DEF GotHeader, BaseTypeOK
    <3>4. CASE NeedReceipts(Bloom[b])
      BY <3>1, <3>3, <3>4
    <3>5. CASE ~NeedReceipts(Bloom[b])
      <4> DEFINE r == [number |-> start + i, skipped |-> TRUE,
                       match |-> Bloom[b], actual |-> {}]
      <4>1. r \in Result /\ r.number = start + i
        BY <1>4, <3>2 DEF Result
      <4>2. worker' = [worker EXCEPT ![i] = "done"] /\ results' = [results EXCEPT ![i] = r]
        BY <3>1, <3>5 DEF Store
      <4> QED
        BY <3>3, <4>1, <4>2
    <3> QED
      BY <3>4, <3>5
  <2>2. CASE GotReceipts(i)
    <3>1. PICK b \in BlockAt(i) :
            Store(i, [number |-> start + i, skipped |-> FALSE,
                      match |-> match[i], actual |-> TopicsIn(b)])
      BY <2>2 DEF GotReceipts
    <3> DEFINE r == [number |-> start + i, skipped |-> FALSE,
                     match |-> match[i], actual |-> TopicsIn(b)]
    <3>2. r \in Result /\ r.number = start + i
      BY <1>4 DEF Result, TopicsIn, BaseTypeOK
    <3>3. worker' = [worker EXCEPT ![i] = "done"] /\ results' = [results EXCEPT ![i] = r]
      BY <3>1 DEF Store
    <3>4. match' \in [Index -> SUBSET Topic] /\ failed' = failed
      BY <2>2 DEF GotReceipts, BaseTypeOK
    <3> QED
      BY <3>2, <3>3, <3>4
  <2>3. CASE Fail(i)
    BY <2>3 DEF Fail
  <2> QED
    BY <2>1, <2>2, <2>3
<1>6. BaseTypeOK'
  <2>1. worker' \in [Index -> {"none", "header", "receipts", "done"}]
    BY <1>5 DEF BaseTypeOK
  <2>2. match' \in [Index -> SUBSET Topic] /\ results' \in [Index -> Result]
    BY <1>5 DEF BaseTypeOK
  <2> QED
    BY <1>1, <2>1, <2>2 DEF BaseTypeOK
<1>7. InOrder'
  <2>1. \A j \in Index : /\ worker'[j] # "none" => worker[j] # "none"
                         /\ worker[j] = "done" => worker'[j] = "done"
    BY <1>1, <1>5 DEF BaseTypeOK
  <2> QED
    BY <1>1, <2>1 DEF InOrder, AllDone
<1>8. FilledWhenDone'
  <2>1. ASSUME NEW j \in Index
        PROVE  \/ results'[j] = Unfilled
               \/ worker'[j] = "done" /\ results'[j].number = start + j
    <3>1. CASE j = i
      BY <1>3, <1>5, <3>1 DEF BaseTypeOK
    <3>2. CASE j # i
      BY <1>5, <3>2 DEF BaseTypeOK, FilledWhenDone
    <3> QED
      BY <3>1, <3>2
  <2> QED
    BY <1>1, <1>4, <2>1 DEF FilledWhenDone
<1>9. failed' = Cardinality(Failed')
  <2>1. CASE worker' = [worker EXCEPT ![i] = "receipts"] /\ UNCHANGED <<results, failed>>
    <3>1. Failed' = Failed
      BY <1>1, <2>1 DEF Failed, BaseTypeOK
    <3> QED
      BY <2>1, <3>1
  <2>2. CASE /\ worker' = [worker EXCEPT ![i] = "done"]
             /\ \E r \in Result : /\ r.number = start + i
                                  /\ results' = [results EXCEPT ![i] = r]
             /\ failed' = failed
    <3>1. PICK r \in Result : r.number = start + i /\ results' = [results EXCEPT ![i] = r]
      BY <2>2
    <3>2. start + i # 0
      BY <1>4, BenchAssumption DEF Index
    <3>3. r # Unfilled
      BY <3>1, <3>2 DEF Unfilled
    <3>4. Failed' = Failed
      BY <1>1, <2>2, <3>1, <3>3 DEF Failed, BaseTypeOK
    <3> QED
      BY <2>2, <3>4
  <2>3. CASE /\ worker' = [worker EXCEPT ![i] = "done"]
             /\ failed' = failed + 1
             /\ UNCHANGED results
    <3>1. Failed' = Failed \cup {i}
      BY <1>3, <2>3 DEF Failed, BaseTypeOK
    <3>2. IsFiniteSet(Failed)
      BY IndexFinite DEF Failed
    <3> QED
      BY <1>3, <2>3, <3>1, <3>2, FS_AddElement
  <2> QED
    BY <1>5, <2>1, <2>2, <2>3
<1> QED
  BY <1>2, <1>6, <1>7, <1>8, <1>9

LEMMA NextBench == BenchInv /\ [Next]_vars => BenchInv'
<1> SUFFICES ASSUME BenchInv, [Next]_vars PROVE BenchInv'
  OBVIOUS
<1>1. CASE GotLatest \/ NoLatest
  BY <1>1, LatestBench
<1>2. CASE Spawn
  BY <1>2, SpawnBench
<1>3. CASE Finish
  BY <1>3
  DEF Finish, BenchInv, BaseTypeOK, RetryTypeOK, InOrder, AllDone, FilledWhenDone, Failed,
      nodeVars, workerVars
<1>4. ASSUME NEW i \in Index, GotHeader(i) \/ GotReceipts(i) \/ Fail(i) PROVE BenchInv'
  BY <1>4, WorkerBench
<1>5. ASSUME NEW c \in Index \cup {Main}, Again(c) PROVE BenchInv'
  <2>1. RetryTypeOK(Index \cup {Main})'
    BY <1>5, RetryType DEF Again, BenchInv
  <2>2. UNCHANGED <<head, moves, pc, start, spawned, worker, match, results, failed>>
    BY <1>5 DEF Again, nodeVars, runVars, workerVars
  <2> QED
    BY <2>1, <2>2 DEF BenchInv, BaseTypeOK, InOrder, AllDone, FilledWhenDone, Failed
<1>6. CASE Reorg
  <2>1. head' \in Block /\ moves' \in Nat
    BY <1>6 DEF Reorg, NewHead, BenchInv, BaseTypeOK
  <2>2. UNCHANGED <<attempt, pc, start, spawned, worker, match, results, failed>>
    BY <1>6 DEF Reorg, runVars, workerVars
  <2> QED
    BY <2>1, <2>2
    DEF BenchInv, BaseTypeOK, RetryTypeOK, InOrder, AllDone, FilledWhenDone, Failed
<1>7. CASE UNCHANGED vars
  BY <1>7
  DEF vars, nodeVars, runVars, workerVars, BenchInv, BaseTypeOK, RetryTypeOK, InOrder,
      AllDone, FilledWhenDone, Failed
<1> QED
  BY <1>1, <1>2, <1>3, <1>4, <1>5, <1>6, <1>7 DEF Next, MainStep, Worker

LEMMA BenchInvariant == Spec => []BenchInv
BY InitBench, NextBench, PTL DEF Spec

(***************************************************************************)
(* Every variable keeps its type; no more failures are counted than there  *)
(* are blocks (bloombench/bench.go).                                       *)
(***************************************************************************)
THEOREM TypeCorrect == Spec => []TypeOK
<1>1. BenchInv => TypeOK
  <2> SUFFICES ASSUME BenchInv PROVE TypeOK
    OBVIOUS
  <2>1. failed \in 0..BlockCount
    BY IndexFinite DEF BenchInv, Failed
  <2> QED
    BY <2>1 DEF BenchInv, BaseTypeOK, TypeOK
<1> QED
  BY <1>1, BenchInvariant, PTL

-------------------------------------------------------------------------------
(* What the results say. *)

(***************************************************************************)
(* Only a read that succeeds sets a result or what the filter said.  Any   *)
(* other step moves the chain, or leaves head and start as they are for    *)
(* the goroutines about to read receipts.                                  *)
(***************************************************************************)
LEMMA OtherSteps ==
  ASSUME BenchInv, [Next]_vars,
         \A i \in Index : ~GotHeader(i) /\ ~GotReceipts(i)
  PROVE  /\ UNCHANGED <<match, results>>
         /\ \A j \in Index : worker'[j] = "receipts" =>
              worker[j] = "receipts" /\ UNCHANGED start
         /\ UNCHANGED <<head, moves>> \/ moves' # 0
<1> USE DEF BenchInv, BaseTypeOK
<1>1. CASE GotLatest \/ NoLatest
  <2>1. UNCHANGED <<match, results, worker, head, moves>> /\ spawned = 0
    BY <1>1 DEF GotLatest, NoLatest, nodeVars, workerVars, InOrder
  <2>2. \A j \in Index : worker[j] = "none"
    BY <2>1, BenchAssumption DEF InOrder, Index
  <2> QED
    BY <2>1, <2>2
<1>2. CASE Spawn
  BY <1>2 DEF Spawn, nodeVars
<1>3. CASE Finish
  BY <1>3 DEF Finish, nodeVars, workerVars
<1>4. ASSUME NEW i \in Index, Fail(i)
      PROVE  /\ UNCHANGED <<match, results, head, moves, start>>
             /\ \A j \in Index : worker'[j] = "receipts" => worker[j] = "receipts"
  BY <1>4 DEF Fail, nodeVars, runVars
<1>5. ASSUME NEW c \in Index \cup {Main}, Again(c)
      PROVE  UNCHANGED <<match, results, worker, head, moves, start>>
  BY <1>5 DEF Again, nodeVars, runVars, workerVars
<1>6. CASE Reorg
  BY <1>6 DEF Reorg, NewHead, runVars, workerVars
<1>7. CASE UNCHANGED vars
  BY <1>7 DEF vars, nodeVars, runVars, workerVars
<1> QED
  BY <1>1, <1>2, <1>3, <1>4, <1>5, <1>6, <1>7 DEF Next, MainStep, Worker

\* What was read of block b, if the filter had to be asked only, or receipts too.
LEMMA HeaderResult ==
  ASSUME BenchInv, NEW i \in Index, GotHeader(i)
  PROVE  \E b \in BlockAt(i) :
           /\ match' = [match EXCEPT ![i] = Bloom[b]]
           /\ \/ /\ worker' = [worker EXCEPT ![i] = "receipts"]
                 /\ results' = results
              \/ /\ Bloom[b] = {}
                 /\ worker' = [worker EXCEPT ![i] = "done"]
                 /\ results' = [results EXCEPT
                                  ![i] = [number |-> start + i, skipped |-> TRUE,
                                          match |-> Bloom[b], actual |-> {}]]
BY DEF GotHeader, NeedReceipts, Store

(***************************************************************************)
(* A block is skipped because its filter, which does not deny what is      *)
(* there, denies all topics.                                               *)
(***************************************************************************)
SkippedHasNone ==
  \A i \in Index :
    results[i].skipped =>
      \E b \in Block : Number[b] = results[i].number /\ TopicsIn(b) = {}

LEMMA NextSkipped == BenchInv /\ SkippedHasNone /\ [Next]_vars => SkippedHasNone'
<1> SUFFICES ASSUME BenchInv, SkippedHasNone, [Next]_vars PROVE SkippedHasNone'
  OBVIOUS
<1> USE DEF BenchInv, BaseTypeOK
<1>1. ASSUME NEW i \in Index, GotHeader(i) PROVE SkippedHasNone'
  <2>1. PICK b \in BlockAt(i) :
          \/ results' = results
          \/ /\ Bloom[b] = {}
             /\ results' = [results EXCEPT
                              ![i] = [number |-> start + i, skipped |-> TRUE,
                                      match |-> Bloom[b], actual |-> {}]]
    BY <1>1, HeaderResult
  <2>2. b \in Block /\ Number[b] = start + i
    BY BlockAtUnique
  <2>3. CASE results' = results
    BY <2>3 DEF SkippedHasNone
  <2>4. CASE /\ Bloom[b] = {}
             /\ results' = [results EXCEPT
                              ![i] = [number |-> start + i, skipped |-> TRUE,
                                      match |-> Bloom[b], actual |-> {}]]
    <3>1. TopicsIn(b) = {}
      BY <2>2, <2>4, BloomAssumption
    <3>2. results'[i].number = start + i
      BY <2>4
    <3>3. \A j \in Index : j # i => results'[j] = results[j]
      BY <2>4
    <3> QED
      BY <2>2, <3>1, <3>2, <3>3 DEF SkippedHasNone
  <2> QED
    BY <2>1, <2>3, <2>4
<1>2. ASSUME NEW i \in Index, GotReceipts(i) PROVE SkippedHasNone'
  <2>1. PICK b \in BlockAt(i) :
          results' = [results EXCEPT ![i] = [number |-> start + i, skipped |-> FALSE,
                                             match |-> match[i], actual |-> TopicsIn(b)]]
    BY <1>2 DEF GotReceipts, Store
  <2>2. ~results'[i].skipped /\ \A j \in Index : j # i => results'[j] = results[j]
    BY <2>1
  <2> QED
    BY <2>2 DEF SkippedHasNone
<1>3. CASE \A i \in Index : ~GotHeader(i) /\ ~GotReceipts(i)
  BY <1>3, OtherSteps DEF SkippedHasNone
<1> QED
  BY <1>1, <1>2, <1>3

(***************************************************************************)
(* A block whose receipts were not read has no log of the topics, whatever *)
(* the chain did in the meantime (bench.go:28, 134-137).                   *)
(***************************************************************************)
THEOREM SkippedSoundly == Spec => []SkippingIsSound
<1>1. Init => SkippedHasNone
  BY DEF Init, SkippedHasNone, Unfilled
<1>2. SkippedHasNone => SkippingIsSound
  BY DEF SkippedHasNone, SkippingIsSound, Analyzed
<1> QED
  BY <1>1, <1>2, BenchInvariant, NextSkipped, PTL DEF Spec

(***************************************************************************)
(* While the chain has not moved, a goroutine about to read the receipts   *)
(* holds what the filter of that very block said.                          *)
(***************************************************************************)
SameBlock ==
  moves = 0 =>
    \A i \in Index : worker[i] = "receipts" =>
      \A b \in BlockAt(i) : match[i] = Bloom[b]

\* The result of index i is what block b holds.
Tells(i, b) ==
  /\ Number[b] = results[i].number
  /\ results[i].match = Bloom[b]
  /\ results[i].actual = TopicsIn(b)

FilledTruthfully ==
  moves = 0 =>
    \A i \in Index : results[i] # Unfilled => \E b \in ChainOf[head] : Tells(i, b)

StableInv == SameBlock /\ FilledTruthfully

LEMMA HeaderStable ==
  ASSUME BenchInv, StableInv, NEW i \in Index, GotHeader(i)
  PROVE  StableInv'
<1> USE DEF BenchInv, BaseTypeOK
<1>1. UNCHANGED <<head, moves, start>>
  BY DEF GotHeader, nodeVars, runVars
<1>2. \A j \in Index : BlockAt(j)' = BlockAt(j)
  BY <1>1 DEF BlockAt, CanonicalAt
<1>3. PICK b \in BlockAt(i) :
        /\ match' = [match EXCEPT ![i] = Bloom[b]]
        /\ \/ /\ worker' = [worker EXCEPT ![i] = "receipts"]
              /\ results' = results
           \/ /\ Bloom[b] = {}
              /\ worker' = [worker EXCEPT ![i] = "done"]
              /\ results' = [results EXCEPT
                               ![i] = [number |-> start + i, skipped |-> TRUE,
                                       match |-> Bloom[b], actual |-> {}]]
  BY HeaderResult
<1>4. BlockAt(i) = {b} /\ b \in Block /\ b \in ChainOf[head] /\ Number[b] = start + i
  BY BlockAtUnique
<1>5. SameBlock'
  <2>1. match'[i] = Bloom[b] /\ \A j \in Index : j # i => match'[j] = match[j]
    BY <1>3
  <2>2. \A j \in Index : j # i => worker'[j] = worker[j]
    BY <1>3
  <2> QED
    BY <1>1, <1>2, <1>4, <2>1, <2>2 DEF StableInv, SameBlock
<1>6. FilledTruthfully'
  <2>1. CASE results' = results
    BY <1>1, <2>1 DEF StableInv, FilledTruthfully, Tells
  <2>2. CASE /\ Bloom[b] = {}
             /\ results' = [results EXCEPT
                              ![i] = [number |-> start + i, skipped |-> TRUE,
                                      match |-> Bloom[b], actual |-> {}]]
    <3>1. TopicsIn(b) = {}
      BY <1>4, <2>2, BloomAssumption
    <3>2. /\ results'[i].number = start + i
          /\ results'[i].match = Bloom[b]
          /\ results'[i].actual = {}
      BY <2>2
    <3>3. Tells(i, b)'
      BY <1>4, <3>1, <3>2 DEF Tells
    <3>4. \A j \in Index : j # i => results'[j] = results[j]
      BY <2>2
    <3> QED
      BY <1>1, <1>4, <3>3, <3>4 DEF StableInv, FilledTruthfully, Tells
  <2> QED
    BY <1>3, <2>1, <2>2
<1> QED
  BY <1>5, <1>6 DEF StableInv

LEMMA ReceiptsStable ==
  ASSUME BenchInv, StableInv, NEW i \in Index, GotReceipts(i)
  PROVE  StableInv'
<1> USE DEF BenchInv, BaseTypeOK
<1>1. UNCHANGED <<head, moves, start, match>> /\ worker[i] = "receipts"
  BY DEF GotReceipts, nodeVars, runVars
<1>2. \A j \in Index : BlockAt(j)' = BlockAt(j)
  BY <1>1 DEF BlockAt, CanonicalAt
<1>3. PICK b \in BlockAt(i) :
        /\ worker' = [worker EXCEPT ![i] = "done"]
        /\ results' = [results EXCEPT ![i] = [number |-> start + i, skipped |-> FALSE,
                                              match |-> match[i], actual |-> TopicsIn(b)]]
  BY DEF GotReceipts, Store
<1>4. b \in ChainOf[head] /\ Number[b] = start + i
  BY BlockAtUnique
<1>5. SameBlock'
  BY <1>1, <1>2, <1>3 DEF StableInv, SameBlock
<1>6. FilledTruthfully'
  <2>1. /\ results'[i].number = start + i
        /\ results'[i].match = match[i]
        /\ results'[i].actual = TopicsIn(b)
    BY <1>3
  <2>2. moves = 0 => Tells(i, b)'
    BY <1>1, <1>3, <1>4, <2>1 DEF StableInv, SameBlock, Tells
  <2>3. \A j \in Index : j # i => results'[j] = results[j]
    BY <1>3
  <2> QED
    BY <1>1, <1>4, <2>2, <2>3 DEF StableInv, FilledTruthfully, Tells
<1> QED
  BY <1>5, <1>6 DEF StableInv

LEMMA NextStable == BenchInv /\ StableInv /\ [Next]_vars => StableInv'
<1> SUFFICES ASSUME BenchInv, StableInv, [Next]_vars PROVE StableInv'
  OBVIOUS
<1>1. ASSUME NEW i \in Index, GotHeader(i) \/ GotReceipts(i) PROVE StableInv'
  BY <1>1, HeaderStable, ReceiptsStable
<1>2. CASE \A i \in Index : ~GotHeader(i) /\ ~GotReceipts(i)
  <2>1. /\ UNCHANGED <<match, results>>
        /\ \A j \in Index : worker'[j] = "receipts" =>
             worker[j] = "receipts" /\ UNCHANGED start
        /\ UNCHANGED <<head, moves>> \/ moves' # 0
    BY <1>2, OtherSteps
  <2>2. CASE moves' # 0
    BY <2>2 DEF StableInv, SameBlock, FilledTruthfully
  <2>3. CASE UNCHANGED <<head, moves>>
    <3>1. SameBlock'
      BY <2>1, <2>3 DEF StableInv, SameBlock, BlockAt, CanonicalAt
    <3>2. FilledTruthfully'
      BY <2>1, <2>3 DEF StableInv, FilledTruthfully, Tells
    <3> QED
      BY <3>1, <3>2 DEF StableInv
  <2> QED
    BY <2>1, <2>2, <2>3
<1> QED
  BY <1>1, <1>2

(***************************************************************************)
(* On a chain that does not move, a result that counts is what its block   *)
(* holds (bench.go:163-186).                                               *)
(***************************************************************************)
THEOREM StableChainTruth == Spec => []TruthfulOnStableChain
<1>1. Init => StableInv
  BY DEF Init, StableInv, SameBlock, FilledTruthfully
<1>2. BenchInv /\ StableInv => TruthfulOnStableChain
  <2> SUFFICES ASSUME BenchInv, StableInv PROVE TruthfulOnStableChain
    OBVIOUS
  <2>1. \A i \in Analyzed : i \in Index /\ results[i] # Unfilled
    BY AnalyzedFilled DEF BenchInv
  <2> QED
    BY <2>1 DEF StableInv, FilledTruthfully, Tells, TruthfulOnStableChain
<1> QED
  BY <1>1, <1>2, BenchInvariant, NextStable, PTL DEF Spec

-------------------------------------------------------------------------------
(* The accounts. *)

\* Two parts without a common element have as many elements as the whole.
LEMMA TwoParts ==
  ASSUME NEW S, IsFiniteSet(S), NEW A \in SUBSET S, NEW B \in SUBSET S,
         A \cup B = S, A \cap B = {}
  PROVE  /\ Cardinality(A) \in Nat
         /\ Cardinality(B) \in Nat
         /\ Cardinality(A) + Cardinality(B) = Cardinality(S)
<1>1. IsFiniteSet(A) /\ IsFiniteSet(B)
  BY FS_Subset
<1>2. Cardinality(A) \in Nat /\ Cardinality(B) \in Nat
  BY <1>1, FS_CardinalityType
<1>3. Cardinality(A \cup B) = Cardinality(A) + Cardinality(B) - Cardinality(A \cap B)
  BY <1>1, FS_Union
<1>4. Cardinality(A \cap B) = 0
  BY FS_EmptySet
<1>5. Cardinality(A \cup B) = Cardinality(S)
  OBVIOUS
<1> QED
  BY <1>2, <1>3, <1>4, <1>5

\* Per topic, the four outcomes divide the analysed blocks.
LEMMA FourOutcomes ==
  ASSUME NEW t
  PROVE  TP(t) + FP(t) + TN(t) + FN(t) = Cardinality(Analyzed)
<1> DEFINE Yes == {i \in Analyzed : t \in results[i].match}
           No == {i \in Analyzed : t \notin results[i].match}
           A == {i \in Analyzed : t \in results[i].match \cap results[i].actual}
           B == {i \in Analyzed : t \in results[i].match \ results[i].actual}
           C == {i \in Analyzed : t \in results[i].actual \ results[i].match}
           D == {i \in Analyzed : t \notin results[i].actual \cup results[i].match}
<1>1. IsFiniteSet(Analyzed)
  BY IndexFinite DEF Analyzed
<1>2. /\ Yes \in SUBSET Analyzed /\ No \in SUBSET Analyzed
      /\ Yes \cup No = Analyzed /\ Yes \cap No = {}
  OBVIOUS
<1>3. IsFiniteSet(Yes) /\ IsFiniteSet(No)
  BY <1>1, <1>2, FS_Subset
<1>4. /\ A \in SUBSET Yes /\ B \in SUBSET Yes /\ A \cup B = Yes /\ A \cap B = {}
      /\ C \in SUBSET No /\ D \in SUBSET No /\ C \cup D = No /\ C \cap D = {}
  <2>1. A \in SUBSET Yes /\ B \in SUBSET Yes /\ C \in SUBSET No /\ D \in SUBSET No
    OBVIOUS
  <2>2. A \cup B = Yes /\ A \cap B = {}
    OBVIOUS
  <2>3. C \cup D = No /\ C \cap D = {}
    OBVIOUS
  <2> QED
    BY <2>1, <2>2, <2>3
<1> HIDE DEF Yes, No, A, B, C, D
<1>5. /\ Cardinality(Yes) \in Nat /\ Cardinality(No) \in Nat
      /\ Cardinality(Yes) + Cardinality(No) = Cardinality(Analyzed)
  BY <1>1, <1>2, TwoParts
<1>6. /\ Cardinality(A) \in Nat /\ Cardinality(B) \in Nat
      /\ Cardinality(A) + Cardinality(B) = Cardinality(Yes)
  BY <1>3, <1>4, TwoParts
<1>7. /\ Cardinality(C) \in Nat /\ Cardinality(D) \in Nat
      /\ Cardinality(C) + Cardinality(D) = Cardinality(No)
  BY <1>3, <1>4, TwoParts
<1>8. /\ TP(t) = Cardinality(A) /\ FP(t) = Cardinality(B)
      /\ FN(t) = Cardinality(C) /\ TN(t) = Cardinality(D)
  BY DEF TP, FP, FN, TN, A, B, C, D
<1> QED
  BY <1>5, <1>6, <1>7, <1>8

(***************************************************************************)
(* When Run returns, each block is analysed or was counted as failed, and  *)
(* the outcomes of a topic add up (bench.go:77-110, 163-186).              *)
(***************************************************************************)
THEOREM BlocksAccounted == Spec => []EveryBlockAccounted
<1>1. BenchInv => EveryBlockAccounted
  <2> SUFFICES ASSUME BenchInv, pc = "done" PROVE Cardinality(Analyzed) + failed = BlockCount
    BY FourOutcomes DEF EveryBlockAccounted
  <2>1. \A i \in Index : worker[i] = "done"
    BY DEF BenchInv, InOrder, AllDone
  <2>2. Analyzed = {i \in Index : results[i] # Unfilled}
    BY AnalyzedFilled DEF BenchInv
  <2>3. Failed = {i \in Index : results[i] = Unfilled}
    BY <2>1 DEF Failed
  <2>4. /\ Analyzed \in SUBSET Index /\ Failed \in SUBSET Index
        /\ Analyzed \cup Failed = Index /\ Analyzed \cap Failed = {}
    BY <2>2, <2>3
  <2>5. Cardinality(Analyzed) + Cardinality(Failed) = Cardinality(Index)
    BY <2>4, IndexFinite, TwoParts
  <2> QED
    BY <2>5, IndexFinite DEF BenchInv
<1> QED
  BY <1>1, BenchInvariant, PTL
=============================================================================
