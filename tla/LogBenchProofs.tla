---------------------------- MODULE LogBenchProofs ----------------------------
(***************************************************************************)
(* Proofs about the log benchmark, for every chain on which no transaction *)
(* is twice, every number of blocks, goroutines and retries, and every     *)
(* size of the chunks.                                                     *)
(***************************************************************************)
EXTENDS LogBench, FiniteSetTheorems, SequenceTheorems, TLAPS

(***************************************************************************)
(* The order of things: goroutines run in the pooled phases only, those of *)
(* the first `spawned' indices, and chunks are asked for in their phase.   *)
(***************************************************************************)
InOrder ==
  /\ phase \notin Pooled => \A i \in Index : worker[i] = "none"
  /\ \A i \in Index : worker[i] = "txs" => phase = "perTx"
  /\ \A i \in Index : worker[i] # "none" => i < spawned
  /\ phase \in {"pick", "getLogs", "error"} => chunks = <<>>
  /\ phase \in {"receipts", "perTx", "done"} => ChunkStart >= BlockCount

BenchInv == TypeOK /\ moves \in Nat /\ InOrder

-------------------------------------------------------------------------------
(* Operators: logs. *)

\* A chain is finite: its numbers are distinct, and end at its head's.
LEMMA ChainFinite ==
  ASSUME NEW b \in Block
  PROVE  IsFiniteSet(ChainOf[b])
<1> DEFINE height == [c \in ChainOf[b] |-> Number[c]]
<1>1. Number[b] \in Nat /\ IsFiniteSet(0..Number[b])
  <2>1. Number[b] \in Nat /\ Number[b] \in Int /\ 0 \in Int
    BY ChainAssumption
  <2> QED
    BY <2>1, FS_Interval
<1>2. \A c \in ChainOf[b] : c \in Block /\ Number[c] \in 0..Number[b]
  BY <1>1, ChainAssumption
<1>3. height \in [ChainOf[b] -> 0..Number[b]]
  BY <1>2
<1>4. \A c, d \in ChainOf[b] : height[c] = height[d] => c = d
  BY ChainAssumption
<1>5. height \in Injection(ChainOf[b], 0..Number[b])
  <2> HIDE DEF height
  <2> QED
    BY <1>3, <1>4 DEF Injection, IsInjective
<1> QED
  BY <1>1, <1>5, FS_Injection

\* At most one canonical block has a given number.
LEMMA CanonicalAtUnique ==
  ASSUME head \in Block, NEW n \in Nat, NEW b \in CanonicalAt(n)
  PROVE  CanonicalAt(n) = {b} /\ b \in Block /\ b \in ChainOf[head]
BY ChainAssumption DEF CanonicalAt

\* The logs of one height are those of its block, and finitely many.
LEMMA LogsAtFinite ==
  ASSUME head \in Block, NEW n \in Nat
  PROVE  /\ IsFiniteSet(LogsAt(n)) /\ Cardinality(LogsAt(n)) \in Nat
         /\ CanonicalAt(n) = {} => LogsAt(n) = {}
         /\ \A b \in CanonicalAt(n) : LogsAt(n) = LogsIn[b]
<1>1. CASE CanonicalAt(n) = {}
  <2>1. LogsAt(n) = {}
    BY <1>1 DEF LogsAt
  <2> QED
    BY <1>1, <2>1, FS_EmptySet
<1>2. CASE CanonicalAt(n) # {}
  <2>1. PICK b \in CanonicalAt(n) : TRUE
    BY <1>2
  <2>2. CanonicalAt(n) = {b} /\ b \in Block
    BY CanonicalAtUnique
  <2>3. LogsAt(n) = LogsIn[b]
    BY <2>2 DEF LogsAt
  <2>4. IsFiniteSet(LogsAt(n))
    BY <2>2, <2>3, ContentAssumption
  <2> QED
    BY <2>2, <2>3, <2>4, FS_CardinalityType
<1> QED
  BY <1>1, <1>2

\* What is read of those logs: a part of them, if not all.
LEMMA ReadPart ==
  ASSUME head \in Block, NEW n \in Nat, NEW read
  PROVE  /\ Cardinality(LogsAt(n) \cap read) \in Nat
         /\ Cardinality(LogsAt(n) \cap read) <= Cardinality(LogsAt(n))
         /\ LogsAt(n) \subseteq read =>
              Cardinality(LogsAt(n) \cap read) = Cardinality(LogsAt(n))
<1>1. IsFiniteSet(LogsAt(n)) /\ LogsAt(n) \cap read \in SUBSET LogsAt(n)
  BY LogsAtFinite
<1>2. /\ IsFiniteSet(LogsAt(n) \cap read)
      /\ Cardinality(LogsAt(n) \cap read) <= Cardinality(LogsAt(n))
  BY <1>1, FS_Subset
<1>3. LogsAt(n) \subseteq read => LogsAt(n) \cap read = LogsAt(n)
  OBVIOUS
<1> QED
  BY <1>2, <1>3, FS_CardinalityType

\* A receipt holds finitely many logs.
LEMMA LogsOfTxFinite ==
  ASSUME head \in Block, NEW tx
  PROVE  IsFiniteSet(LogsOfTx(tx)) /\ Cardinality(LogsOfTx(tx)) \in Nat
<1> DEFINE sets == {LogsIn[b] : b \in MinedIn(tx)}
<1>1. MinedIn(tx) \in SUBSET ChainOf[head] /\ MinedIn(tx) \subseteq Block
  BY ChainAssumption DEF MinedIn
<1>2. IsFiniteSet(MinedIn(tx))
  BY <1>1, ChainFinite, FS_Subset
<1>3. IsFiniteSet(sets)
  <2> DEFINE f == [b \in MinedIn(tx) |-> LogsIn[b]]
  <2>1. f \in [MinedIn(tx) -> sets] /\ \A T \in sets : \E b \in MinedIn(tx) : f[b] = T
    OBVIOUS
  <2>2. f \in Surjection(MinedIn(tx), sets)
    <3> HIDE DEF f, sets
    <3> QED
      BY <2>1 DEF Surjection
  <2> HIDE DEF f, sets
  <2> QED
    BY <1>2, <2>2, FS_Surjection
<1>4. \A T \in sets : IsFiniteSet(T)
  BY <1>1, ContentAssumption
<1>5. IsFiniteSet(UNION sets)
  <2> HIDE DEF sets
  <2> QED
    BY <1>3, <1>4, FS_UNION
<1>6. LogsOfTx(tx) \in SUBSET UNION sets
  BY DEF LogsOfTx
<1>7. IsFiniteSet(LogsOfTx(tx))
  <2> HIDE DEF sets
  <2> QED
    BY <1>5, <1>6, FS_Subset
<1> QED
  BY <1>7, FS_CardinalityType

(***************************************************************************)
(* On one chain, the receipt of a transaction of a block holds the logs of *)
(* the block that name it.                                                 *)
(***************************************************************************)
LEMMA LogsOfTxOfBlock ==
  ASSUME head \in Block, NEW n \in Nat, NEW b \in CanonicalAt(n), NEW tx \in TxsIn(b)
  PROVE  LogsOfTx(tx) = {l \in LogsAt(n) : LogTx[l] = tx}
<1>1. b \in ChainOf[head] /\ LogsAt(n) = LogsIn[b]
  BY CanonicalAtUnique, LogsAtFinite
<1>2. MinedIn(tx) = {b}
  BY <1>1, OneBlockPerTx DEF MinedIn
<1> QED
  BY <1>1, <1>2 DEF LogsOfTx

-------------------------------------------------------------------------------
(* Operators: chunks. *)

LEMMA ChunkFacts ==
  ASSUME chunks \in Seq([first : Index, last : Index, failed : BOOLEAN])
  PROVE  /\ Chunk \in Nat /\ Chunk > 0
         /\ BlockCount \in Nat /\ BlockCount > 0
         /\ ChunkStart \in Nat
         /\ ChunkStart < BlockCount =>
              /\ ChunkStart \in Index /\ ChunkLast \in Index
              /\ \A i \in Index : i \in ChunkStart..ChunkLast
                                    <=> ChunkStart <= i /\ i < ChunkStart + Chunk
<1>1. Chunk \in Nat /\ Chunk > 0 /\ BlockCount \in Nat /\ BlockCount > 0
  BY LogBenchAssumption DEF Chunk
<1>2. ChunkStart \in Nat
  <2>1. Len(chunks) \in Nat
    BY LenProperties
  <2> QED
    BY <1>1, <2>1 DEF ChunkStart
<1>3. ASSUME ChunkStart < BlockCount
      PROVE  /\ ChunkStart \in Index /\ ChunkLast \in Index
             /\ \A i \in Index : i \in ChunkStart..ChunkLast
                                   <=> ChunkStart <= i /\ i < ChunkStart + Chunk
  <2> HIDE DEF ChunkStart, Chunk
  <2>1. ChunkStart \in Index /\ ChunkLast \in Index
    BY <1>1, <1>2, <1>3 DEF Index, ChunkLast
  <2>2. ASSUME NEW i \in Index
        PROVE  i \in ChunkStart..ChunkLast <=> ChunkStart <= i /\ i < ChunkStart + Chunk
    BY <1>1, <1>2, <1>3 DEF Index, ChunkLast
  <2> QED
    BY <2>1, <2>2
<1> QED
  BY <1>1, <1>2, <1>3

\* Each chunk moves the start of the next by its size.
LEMMA ChunkAdded ==
  ASSUME chunks \in Seq([first : Index, last : Index, failed : BOOLEAN]),
         ChunkStart < BlockCount,
         NEW f \in BOOLEAN, AddChunk(f)
  PROVE  /\ chunks' \in Seq([first : Index, last : Index, failed : BOOLEAN])
         /\ Len(chunks) \in Nat
         /\ Len(chunks') = Len(chunks) + 1
         /\ \A k \in 1..Len(chunks) : chunks'[k] = chunks[k]
         /\ chunks'[Len(chunks) + 1] = [first |-> ChunkStart, last |-> ChunkLast, failed |-> f]
         /\ ChunkStart' = ChunkStart + Chunk
<1> DEFINE new == [first |-> ChunkStart, last |-> ChunkLast, failed |-> f]
<1>1. ChunkStart \in Index /\ ChunkLast \in Index /\ Chunk \in Nat
  BY ChunkFacts
<1>2. new \in [first : Index, last : Index, failed : BOOLEAN]
  BY <1>1
<1>3. chunks' = Append(chunks, new)
  BY DEF AddChunk
<1> HIDE DEF new
<1>4. /\ chunks' \in Seq([first : Index, last : Index, failed : BOOLEAN])
      /\ Len(chunks') = Len(chunks) + 1
      /\ \A k \in 1..Len(chunks) : chunks'[k] = chunks[k]
      /\ chunks'[Len(chunks) + 1] = new
  BY <1>2, <1>3, AppendProperties
<1>5. Len(chunks) \in Nat
  BY LenProperties
<1>6. ChunkStart' = ChunkStart + Chunk
  <2>1. Chunk' = Chunk
    BY DEF Chunk
  <2>2. (Len(chunks) + 1) * Chunk = Len(chunks) * Chunk + Chunk
    <3> HIDE DEF Chunk
    <3> QED
      BY <1>1, <1>5
  <2> QED
    BY <1>4, <2>1, <2>2 DEF ChunkStart
<1> QED
  BY <1>4, <1>5, <1>6 DEF new

-------------------------------------------------------------------------------
(* What the steps of a goroutine may change. *)

RestType == rest \in [Index -> Seq(Tx)]

MeasuredType == measured \in [Pooled -> [Index -> Measurement]]

\* Only what the phase measures of block i changes.
OthersMeasured(i) ==
  \A m \in Pooled, j \in Index : m # phase \/ j # i => measured'[m][j] = measured[m][j]

\* n more logs are counted.
LEMMA MeasureEffect ==
  ASSUME MeasuredType, phase \in Pooled, NEW i \in Index, NEW n \in Nat, Measure(i, n)
  PROVE  /\ MeasuredType' /\ OthersMeasured(i)
         /\ measured'[phase][i].logs = measured[phase][i].logs + n
         /\ measured'[phase][i].failed = measured[phase][i].failed
<1> DEFINE old == measured[phase][i]
           new == [old EXCEPT !.logs = old.logs + n]
<1>1. measured[phase] \in [Index -> Measurement] /\ old \in Measurement
  BY DEF MeasuredType
<1>2. /\ new \in Measurement
      /\ new.logs = old.logs + n /\ new.failed = old.failed
  BY <1>1 DEF Measurement
<1>3. measured' = [measured EXCEPT ![phase] = [measured[phase] EXCEPT ![i] = new]]
  BY DEF Measure
<1> HIDE DEF new
<1>4. /\ measured'[phase] = [measured[phase] EXCEPT ![i] = new]
      /\ \A m \in Pooled : m # phase => measured'[m] = measured[m]
  BY <1>3 DEF MeasuredType
<1>5. /\ measured'[phase][i] = new
      /\ \A j \in Index : j # i => measured'[phase][j] = measured[phase][j]
      /\ measured'[phase] \in [Index -> Measurement]
  BY <1>1, <1>2, <1>4
<1>6. MeasuredType'
  <2>1. [measured[phase] EXCEPT ![i] = new] \in [Index -> Measurement]
    BY <1>4, <1>5
  <2> QED
    BY <1>3, <2>1 DEF MeasuredType
<1>7. OthersMeasured(i)
  BY <1>4, <1>5 DEF OthersMeasured
<1> QED
  BY <1>2, <1>5, <1>6, <1>7

\* Only that an answer of the phase about block i was not read in full is added.
UnreadAdded(i) == unread \subseteq unread' /\ unread' \subseteq unread \cup {<<phase, i>>}

\* Some of the logs in an answer are counted.
LEMMA CountReadEffect ==
  ASSUME MeasuredType, phase \in Pooled, NEW i \in Index,
         NEW there, IsFiniteSet(there), NEW read \in SUBSET there,
         CountRead(i, read, there)
  PROVE  /\ MeasuredType' /\ OthersMeasured(i) /\ UnreadAdded(i)
         /\ Cardinality(read) \in Nat /\ Cardinality(there) \in Nat
         /\ Cardinality(read) <= Cardinality(there)
         /\ measured'[phase][i].logs = measured[phase][i].logs + Cardinality(read)
         /\ read = there \/ <<phase, i>> \in unread'
<1>1. /\ Cardinality(read) \in Nat /\ Cardinality(there) \in Nat
      /\ Cardinality(read) <= Cardinality(there)
  BY FS_Subset, FS_CardinalityType
<1>2. Measure(i, Cardinality(read))
  BY DEF CountRead
<1>3. /\ MeasuredType' /\ OthersMeasured(i)
      /\ measured'[phase][i].logs = measured[phase][i].logs + Cardinality(read)
  BY <1>1, <1>2, MeasureEffect
<1>4. unread' = unread \cup ({phase} \X (IF read = there THEN {} ELSE {i}))
  BY DEF CountRead, NoteUnread
<1> QED
  BY <1>1, <1>3, <1>4 DEF UnreadAdded

\* The measurement of block i has failed.
LEMMA FailEffect ==
  ASSUME MeasuredType, phase \in Pooled, NEW i \in Index, Fail(i)
  PROVE  /\ MeasuredType' /\ OthersMeasured(i)
         /\ measured'[phase][i].logs = measured[phase][i].logs
         /\ measured'[phase][i].failed = TRUE
<1> DEFINE old == measured[phase][i]
           new == [old EXCEPT !.failed = TRUE]
<1>1. measured[phase] \in [Index -> Measurement] /\ old \in Measurement
  BY DEF MeasuredType
<1>2. /\ new \in Measurement
      /\ new.logs = old.logs /\ new.failed = TRUE
  BY <1>1 DEF Measurement
<1>3. measured' = [measured EXCEPT ![phase] = [measured[phase] EXCEPT ![i] = new]]
  BY DEF Fail
<1> HIDE DEF new
<1>4. /\ measured'[phase] = [measured[phase] EXCEPT ![i] = new]
      /\ \A m \in Pooled : m # phase => measured'[m] = measured[m]
  BY <1>3 DEF MeasuredType
<1>5. /\ measured'[phase][i] = new
      /\ \A j \in Index : j # i => measured'[phase][j] = measured[phase][j]
      /\ measured'[phase] \in [Index -> Measurement]
  BY <1>1, <1>2, <1>4
<1>6. MeasuredType'
  <2>1. [measured[phase] EXCEPT ![i] = new] \in [Index -> Measurement]
    BY <1>4, <1>5
  <2> QED
    BY <1>3, <2>1 DEF MeasuredType
<1>7. OthersMeasured(i)
  BY <1>4, <1>5 DEF OthersMeasured
<1> QED
  BY <1>2, <1>5, <1>6, <1>7

GoroutineStep(i) ==
  CountedAtOnce(i) \/ GotBlock(i) \/ GotReceipt(i) \/ NoMoreTxs(i) \/ Fail(i)

\* Only goroutine i goes on.
OthersRest(i) == \A j \in Index : j # i => worker'[j] = worker[j] /\ rest'[j] = rest[j]

LEMMA GoroutineEffect ==
  ASSUME BenchInv, NEW i \in Index, GoroutineStep(i)
  PROVE  /\ phase \in Pooled /\ worker[i] \in {"running", "txs"}
         /\ UNCHANGED <<head, moves, phase, start, spawned, chunks, ranged>>
         /\ RetryTypeOK(Index \cup {Main})'
         /\ worker' \in [Index -> {"none", "running", "txs", "done"}]
         /\ worker'[i] = "done" \/ (worker'[i] = "txs" /\ phase = "perTx")
         /\ RestType' /\ MeasuredType'
         /\ OthersRest(i) /\ OthersMeasured(i) /\ UnreadAdded(i)
<1> USE DEF BenchInv
<1>1. worker[i] \in {"running", "txs"} /\ phase \in Pooled /\ (worker[i] = "txs" => phase = "perTx")
  <2>1. worker[i] \in {"running", "txs"}
    BY DEF GoroutineStep, CountedAtOnce, GotBlock, GotReceipt, NoMoreTxs, Fail
  <2> QED
    BY <2>1 DEF InOrder
<1>2. UNCHANGED <<head, moves, phase, start, spawned, chunks, ranged>>
  BY DEF GoroutineStep, CountedAtOnce, GotBlock, GotReceipt, NoMoreTxs, Fail, nodeVars,
         rangeVars
<1>3. RetryTypeOK(Index \cup {Main})'
  <2>1. attempt' = [attempt EXCEPT ![i] = 0] \/ attempt' = attempt
    BY DEF GoroutineStep, CountedAtOnce, GotBlock, GotReceipt, NoMoreTxs, Fail, Returned,
           GiveUp
  <2>2. attempt \in [Index \cup {Main} -> 0..Retries] /\ 0 \in 0..Retries
    BY RetryAssumption DEF TypeOK, RetryTypeOK
  <2>3. attempt' \in [Index \cup {Main} -> 0..Retries]
    BY <2>1, <2>2
  <2> QED
    BY <2>3 DEF RetryTypeOK
<1>4. /\ worker' \in [Index -> {"none", "running", "txs", "done"}]
      /\ worker'[i] = "done" \/ (worker'[i] = "txs" /\ phase = "perTx")
      /\ \A j \in Index : j # i => worker'[j] = worker[j]
  <2>1. \/ worker' = [worker EXCEPT ![i] = "done"]
        \/ worker' = [worker EXCEPT ![i] = "txs"] /\ phase = "perTx"
        \/ worker' = worker /\ worker[i] = "txs"
    BY DEF GoroutineStep, CountedAtOnce, GotBlock, GotReceipt, NoMoreTxs, Fail, End
  <2> QED
    BY <1>1, <2>1 DEF TypeOK
<1>5. RestType' /\ \A j \in Index : j # i => rest'[j] = rest[j]
  <2>1. CASE GotBlock(i)
    <3>1. TxsAt(start + i) \in Seq(Tx)
      <4>1. CASE CanonicalAt(start + i) = {}
        BY <4>1, EmptySeq DEF TxsAt
      <4>2. CASE CanonicalAt(start + i) # {}
        <5>1. (CHOOSE b \in CanonicalAt(start + i) : TRUE) \in CanonicalAt(start + i)
          BY <4>2
        <5>2. CanonicalAt(start + i) \subseteq Block
          BY ChainAssumption DEF CanonicalAt, TypeOK
        <5> QED
          BY <4>2, <5>1, <5>2, ContentAssumption DEF TxsAt
      <4> QED
        BY <4>1, <4>2
    <3>2. PICK txs \in {<<>>, TxsAt(start + i)} : rest' = [rest EXCEPT ![i] = txs]
      BY <2>1 DEF GotBlock
    <3>3. txs \in Seq(Tx)
      BY <3>1, EmptySeq
    <3> QED
      BY <3>2, <3>3 DEF TypeOK, RestType
  <2>2. CASE GotReceipt(i)
    <3>1. rest[i] \in Seq(Tx) /\ rest[i] # <<>> /\ rest' = [rest EXCEPT ![i] = Tail(rest[i])]
      BY <2>2 DEF GotReceipt, TypeOK
    <3>2. Tail(rest[i]) \in Seq(Tx)
      BY <3>1, HeadTailProperties
    <3> QED
      BY <3>1, <3>2 DEF TypeOK, RestType
  <2>3. CASE CountedAtOnce(i) \/ NoMoreTxs(i) \/ Fail(i)
    BY <2>3 DEF CountedAtOnce, NoMoreTxs, Fail, TypeOK, RestType
  <2> QED
    BY <2>1, <2>2, <2>3 DEF GoroutineStep
<1>6. MeasuredType' /\ OthersMeasured(i) /\ UnreadAdded(i)
  <2>1. MeasuredType
    BY DEF TypeOK, MeasuredType
  <2>2. CASE CountedAtOnce(i)
    <3>1. start + i \in Nat
      BY LogBenchAssumption DEF TypeOK, Index
    <3>2. IsFiniteSet(LogsAt(start + i))
      BY <3>1, LogsAtFinite DEF TypeOK
    <3>3. PICK read \in SUBSET LogsAt(start + i) : CountRead(i, read, LogsAt(start + i))
      BY <2>2 DEF CountedAtOnce, Readable
    <3> QED
      BY <1>1, <2>1, <3>2, <3>3, CountReadEffect
  <2>3. CASE GotReceipt(i)
    <3> DEFINE there == LogsOfTx(Head(rest[i]))
    <3>1. IsFiniteSet(there)
      BY LogsOfTxFinite DEF TypeOK
    <3>2. PICK read \in SUBSET there : CountRead(i, read, there)
      BY <2>3 DEF GotReceipt, CountReceipt
    <3> QED
      BY <1>1, <2>1, <3>1, <3>2, CountReadEffect
  <2>4. CASE Fail(i)
    <3>1. unread' = unread
      BY <2>4 DEF Fail
    <3> QED
      BY <1>1, <2>1, <2>4, <3>1, FailEffect DEF UnreadAdded
  <2>5. CASE GotBlock(i)
    <3>1. phase = "perTx" /\ measured' = measured
      BY <2>5 DEF GotBlock
    <3>2. PICK lost \in {{}, {i}} : NoteUnread("perTx", lost)
      BY <2>5 DEF GotBlock
    <3>3. UnreadAdded(i)
      BY <3>1, <3>2 DEF NoteUnread, UnreadAdded
    <3> QED
      BY <2>1, <3>1, <3>3 DEF MeasuredType, OthersMeasured
  <2>6. CASE NoMoreTxs(i)
    BY <2>1, <2>6 DEF NoMoreTxs, MeasuredType, OthersMeasured, UnreadAdded
  <2> QED
    BY <2>2, <2>3, <2>4, <2>5, <2>6 DEF GoroutineStep
<1> QED
  BY <1>1, <1>2, <1>3, <1>4, <1>5, <1>6 DEF OthersRest

\* The node moves to another head.
LEMMA ReorgEffect ==
  ASSUME BenchInv, Reorg
  PROVE  /\ head' \in Block /\ moves' \in Nat /\ moves' # 0
         /\ UNCHANGED <<attempt, phase, start, spawned, worker, rest, measured, chunks,
                        ranged, unread>>
BY DEF BenchInv, TypeOK, Reorg, NewHead, benchVars, poolVars, rangeVars

\* The counters of the retry loops stay in their range.
LEMMA RetryType ==
  ASSUME NEW callers, RetryTypeOK(callers), NEW c \in callers,
         Returned(c) \/ GiveUp(c) \/ TryAgain(c)
  PROVE  RetryTypeOK(callers)'
<1>1. CASE Returned(c) \/ GiveUp(c)
  BY <1>1, RetryAssumption DEF RetryTypeOK, Returned, GiveUp
<1>2. CASE TryAgain(c)
  <2>1. attempt[c] \in Nat /\ attempt[c] + 1 \in 0..Retries
    BY <1>2, RetryAssumption DEF RetryTypeOK, TryAgain
  <2> QED
    BY <1>2, <2>1 DEF RetryTypeOK, TryAgain
<1> QED
  BY <1>1, <1>2

-------------------------------------------------------------------------------
(* Type correctness, with the order of things. *)

LEMMA InitBench == Init => BenchInv
<1> SUFFICES ASSUME Init PROVE BenchInv
  OBVIOUS
<1>1. RetryTypeOK(Index \cup {Main})
  BY RetryAssumption DEF Init, RetryInit, RetryTypeOK
<1>2. measured \in [Pooled -> [Index -> Measurement]]
  <2>1. Nothing \in Measurement
    BY DEF Nothing, Measurement
  <2> QED
    BY <2>1 DEF Init
<1>3. chunks \in Seq([first : Index, last : Index, failed : BOOLEAN])
  BY EmptySeq DEF Init
<1>4. spawned \in 0..BlockCount /\ head \in Block
  BY LogBenchAssumption, ChainAssumption DEF Init, PoolInit
<1>5. rest \in [Index -> Seq(Tx)]
  BY EmptySeq DEF Init, PoolInit
<1>6. TypeOK
  BY <1>1, <1>2, <1>3, <1>4, <1>5 DEF Init, PoolInit, TypeOK
<1>7. InOrder
  BY DEF Init, PoolInit, InOrder, Pooled
<1> QED
  BY <1>6, <1>7 DEF Init, BenchInv

\* The first block is picked, or the run ends with an error.
LEMMA PickBench ==
  ASSUME BenchInv, Picked \/ NotPicked
  PROVE  BenchInv'
<1> USE DEF BenchInv
<1>1. /\ phase = "pick"
      /\ UNCHANGED <<head, moves, spawned, worker, rest, measured, chunks, ranged, unread>>
  BY DEF Picked, NotPicked, nodeVars, poolVars, rangeVars
<1>2. RetryTypeOK(Index \cup {Main})'
  BY RetryType DEF Picked, NotPicked, TypeOK
<1>3. phase' \in {"error", "getLogs"} /\ start' \in Nat
  <2>1. Number[head] \in Nat /\ BlockCount \in Nat
    BY ChainAssumption, LogBenchAssumption DEF TypeOK
  <2>2. CASE NotPicked
    BY <2>2 DEF NotPicked, TypeOK
  <2>3. CASE Picked /\ BlockCount > Number[head]
    BY <2>3 DEF Picked, TypeOK
  <2>4. CASE Picked /\ ~(BlockCount > Number[head])
    BY <2>1, <2>4 DEF Picked
  <2> QED
    BY <2>2, <2>3, <2>4
<1>4. TypeOK'
  <2>1. phase' \in Pooled \cup {"pick", "ranged", "done", "error"}
    BY <1>3 DEF Pooled
  <2> QED
    BY <1>1, <1>2, <1>3, <2>1 DEF TypeOK
<1>5. InOrder'
  <2>1. \A i \in Index : worker[i] = "none"
    BY <1>1 DEF InOrder, Pooled
  <2>2. chunks = <<>>
    BY <1>1 DEF InOrder
  <2> QED
    BY <1>1, <1>3, <2>1, <2>2 DEF InOrder
<1> QED
  BY <1>1, <1>4, <1>5

LEMMA SpawnBench ==
  ASSUME BenchInv, Spawn
  PROVE  BenchInv'
<1> USE DEF BenchInv
<1>1. /\ phase \in Pooled /\ spawned \in Index /\ spawned' = spawned + 1
      /\ spawned \in Nat /\ spawned' \in 0..BlockCount
  BY LogBenchAssumption DEF Spawn, TypeOK, Index
<1>2. /\ worker' = [worker EXCEPT ![spawned] = "running"]
      /\ UNCHANGED <<head, moves, attempt, phase, start, rest, measured, chunks, ranged, unread>>
  BY DEF Spawn, nodeVars, rangeVars
<1>3. worker' \in [Index -> {"none", "running", "txs", "done"}]
  BY <1>2 DEF TypeOK
<1>4. TypeOK'
  <2>1. RetryTypeOK(Index \cup {Main})'
    BY <1>2 DEF TypeOK, RetryTypeOK
  <2> QED
    BY <1>1, <1>2, <1>3, <2>1 DEF TypeOK
<1>5. InOrder'
  <2>1. ASSUME NEW i \in Index, worker'[i] # "none" PROVE i < spawned'
    <3>1. i \in Nat
      BY LogBenchAssumption DEF Index
    <3>2. CASE i = spawned
      BY <1>1, <3>2
    <3>3. CASE i # spawned
      <4>1. worker[i] # "none"
        BY <1>2, <2>1, <3>3 DEF TypeOK
      <4> QED
        BY <1>1, <3>1, <4>1 DEF InOrder
    <3> QED
      BY <3>2, <3>3
  <2>2. \A i \in Index : worker'[i] = "txs" => worker[i] = "txs"
    BY <1>1, <1>2 DEF TypeOK
  <2>3. ChunkStart' = ChunkStart
    BY <1>2 DEF ChunkStart, Chunk
  <2> QED
    BY <1>1, <1>2, <2>1, <2>2, <2>3 DEF InOrder
<1> QED
  BY <1>2, <1>4, <1>5

LEMMA PoolDoneBench ==
  ASSUME BenchInv, PoolDone
  PROVE  BenchInv'
<1> USE DEF BenchInv
<1>1. /\ phase \in Pooled
      /\ phase' = NextPhase[phase] /\ spawned' = 0
      /\ worker' = [i \in Index |-> "none"] /\ rest' = [i \in Index |-> <<>>]
      /\ UNCHANGED <<head, moves, attempt, start, measured, chunks, ranged, unread>>
  BY DEF PoolDone, nodeVars, rangeVars
<1>2. \/ phase = "getLogs" /\ phase' = "ranged"
      \/ phase = "receipts" /\ phase' = "perTx"
      \/ phase = "perTx" /\ phase' = "done"
  BY <1>1 DEF Pooled, NextPhase
<1>3. rest' \in [Index -> Seq(Tx)] /\ 0 \in 0..BlockCount
  BY <1>1, EmptySeq, LogBenchAssumption
<1>4. TypeOK'
  BY <1>1, <1>2, <1>3 DEF TypeOK, RetryTypeOK, Pooled
<1>5. InOrder'
  <2>1. ChunkStart' = ChunkStart
    BY <1>1 DEF ChunkStart, Chunk
  <2> QED
    BY <1>1, <1>2, <2>1 DEF InOrder
<1> QED
  BY <1>1, <1>4, <1>5

LEMMA ChunkBench ==
  ASSUME BenchInv, GotChunk \/ ChunkFails
  PROVE  BenchInv'
<1> USE DEF BenchInv
<1>1. /\ phase = "ranged" /\ ChunkStart < BlockCount
      /\ \E f \in BOOLEAN : AddChunk(f)
      /\ UNCHANGED <<head, moves, phase, start, spawned, worker, rest, measured>>
  BY DEF GotChunk, ChunkFails, nodeVars, poolVars
<1>2. chunks' \in Seq([first : Index, last : Index, failed : BOOLEAN])
  BY <1>1, ChunkAdded DEF TypeOK
<1>3. RetryTypeOK(Index \cup {Main})'
  BY RetryType DEF GotChunk, ChunkFails, TypeOK
<1>4. ranged' \in [Index -> Nat] /\ unread' \subseteq Ways \X Index
  <2>1. CASE GotChunk
    <3>1. PICK read :
            /\ ranged' = [i \in Index |->
                            IF i \in ChunkStart..ChunkLast
                              THEN ranged[i] + Cardinality(LogsAt(start + i) \cap read)
                              ELSE ranged[i]]
            /\ NoteUnread("ranged", {i \in ChunkStart..ChunkLast :
                                         ~(LogsAt(start + i) \subseteq read)})
      BY <2>1 DEF GotChunk
    <3>2. \A i \in Index : ranged[i] + Cardinality(LogsAt(start + i) \cap read) \in Nat
      <4> TAKE i \in Index
      <4>1. start + i \in Nat /\ ranged[i] \in Nat
        BY LogBenchAssumption DEF TypeOK, Index
      <4>2. Cardinality(LogsAt(start + i) \cap read) \in Nat
        BY <4>1, ReadPart DEF TypeOK
      <4> QED
        BY <4>1, <4>2
    <3>3. ranged' \in [Index -> Nat]
      BY <3>1, <3>2 DEF TypeOK
    <3>4. ChunkStart..ChunkLast \subseteq Index
      <4>1. ChunkStart \in Index /\ ChunkLast \in Index
        BY <1>1, ChunkFacts DEF TypeOK
      <4> HIDE DEF ChunkStart, ChunkLast
      <4> QED
        BY <4>1, LogBenchAssumption DEF Index
    <3>5. unread' \subseteq Ways \X Index
      BY <3>1, <3>4 DEF NoteUnread, TypeOK, Ways
    <3> QED
      BY <3>3, <3>5
  <2>2. CASE ChunkFails
    BY <2>2 DEF ChunkFails, TypeOK
  <2> QED
    BY <2>1, <2>2
<1>5. TypeOK'
  BY <1>1, <1>2, <1>3, <1>4 DEF TypeOK
<1>6. InOrder'
  BY <1>1 DEF InOrder
<1> QED
  BY <1>1, <1>5, <1>6

LEMMA GoroutineBench ==
  ASSUME BenchInv, NEW i \in Index, GoroutineStep(i)
  PROVE  BenchInv'
<1> USE DEF BenchInv
<1>1. /\ phase \in Pooled /\ worker[i] \in {"running", "txs"}
      /\ UNCHANGED <<head, moves, phase, start, spawned, chunks, ranged>>
      /\ RetryTypeOK(Index \cup {Main})'
      /\ worker' \in [Index -> {"none", "running", "txs", "done"}]
      /\ worker'[i] = "done" \/ (worker'[i] = "txs" /\ phase = "perTx")
      /\ RestType' /\ MeasuredType'
      /\ OthersRest(i) /\ UnreadAdded(i)
  BY GoroutineEffect
<1>2. TypeOK'
  <2>1. unread' \subseteq Ways \X Index
    BY <1>1 DEF TypeOK, UnreadAdded, Ways
  <2> QED
    BY <1>1, <2>1 DEF TypeOK, RestType, MeasuredType
<1>3. InOrder'
  <2>1. ASSUME NEW j \in Index
        PROVE  /\ worker'[j] # "none" => worker[j] # "none"
               /\ worker'[j] = "txs" => phase = "perTx"
    BY <1>1 DEF OthersRest, InOrder
  <2>2. ChunkStart' = ChunkStart
    BY <1>1 DEF ChunkStart, Chunk
  <2> QED
    BY <1>1, <2>1, <2>2 DEF InOrder
<1> QED
  BY <1>1, <1>2, <1>3

LEMMA NextBench == BenchInv /\ [Next]_vars => BenchInv'
<1> SUFFICES ASSUME BenchInv, [Next]_vars PROVE BenchInv'
  OBVIOUS
<1>1. CASE Picked \/ NotPicked
  BY <1>1, PickBench
<1>2. CASE Spawn \/ PoolDone
  BY <1>2, SpawnBench, PoolDoneBench
<1>3. CASE GotChunk \/ ChunkFails
  BY <1>3, ChunkBench
<1>4. CASE RangedDone
  <2>1. /\ phase = "ranged" /\ phase' = "receipts" /\ ChunkStart >= BlockCount
        /\ UNCHANGED <<head, moves, attempt, start, spawned, worker, rest, measured,
                       chunks, ranged, unread>>
    BY <1>4 DEF RangedDone, nodeVars, poolVars, rangeVars
  <2>2. TypeOK'
    BY <2>1 DEF BenchInv, TypeOK, RetryTypeOK, Pooled
  <2>3. ChunkStart' = ChunkStart
    BY <2>1 DEF ChunkStart, Chunk
  <2>4. InOrder'
    BY <2>1, <2>3 DEF BenchInv, InOrder, Pooled
  <2> QED
    BY <2>1, <2>2, <2>4 DEF BenchInv
<1>5. ASSUME NEW i \in Index, GoroutineStep(i) PROVE BenchInv'
  BY <1>5, GoroutineBench
<1>6. ASSUME NEW c \in Index \cup {Main}, Again(c) PROVE BenchInv'
  <2>1. RetryTypeOK(Index \cup {Main})'
    BY <1>6, RetryType DEF Again, BenchInv, TypeOK
  <2>2. UNCHANGED <<head, moves, phase, start, spawned, worker, rest, measured, chunks,
                    ranged, unread>>
    BY <1>6 DEF Again, nodeVars, benchVars, poolVars, rangeVars
  <2> QED
    BY <2>1, <2>2 DEF BenchInv, TypeOK, InOrder, ChunkStart, Chunk
<1>7. CASE Reorg
  BY <1>7, ReorgEffect DEF BenchInv, TypeOK, RetryTypeOK, InOrder, ChunkStart, Chunk
<1>8. CASE UNCHANGED vars
  BY <1>8
  DEF vars, nodeVars, benchVars, poolVars, rangeVars, BenchInv, TypeOK, RetryTypeOK,
      InOrder, ChunkStart, Chunk
<1> QED
  BY <1>1, <1>2, <1>3, <1>4, <1>5, <1>6, <1>7, <1>8
  DEF Next, MainStep, Worker, GoroutineStep

LEMMA BenchInvariant == Spec => []BenchInv
BY InitBench, NextBench, PTL DEF Spec

(***************************************************************************)
(* Every variable keeps its type; chunks begin and end in the range of     *)
(* blocks (logbench/bench.go, methods.go).                                 *)
(***************************************************************************)
THEOREM TypeCorrect == Spec => []TypeOK
BY BenchInvariant, PTL DEF BenchInv

-------------------------------------------------------------------------------
(* The chunks. *)

\* The chunks that hold index i.
Holding(i) == {k \in 1..Len(chunks) : i \in chunks[k].first..chunks[k].last}

\* So far, each index below the next chunk is in exactly one, the others in none.
CutSoFar ==
  \A i \in Index :
    IF i < ChunkStart THEN \E k \in 1..Len(chunks) : Holding(i) = {k}
                      ELSE Holding(i) = {}

\* A new chunk holds the next indices.
LEMMA HoldingAdded ==
  ASSUME BenchInv, ChunkStart < BlockCount, NEW f \in BOOLEAN, AddChunk(f), NEW i \in Index
  PROVE  Holding(i)' = IF ChunkStart <= i /\ i < ChunkStart'
                         THEN Holding(i) \cup {Len(chunks) + 1} ELSE Holding(i)
<1>1. chunks \in Seq([first : Index, last : Index, failed : BOOLEAN])
  BY DEF BenchInv, TypeOK
<1>2. /\ Len(chunks) \in Nat
      /\ Len(chunks') = Len(chunks) + 1
      /\ \A k \in 1..Len(chunks) : chunks'[k] = chunks[k]
      /\ chunks'[Len(chunks) + 1] = [first |-> ChunkStart, last |-> ChunkLast, failed |-> f]
      /\ ChunkStart' = ChunkStart + Chunk
  BY <1>1, ChunkAdded
<1>3. i \in ChunkStart..ChunkLast <=> ChunkStart <= i /\ i < ChunkStart'
  BY <1>1, <1>2, ChunkFacts
<1>4. /\ chunks'[Len(chunks) + 1].first = ChunkStart
      /\ chunks'[Len(chunks) + 1].last = ChunkLast
  BY <1>2
<1>5. \A k : k \in 1..Len(chunks') <=> k \in 1..Len(chunks) \/ k = Len(chunks) + 1
  BY <1>2
<1>6. Len(chunks) + 1 \notin 1..Len(chunks)
  BY <1>2
<1> HIDE DEF ChunkStart, ChunkLast
<1>7. \A k : k \in Holding(i)' <=>
        \/ k \in Holding(i)
        \/ k = Len(chunks) + 1 /\ ChunkStart <= i /\ i < ChunkStart'
  BY <1>2, <1>3, <1>4, <1>5, <1>6 DEF Holding
<1> QED
  BY <1>7

LEMMA NextCut == BenchInv /\ CutSoFar /\ [Next]_vars => CutSoFar'
<1> SUFFICES ASSUME BenchInv, CutSoFar, [Next]_vars PROVE CutSoFar'
  OBVIOUS
<1>1. CASE GotChunk \/ ChunkFails
  <2>1. PICK f \in BOOLEAN : ChunkStart < BlockCount /\ AddChunk(f)
    BY <1>1 DEF GotChunk, ChunkFails
  <2>2. chunks \in Seq([first : Index, last : Index, failed : BOOLEAN])
    BY DEF BenchInv, TypeOK
  <2>3. /\ Len(chunks) \in Nat /\ Len(chunks') = Len(chunks) + 1
        /\ ChunkStart \in Nat /\ ChunkStart' \in Nat /\ ChunkStart < ChunkStart'
    <3>1. /\ Len(chunks) \in Nat /\ Len(chunks') = Len(chunks) + 1
          /\ ChunkStart' = ChunkStart + Chunk
      BY <2>1, <2>2, ChunkAdded
    <3>2. ChunkStart \in Nat /\ Chunk \in Nat /\ Chunk > 0
      BY <2>2, ChunkFacts
    <3> QED
      BY <3>1, <3>2
  <2>4. ASSUME NEW i \in Index
        PROVE  IF i < ChunkStart' THEN \E k \in 1..Len(chunks') : Holding(i)' = {k}
                                  ELSE Holding(i)' = {}
    <3>1. i \in Nat
      BY LogBenchAssumption DEF Index
    <3>2. Holding(i)' = IF ChunkStart <= i /\ i < ChunkStart'
                          THEN Holding(i) \cup {Len(chunks) + 1} ELSE Holding(i)
      BY <2>1, HoldingAdded
    <3>3. IF i < ChunkStart THEN \E k \in 1..Len(chunks) : Holding(i) = {k}
                            ELSE Holding(i) = {}
      BY DEF CutSoFar
    <3> HIDE DEF ChunkStart, Holding
    <3>4. CASE i < ChunkStart
      <4>1. Holding(i)' = Holding(i) /\ i < ChunkStart'
        BY <2>3, <3>1, <3>2, <3>4
      <4>2. PICK k \in 1..Len(chunks) : Holding(i) = {k}
        BY <3>3, <3>4
      <4>3. k \in 1..Len(chunks')
        BY <2>3
      <4> QED
        BY <4>1, <4>2, <4>3
    <3>5. CASE ChunkStart <= i /\ i < ChunkStart'
      <4>1. Holding(i)' = {Len(chunks) + 1}
        BY <2>3, <3>1, <3>2, <3>3, <3>5
      <4>2. Len(chunks) + 1 \in 1..Len(chunks')
        BY <2>3
      <4> QED
        BY <3>5, <4>1, <4>2
    <3>6. CASE ~(i < ChunkStart')
      BY <2>3, <3>1, <3>2, <3>3, <3>6
    <3> QED
      BY <2>3, <3>1, <3>4, <3>5, <3>6
  <2> QED
    BY <2>4 DEF CutSoFar
<1>2. CASE UNCHANGED chunks
  BY <1>2 DEF CutSoFar, Holding, ChunkStart, Chunk
<1> QED
  <2>1. ASSUME NEW i \in Index, Worker(i) PROVE UNCHANGED chunks
    BY <2>1
    DEF Worker, CountedAtOnce, GotBlock, GotReceipt, NoMoreTxs, Fail, Again, benchVars,
        rangeVars
  <2>2. CASE Picked \/ NotPicked \/ Spawn \/ PoolDone \/ RangedDone \/ Again(Main) \/ Reorg
    BY <1>2, <2>2
    DEF Picked, NotPicked, Spawn, PoolDone, RangedDone, Again, Reorg, benchVars, rangeVars
  <2>3. CASE UNCHANGED vars
    BY <1>2, <2>3 DEF vars, benchVars, rangeVars
  <2> QED
    BY <1>1, <1>2, <2>1, <2>2, <2>3 DEF Next, MainStep

LEMMA CutInvariant == Spec => []CutSoFar
<1>1. Init => CutSoFar
  <2> SUFFICES ASSUME Init, NEW i \in Index PROVE ~(i < ChunkStart) /\ Holding(i) = {}
    BY DEF CutSoFar
  <2>1. chunks = <<>> /\ Len(chunks) = 0
    BY EmptySeq DEF Init
  <2>2. Chunk \in Nat /\ i \in Nat
    BY LogBenchAssumption DEF Chunk, Index
  <2>3. ChunkStart = 0
    <3> HIDE DEF Chunk
    <3> QED
      BY <2>1, <2>2 DEF ChunkStart
  <2> QED
    BY <2>1, <2>2, <2>3 DEF Holding
<1> QED
  BY <1>1, BenchInvariant, NextCut, PTL DEF Spec

(***************************************************************************)
(* The chunks cut the range of blocks without gap or overlap, whatever     *)
(* their size and whichever failed (methods.go:83-126).                    *)
(***************************************************************************)
THEOREM ChunksCut == Spec => []ChunksCutTheRange
<1>1. BenchInv /\ CutSoFar => ChunksCutTheRange
  <2> SUFFICES ASSUME BenchInv, CutSoFar, phase \in {"receipts", "perTx", "done"},
                      NEW i \in Index
               PROVE  Cardinality(Holding(i)) = 1
    BY DEF ChunksCutTheRange, Holding
  <2>1. ChunkStart \in Nat /\ BlockCount \in Nat /\ ChunkStart >= BlockCount
    BY ChunkFacts DEF BenchInv, TypeOK, InOrder
  <2>2. i < ChunkStart
    BY <2>1 DEF Index
  <2>3. PICK k : Holding(i) = {k}
    BY <2>2 DEF CutSoFar
  <2> QED
    BY <2>3, FS_Singleton
<1> QED
  BY <1>1, BenchInvariant, CutInvariant, PTL

-------------------------------------------------------------------------------
(* The counts. *)

\* How many logs there are to count.
There(i) == Cardinality(LogsAt(start + i))

\* The phases before the one in which m is used.
Awaiting(m) ==
  IF m = "getLogs" THEN {"pick", "error"}
  ELSE IF m = "receipts" THEN {"pick", "error", "getLogs", "ranged"}
  ELSE {"pick", "error", "getLogs", "ranged", "receipts"}

\* m has not counted anything of block i yet, or is through with it.
Before(m, i) == phase \in Awaiting(m) \/ (phase = m /\ worker[i] \in {"none", "running"})

After(m, i) == IF phase = m THEN worker[i] = "done" ELSE phase \notin Awaiting(m)

Uncounted == \A m \in Pooled, i \in Index : Before(m, i) => measured[m][i] = Nothing

\* No count is too high, and one that is through is exact if nothing was lost.
Counted ==
  moves = 0 /\ phase \notin {"pick", "error"} =>
    \A m \in Pooled, i \in Index :
      /\ measured[m][i].logs <= There(i)
      /\ After(m, i) => \/ measured[m][i].failed
                        \/ <<m, i>> \in unread
                        \/ measured[m][i].logs = There(i)

\* The transactions whose receipts goroutine i has still to read.
Left(i) == {rest[i][k] : k \in 1..Len(rest[i])}

\* The logs of block i that those receipts do not hold.
LogsRead(i) == {l \in LogsAt(start + i) : LogTx[l] \notin Left(i)}

ReadingOf(i) ==
  /\ \A j, k \in 1..Len(rest[i]) : rest[i][j] = rest[i][k] => j = k
  /\ \A tx \in Left(i) : \E b \in CanonicalAt(start + i) : tx \in TxsIn(b)
  /\ measured["perTx"][i].logs <= Cardinality(LogsRead(i))
  /\ \/ measured["perTx"][i].logs = Cardinality(LogsRead(i))
     \/ <<"perTx", i>> \in unread

Reading == moves = 0 => \A i \in Index : worker[i] = "txs" => ReadingOf(i)

\* The ranges count all logs of a block, or what was lost is on record.
RangedSoFar ==
  /\ \A i \in Index : i >= ChunkStart => ranged[i] = 0
  /\ moves = 0 => \A i \in Index : i < ChunkStart =>
       /\ ranged[i] <= There(i)
       /\ \/ ranged[i] = There(i)
          \/ <<"ranged", i>> \in unread
          \/ \E k \in Holding(i) : chunks[k].failed

CountInv == Uncounted /\ Counted /\ Reading /\ RangedSoFar

LEMMA ThereType ==
  ASSUME BenchInv, NEW i \in Index
  PROVE  /\ start + i \in Nat /\ There(i) \in Nat /\ IsFiniteSet(LogsAt(start + i))
         /\ IsFiniteSet(LogsRead(i)) /\ Cardinality(LogsRead(i)) \in Nat
         /\ Cardinality(LogsRead(i)) <= There(i)
<1>1. start + i \in Nat
  BY LogBenchAssumption DEF BenchInv, TypeOK, Index
<1>2. IsFiniteSet(LogsAt(start + i)) /\ There(i) \in Nat
  BY <1>1, LogsAtFinite DEF BenchInv, TypeOK, There
<1>3. LogsRead(i) \in SUBSET LogsAt(start + i)
  BY DEF LogsRead
<1>4. IsFiniteSet(LogsRead(i)) /\ Cardinality(LogsRead(i)) <= There(i)
  BY <1>2, <1>3, FS_Subset DEF There
<1> QED
  BY <1>1, <1>2, <1>4, FS_CardinalityType

\* At the start nothing is counted.
LEMMA InitCount == Init => CountInv
<1> SUFFICES ASSUME Init PROVE CountInv
  OBVIOUS
<1>1. Uncounted
  BY DEF Init, Uncounted
<1>2. Counted /\ Reading
  BY DEF Init, PoolInit, Counted, Reading
<1>3. RangedSoFar
  <2>1. Len(chunks) = 0 /\ Chunk \in Nat
    BY EmptySeq, LogBenchAssumption DEF Init, Chunk
  <2>2. ChunkStart = 0
    <3> HIDE DEF Chunk
    <3> QED
      BY <2>1 DEF ChunkStart
  <2>3. \A i \in Index : i \in Nat /\ ranged[i] = 0
    BY LogBenchAssumption DEF Init, Index
  <2> QED
    BY <2>2, <2>3 DEF RangedSoFar
<1> QED
  BY <1>1, <1>2, <1>3 DEF CountInv

(***************************************************************************)
(* A step that counts nothing: it is enough that what was not through with *)
(* a block still is not, and that what has begun does not begin again.     *)
(***************************************************************************)
LEMMA NothingCounted ==
  ASSUME BenchInv, CountInv,
         UNCHANGED <<head, moves, start, measured, chunks, ranged, unread>>,
         phase \notin {"pick", "error"} \/ phase' = phase,
         \A m \in Pooled, i \in Index : /\ Before(m, i)' => Before(m, i)
                                        /\ After(m, i)' => After(m, i),
         \A i \in Index : worker'[i] = "txs" => worker[i] = "txs" /\ rest'[i] = rest[i]
  PROVE  CountInv'
<1>1. \A i \in Index : /\ There(i)' = There(i)
                       /\ Holding(i)' = Holding(i)
                       /\ CanonicalAt(start + i)' = CanonicalAt(start + i)
                       /\ LogsAt(start + i)' = LogsAt(start + i)
  BY DEF There, Holding, LogsAt, CanonicalAt
<1>2. ChunkStart' = ChunkStart
  BY DEF ChunkStart, Chunk
<1>3. Uncounted'
  BY DEF CountInv, Uncounted
<1>4. Counted'
  BY <1>1 DEF CountInv, Counted
<1>5. Reading'
  <2>1. ASSUME NEW i \in Index, moves' = 0, worker'[i] = "txs" PROVE ReadingOf(i)'
    <3>1. ReadingOf(i) /\ rest'[i] = rest[i]
      BY <2>1 DEF CountInv, Reading
    <3>2. Left(i)' = Left(i)
      BY <3>1 DEF Left
    <3>3. LogsRead(i)' = LogsRead(i)
      BY <1>1, <3>2 DEF LogsRead
    <3> QED
      BY <1>1, <3>1, <3>2, <3>3 DEF ReadingOf
  <2> QED
    BY <2>1 DEF Reading
<1>6. RangedSoFar'
  BY <1>1, <1>2 DEF CountInv, RangedSoFar
<1> QED
  BY <1>3, <1>4, <1>5, <1>6 DEF CountInv

\* What the steps outside the goroutines mean for the counts.
LEMMA PickCount ==
  ASSUME BenchInv, CountInv, Picked \/ NotPicked
  PROVE  CountInv'
<1>1. /\ phase = "pick" /\ phase' \in {"error", "getLogs"}
      /\ UNCHANGED <<head, moves, worker, rest, measured, chunks, ranged, unread>>
  BY DEF Picked, NotPicked, nodeVars, poolVars, rangeVars
<1>2. chunks = <<>> /\ \A i \in Index : worker[i] = "none"
  BY <1>1 DEF BenchInv, InOrder, Pooled
<1>3. \A m \in Pooled, i \in Index : measured[m][i] = Nothing
  BY <1>1 DEF CountInv, Uncounted, Before, Awaiting, Pooled
<1>4. Uncounted'
  BY <1>1, <1>3 DEF Uncounted
<1>5. \A i \in Index : There(i)' \in Nat
  <2>1. BenchInv'
    BY PickBench
  <2> TAKE i \in Index
  <2>2. start' + i \in Nat
    <3>1. start' \in Nat
      BY <2>1 DEF BenchInv, TypeOK
    <3>2. \A n \in Nat, j \in Index : n + j \in Nat
      BY LogBenchAssumption DEF Index
    <3> QED
      BY <3>1, <3>2
  <2>3. \A n \in Nat : LogsAt(n)' = LogsAt(n) /\ Cardinality(LogsAt(n)) \in Nat
    BY <1>1, LogsAtFinite DEF LogsAt, CanonicalAt, BenchInv, TypeOK
  <2>4. There(i)' = Cardinality(LogsAt(start' + i))
    BY <1>1 DEF There, LogsAt, CanonicalAt
  <2> QED
    BY <2>2, <2>3, <2>4
<1>6. Counted'
  <2>1. \A m \in Pooled, i \in Index : ~After(m, i)' \/ phase' = "error"
    BY <1>1, <1>2 DEF After, Awaiting, Pooled
  <2> QED
    BY <1>1, <1>3, <1>5, <2>1 DEF Counted, Nothing
<1>7. Reading'
  BY <1>1, <1>2 DEF Reading
<1>8. RangedSoFar'
  <2>1. ChunkStart = 0
    <3>1. Len(chunks) = 0 /\ Chunk \in Nat
      BY <1>2, EmptySeq, LogBenchAssumption DEF Chunk
    <3> HIDE DEF Chunk
    <3> QED
      BY <3>1 DEF ChunkStart
  <2>2. ChunkStart' = ChunkStart
    BY <1>1 DEF ChunkStart, Chunk
  <2>3. \A i \in Index : i \in Nat
    BY LogBenchAssumption DEF Index
  <2> QED
    BY <1>1, <2>1, <2>2, <2>3 DEF CountInv, RangedSoFar
<1> QED
  BY <1>4, <1>6, <1>7, <1>8 DEF CountInv

LEMMA MainCount ==
  ASSUME BenchInv, CountInv, Spawn \/ PoolDone \/ RangedDone
  PROVE  CountInv'
<1>1. /\ UNCHANGED <<head, moves, start, measured, chunks, ranged, unread>>
      /\ phase \notin {"pick", "error"}
  BY DEF Spawn, PoolDone, RangedDone, nodeVars, poolVars, rangeVars, Pooled
<1>2. \A i \in Index : worker'[i] = "txs" => worker[i] = "txs" /\ rest'[i] = rest[i]
  BY DEF Spawn, PoolDone, RangedDone, poolVars, BenchInv, TypeOK
<1>3. ASSUME NEW m \in Pooled, NEW i \in Index
      PROVE  (Before(m, i)' => Before(m, i)) /\ (After(m, i)' => After(m, i))
  <2>1. CASE Spawn
    <3>1. phase' = phase /\ spawned \in Index
      BY <2>1, LogBenchAssumption DEF Spawn, BenchInv, TypeOK, Index
    <3>2. worker[spawned] = "none"
      BY <3>1, LogBenchAssumption DEF BenchInv, InOrder, Index
    <3>3. /\ worker'[i] \in {"none", "running"} => worker[i] \in {"none", "running"}
          /\ worker'[i] = "done" => worker[i] = "done"
      BY <2>1, <3>1, <3>2 DEF Spawn, BenchInv, TypeOK
    <3> QED
      BY <3>1, <3>3 DEF Before, After
  <2>2. CASE PoolDone
    <3>1. \/ phase = "getLogs" /\ phase' = "ranged"
          \/ phase = "receipts" /\ phase' = "perTx"
          \/ phase = "perTx" /\ phase' = "done"
      BY <2>2 DEF PoolDone, Pooled, NextPhase
    <3>2. worker[i] = "done" /\ worker'[i] = "none"
      BY <2>2 DEF PoolDone, AllDone
    <3> QED
      BY <3>1, <3>2 DEF Before, After, Awaiting, Pooled
  <2>3. CASE RangedDone
    <3>1. phase = "ranged" /\ phase' = "receipts" /\ worker' = worker
      BY <2>3 DEF RangedDone, poolVars
    <3>2. worker[i] = "none"
      BY <3>1 DEF BenchInv, InOrder, Pooled
    <3> QED
      BY <3>1, <3>2 DEF Before, After, Awaiting, Pooled
  <2> QED
    BY <2>1, <2>2, <2>3
<1> QED
  BY <1>1, <1>2, <1>3, NothingCounted

\* A range of blocks is counted, or not.
LEMMA ChunkCount ==
  ASSUME BenchInv, CountInv, GotChunk \/ ChunkFails
  PROVE  CountInv'
<1> DEFINE Asked(f, read) ==
        /\ AddChunk(f)
        /\ f => ranged' = ranged /\ unread' = unread
        /\ ~f => /\ ranged' = [i \in Index |->
                                IF i \in ChunkStart..ChunkLast
                                  THEN ranged[i] + Cardinality(LogsAt(start + i) \cap read)
                                  ELSE ranged[i]]
                 /\ NoteUnread("ranged", {i \in ChunkStart..ChunkLast :
                                             ~(LogsAt(start + i) \subseteq read)})
<1>1. /\ phase = "ranged" /\ ChunkStart < BlockCount
      /\ UNCHANGED <<head, moves, phase, start, worker, rest, measured>>
  BY DEF GotChunk, ChunkFails, nodeVars, poolVars
<1>2. chunks \in Seq([first : Index, last : Index, failed : BOOLEAN])
  BY DEF BenchInv, TypeOK
<1>3. PICK f \in BOOLEAN : \E read : Asked(f, read)
  BY DEF GotChunk, ChunkFails
<1>4. /\ Len(chunks) \in Nat
      /\ \A k \in 1..Len(chunks) : chunks'[k] = chunks[k]
      /\ chunks'[Len(chunks) + 1].failed = f
      /\ ChunkStart' = ChunkStart + Chunk
  <2>1. AddChunk(f)
    BY <1>3
  <2>2. /\ Len(chunks) \in Nat
        /\ \A k \in 1..Len(chunks) : chunks'[k] = chunks[k]
        /\ chunks'[Len(chunks) + 1] =
             [first |-> ChunkStart, last |-> ChunkLast, failed |-> f]
        /\ ChunkStart' = ChunkStart + Chunk
    BY <1>1, <1>2, <2>1, ChunkAdded
  <2> QED
    BY <2>2
<1>5. /\ ChunkStart \in Nat /\ ChunkStart' \in Nat /\ ChunkStart < ChunkStart'
      /\ \A i \in Index : i \in ChunkStart..ChunkLast
                            <=> ChunkStart <= i /\ i < ChunkStart'
  <2>1. /\ Chunk \in Nat /\ Chunk > 0 /\ ChunkStart \in Nat
        /\ \A i \in Index : i \in ChunkStart..ChunkLast
                              <=> ChunkStart <= i /\ i < ChunkStart + Chunk
    BY <1>1, <1>2, ChunkFacts
  <2> HIDE DEF Chunk, ChunkStart
  <2> QED
    BY <1>4, <2>1
<1>6. PICK read : Asked(f, read)
  BY <1>3
<1>7. \A i \in Index : There(i)' = There(i)
  BY <1>1 DEF There, LogsAt, CanonicalAt
<1>8. /\ unread \subseteq unread'
      /\ \A m \in Pooled, i \in Index : <<m, i>> \in unread' => <<m, i>> \in unread
      /\ ~f => \A i \in ChunkStart..ChunkLast :
                 LogsAt(start + i) \subseteq read \/ <<"ranged", i>> \in unread'
  BY <1>6 DEF NoteUnread, Pooled
<1>9. RangedSoFar'
  <2>1. ASSUME NEW i \in Index
        PROVE  /\ i >= ChunkStart' => ranged'[i] = 0
               /\ moves = 0 /\ i < ChunkStart' =>
                    /\ ranged'[i] <= There(i)
                    /\ \/ ranged'[i] = There(i)
                       \/ <<"ranged", i>> \in unread'
                       \/ \E k \in Holding(i)' : chunks'[k].failed
    <3> DEFINE more == Cardinality(LogsAt(start + i) \cap read)
    <3>1. i \in Nat /\ There(i) \in Nat
      BY ThereType, LogBenchAssumption DEF Index
    <3>2. Holding(i)' = IF ChunkStart <= i /\ i < ChunkStart'
                          THEN Holding(i) \cup {Len(chunks) + 1} ELSE Holding(i)
      BY <1>1, <1>3, HoldingAdded
    <3>3. Holding(i) \subseteq 1..Len(chunks)
      BY DEF Holding
    <3>4. /\ i >= ChunkStart => ranged[i] = 0
          /\ moves = 0 /\ i < ChunkStart =>
               /\ ranged[i] <= There(i)
               /\ \/ ranged[i] = There(i)
                  \/ <<"ranged", i>> \in unread
                  \/ \E k \in Holding(i) : chunks[k].failed
      BY DEF CountInv, RangedSoFar
    <3>5. ranged'[i] = IF ~f /\ ChunkStart <= i /\ i < ChunkStart'
                         THEN ranged[i] + more ELSE ranged[i]
      <4>1. CASE f
        BY <1>6, <4>1
      <4>2. CASE ~f
        BY <1>5, <1>6, <4>2
      <4> QED
        BY <4>1, <4>2
    <3>6. /\ more \in Nat /\ more <= There(i)
          /\ LogsAt(start + i) \subseteq read => more = There(i)
      <4>1. start + i \in Nat /\ head \in Block
        BY ThereType DEF BenchInv, TypeOK
      <4> QED
        BY <4>1, ReadPart DEF There
    <3>7. ~f /\ ChunkStart <= i /\ i < ChunkStart' =>
            more = There(i) \/ <<"ranged", i>> \in unread'
      BY <1>5, <1>8, <3>6
    <3> HIDE DEF ChunkStart, ChunkLast, Holding, There, more
    <3>8. CASE i < ChunkStart
      <4>1. ranged'[i] = ranged[i] /\ Holding(i)' = Holding(i)
        BY <1>5, <3>1, <3>2, <3>5, <3>8
      <4>2. \A k \in Holding(i) : chunks'[k] = chunks[k]
        BY <1>4, <3>3
      <4> QED
        BY <1>5, <1>8, <3>1, <3>4, <3>8, <4>1, <4>2
    <3>9. CASE ChunkStart <= i /\ i < ChunkStart'
      <4>1. ranged[i] = 0 /\ Len(chunks) + 1 \in Holding(i)'
        BY <1>5, <3>1, <3>2, <3>4, <3>9
      <4>2. CASE f
        <5>1. ranged'[i] = 0 /\ 0 <= There(i)
          BY <3>1, <3>5, <4>1, <4>2
        <5>2. \E k \in Holding(i)' : chunks'[k].failed
          BY <1>4, <4>1, <4>2
        <5> QED
          BY <1>5, <3>1, <3>9, <5>1, <5>2
      <4>3. CASE ~f
        BY <1>5, <3>1, <3>5, <3>9, <3>7, <3>6, <4>1, <4>3
      <4> QED
        BY <4>2, <4>3
    <3>10. CASE i >= ChunkStart'
      BY <1>5, <3>1, <3>4, <3>5, <3>10
    <3> QED
      BY <1>5, <3>1, <3>8, <3>9, <3>10
  <2> QED
    BY <1>1, <1>7, <2>1 DEF RangedSoFar
<1>10. Uncounted' /\ Counted'
  BY <1>1, <1>7, <1>8 DEF CountInv, Uncounted, Counted, Before, After
<1>11. Reading'
  <2>1. \A i \in Index : worker[i] = "none"
    BY <1>1 DEF BenchInv, InOrder, Pooled
  <2> QED
    BY <1>1, <2>1 DEF Reading
<1> QED
  BY <1>9, <1>10, <1>11 DEF CountInv

(***************************************************************************)
(* A step of a goroutine leaves the counts of the others alone: it keeps   *)
(* the invariant if it does so for its own.                                *)
(***************************************************************************)
LEMMA OwnCount ==
  ASSUME BenchInv, CountInv, NEW i \in Index, GoroutineStep(i),
         moves = 0 => /\ measured'[phase][i].logs <= There(i)
                      /\ worker'[i] = "done" =>
                           \/ measured'[phase][i].failed
                           \/ <<phase, i>> \in unread'
                           \/ measured'[phase][i].logs = There(i)
                      /\ worker'[i] = "txs" => ReadingOf(i)'
  PROVE  CountInv'
<1>1. /\ phase \in Pooled /\ worker[i] \in {"running", "txs"}
      /\ UNCHANGED <<head, moves, phase, start, chunks, ranged>>
      /\ worker'[i] = "done" \/ (worker'[i] = "txs" /\ phase = "perTx")
      /\ OthersRest(i) /\ OthersMeasured(i) /\ unread \subseteq unread'
  BY GoroutineEffect DEF UnreadAdded
<1>2. \A j \in Index : /\ There(j)' = There(j)
                       /\ Holding(j)' = Holding(j)
                       /\ CanonicalAt(start + j)' = CanonicalAt(start + j)
                       /\ LogsAt(start + j)' = LogsAt(start + j)
  BY <1>1 DEF There, Holding, LogsAt, CanonicalAt
<1>3. ChunkStart' = ChunkStart
  BY <1>1 DEF ChunkStart, Chunk
<1>4. ASSUME NEW m \in Pooled, NEW j \in Index, m = phase, j = i
      PROVE  ~Before(m, j)' /\ (After(m, j)' => worker'[i] = "done")
  BY <1>1, <1>4 DEF Before, After, Awaiting, Pooled
<1>5. ASSUME NEW m \in Pooled, NEW j \in Index, m # phase \/ j # i
      PROVE  /\ Before(m, j)' => Before(m, j)
             /\ After(m, j)' => After(m, j)
             /\ measured'[m][j] = measured[m][j]
  BY <1>1, <1>5 DEF Before, After, Awaiting, OthersRest, OthersMeasured
<1>6. Uncounted'
  <2>1. ASSUME NEW m \in Pooled, NEW j \in Index, Before(m, j)'
        PROVE  measured'[m][j] = Nothing
    <3>1. m # phase \/ j # i
      BY <1>4, <2>1
    <3> QED
      BY <1>5, <2>1, <3>1 DEF CountInv, Uncounted
  <2> QED
    BY <2>1 DEF Uncounted, Nothing
<1>7. Counted'
  <2>1. ASSUME NEW m \in Pooled, NEW j \in Index, moves = 0
        PROVE  /\ measured'[m][j].logs <= There(j)
               /\ After(m, j)' => \/ measured'[m][j].failed
                                  \/ <<m, j>> \in unread'
                                  \/ measured'[m][j].logs = There(j)
    <3>1. CASE m = phase /\ j = i
      BY <1>4, <2>1, <3>1
    <3>2. CASE m # phase \/ j # i
      <4>1. phase \notin {"pick", "error"}
        BY <1>1 DEF Pooled
      <4>2. /\ measured[m][j].logs <= There(j)
            /\ After(m, j) => \/ measured[m][j].failed
                              \/ <<m, j>> \in unread
                              \/ measured[m][j].logs = There(j)
        BY <2>1, <4>1 DEF CountInv, Counted
      <4> QED
        BY <1>1, <1>5, <3>2, <4>2
    <3> QED
      BY <3>1, <3>2
  <2> QED
    BY <1>1, <1>2, <2>1 DEF Counted
<1>8. Reading'
  <2>1. ASSUME NEW j \in Index, j # i, moves = 0, worker'[j] = "txs" PROVE ReadingOf(j)'
    <3>1. ReadingOf(j) /\ rest'[j] = rest[j] /\ measured'["perTx"][j] = measured["perTx"][j]
      BY <1>1, <2>1 DEF CountInv, Reading, OthersRest, OthersMeasured, Pooled
    <3>2. Left(j)' = Left(j)
      BY <3>1 DEF Left
    <3>3. LogsRead(j)' = LogsRead(j)
      BY <1>2, <3>2 DEF LogsRead
    <3> QED
      BY <1>1, <1>2, <3>1, <3>2, <3>3 DEF ReadingOf
  <2>2. moves' = moves
    BY <1>1
  <2> QED
    BY <2>1, <2>2 DEF Reading
<1>9. RangedSoFar'
  BY <1>1, <1>2, <1>3 DEF CountInv, RangedSoFar
<1> QED
  BY <1>6, <1>7, <1>8, <1>9 DEF CountInv

\* One call counts all logs of the block that can be read.
LEMMA AtOnceCount ==
  ASSUME BenchInv, CountInv, NEW i \in Index, CountedAtOnce(i)
  PROVE  CountInv'
<1> DEFINE there == LogsAt(start + i)
<1>1. PICK read \in SUBSET there : CountRead(i, read, there)
  BY DEF CountedAtOnce, Readable
<1>2. /\ worker[i] = "running" /\ worker'[i] = "done"
      /\ phase \in Pooled
  BY DEF CountedAtOnce, End, Pooled, BenchInv, TypeOK
<1>3. measured[phase][i].logs = 0
  <2>1. measured[phase][i] = Nothing
    BY <1>2 DEF CountInv, Uncounted, Before
  <2> QED
    BY <2>1 DEF Nothing
<1>4. IsFiniteSet(there) /\ There(i) = Cardinality(there)
  BY ThereType DEF There
<1> HIDE DEF there
<1>5. /\ Cardinality(read) \in Nat /\ Cardinality(read) <= There(i)
      /\ measured'[phase][i].logs = measured[phase][i].logs + Cardinality(read)
      /\ read = there \/ <<phase, i>> \in unread'
  BY <1>1, <1>2, <1>4, CountReadEffect DEF BenchInv, TypeOK, MeasuredType
<1>6. measured'[phase][i].logs = Cardinality(read)
  BY <1>3, <1>5
<1>7. worker'[i] # "txs"
  BY <1>2
<1> QED
  BY <1>4, <1>5, <1>6, <1>7, OwnCount DEF GoroutineStep

\* The transactions of the block are known, and none of its logs is counted.
LEMMA BlockCountInv ==
  ASSUME BenchInv, CountInv, NEW i \in Index, GotBlock(i)
  PROVE  CountInv'
<1> DEFINE n == start + i
<1>1. /\ worker[i] = "running" /\ worker'[i] = "txs"
      /\ phase = "perTx"
      /\ UNCHANGED <<head, start, measured>>
  BY DEF GotBlock, nodeVars, BenchInv, TypeOK
<1>2. measured'["perTx"][i].logs = 0
  <2>1. measured["perTx"][i] = Nothing
    BY <1>1 DEF CountInv, Uncounted, Before, Pooled
  <2> QED
    BY <1>1, <2>1 DEF Nothing
<1>3. n \in Nat /\ There(i) \in Nat
  BY ThereType
<1>4. head \in Block
  BY DEF BenchInv, TypeOK
<1>5. /\ rest'[i] = <<>> \/ rest'[i] = TxsAt(n)
      /\ rest'[i] = TxsAt(n) \/ <<"perTx", i>> \in unread'
  <2>1. PICK txs \in {<<>>, TxsAt(n)} :
          /\ rest' = [rest EXCEPT ![i] = txs]
          /\ NoteUnread("perTx", IF txs = TxsAt(n) THEN {} ELSE {i})
    BY DEF GotBlock
  <2>2. rest'[i] = txs
    BY <2>1 DEF BenchInv, TypeOK
  <2> QED
    BY <2>1, <2>2 DEF NoteUnread
<1> HIDE DEF n
<1>6. /\ \A j, k \in 1..Len(rest'[i]) : rest'[i][j] = rest'[i][k] => j = k
      /\ \A tx \in Left(i)' : \E b \in CanonicalAt(n) : tx \in TxsIn(b)
      /\ {l \in LogsAt(n) : LogTx[l] \notin Left(i)'} = {} \/ <<"perTx", i>> \in unread'
  <2>1. CASE rest'[i] = <<>>
    <3>1. Len(rest'[i]) = 0
      BY <2>1, EmptySeq
    <3>2. Left(i)' = {}
      BY <3>1 DEF Left
    <3>3. CASE CanonicalAt(n) = {}
      <4>1. LogsAt(n) = {}
        BY <1>3, <1>4, <3>3, LogsAtFinite
      <4> QED
        BY <3>1, <3>2, <4>1
    <3>4. CASE CanonicalAt(n) # {} /\ TxsAt(n) = <<>>
      <4>1. PICK b \in CanonicalAt(n) : TxsOf[b] = <<>>
        BY <3>4 DEF TxsAt
      <4>2. b \in Block /\ LogsAt(n) = LogsIn[b]
        BY <1>3, <1>4, CanonicalAtUnique, LogsAtFinite
      <4>3. TxsIn(b) = {}
        <5>1. Len(TxsOf[b]) = 0
          BY <4>1, EmptySeq
        <5> QED
          BY <5>1 DEF TxsIn
      <4>4. LogsIn[b] = {}
        BY <4>2, <4>3, ContentAssumption
      <4> QED
        BY <3>1, <3>2, <4>2, <4>4
    <3>5. CASE TxsAt(n) # <<>>
      BY <1>5, <2>1, <3>1, <3>2, <3>5
    <3> QED
      BY <3>3, <3>4, <3>5
  <2>2. CASE rest'[i] # <<>>
    <3>1. PICK b \in CanonicalAt(n) : rest'[i] = TxsOf[b]
      BY <1>5, <2>2 DEF TxsAt
    <3>2. b \in Block /\ LogsAt(n) = LogsIn[b]
      BY <1>3, <1>4, CanonicalAtUnique, LogsAtFinite
    <3>3. Left(i)' = TxsIn(b)
      BY <3>1 DEF Left, TxsIn
    <3>4. \A l \in LogsIn[b] : LogTx[l] \in TxsIn(b)
      BY <3>2, ContentAssumption
    <3>5. \A j, k \in 1..Len(TxsOf[b]) : TxsOf[b][j] = TxsOf[b][k] => j = k
      BY <3>2, ContentAssumption
    <3> QED
      BY <3>1, <3>2, <3>3, <3>4, <3>5
  <2> QED
    BY <2>1, <2>2
<1>7. ReadingOf(i)'
  <2>1. CanonicalAt(start + i)' = CanonicalAt(n) /\ LogsAt(start + i)' = LogsAt(n)
    BY <1>1 DEF n, LogsAt, CanonicalAt
  <2>2. LogsRead(i)' = {l \in LogsAt(n) : LogTx[l] \notin Left(i)'}
    BY <2>1 DEF LogsRead
  <2>3. LogsRead(i)' \in SUBSET LogsAt(n) /\ IsFiniteSet(LogsAt(n))
    BY <1>3, <1>4, <2>2, LogsAtFinite
  <2>4. 0 <= Cardinality(LogsRead(i)')
    BY <2>3, FS_Subset, FS_CardinalityType
  <2>5. Cardinality(LogsRead(i)') = 0 \/ <<"perTx", i>> \in unread'
    BY <1>6, <2>2, FS_EmptySet
  <2> QED
    BY <1>2, <1>6, <2>1, <2>4, <2>5 DEF ReadingOf
<1>8. measured'[phase][i].logs <= There(i) /\ worker'[i] # "done"
  BY <1>1, <1>2, <1>3
<1> QED
  BY <1>7, <1>8, OwnCount DEF GoroutineStep

\* One more receipt is read: its logs are counted, and no others.
LEMMA ReceiptCount ==
  ASSUME BenchInv, CountInv, NEW i \in Index, GotReceipt(i)
  PROVE  CountInv'
<1> DEFINE n == start + i
           tx == Head(rest[i])
           more == LogsOfTx(tx)
<1>1. /\ worker[i] = "txs" /\ worker'[i] = "txs"
      /\ rest[i] \in Seq(Tx) /\ rest[i] # <<>>
      /\ rest'[i] = Tail(rest[i])
      /\ UNCHANGED <<head, start, moves>>
  BY DEF GotReceipt, nodeVars, BenchInv, TypeOK
<1>2. phase = "perTx" /\ phase \in Pooled /\ head \in Block
  BY <1>1 DEF BenchInv, InOrder, TypeOK, Pooled
<1>3. n \in Nat /\ There(i) \in Nat /\ IsFiniteSet(LogsRead(i)) /\ IsFiniteSet(LogsAt(n))
  BY ThereType
<1>4. IsFiniteSet(more) /\ Cardinality(more) \in Nat
  BY <1>2, LogsOfTxFinite
<1>5. PICK read \in SUBSET more :
        /\ Cardinality(read) \in Nat /\ Cardinality(read) <= Cardinality(more)
        /\ measured'["perTx"][i].logs = measured["perTx"][i].logs + Cardinality(read)
        /\ read = more \/ <<"perTx", i>> \in unread'
        /\ unread \subseteq unread'
  <2>1. MeasuredType
    BY DEF BenchInv, TypeOK, MeasuredType
  <2>2. PICK read \in SUBSET more : CountRead(i, read, more)
    BY DEF GotReceipt, CountReceipt
  <2> HIDE DEF more
  <2> QED
    BY <1>2, <1>4, <2>1, <2>2, CountReadEffect DEF UnreadAdded
<1>6. SUFFICES ASSUME moves = 0
               PROVE  measured'["perTx"][i].logs <= There(i) /\ ReadingOf(i)'
  <2>1. worker'[i] # "done" /\ phase = "perTx"
    BY <1>1, <1>2
  <2> QED
    BY <2>1, OwnCount DEF GoroutineStep
<1>7. ReadingOf(i)
  BY <1>1, <1>6 DEF CountInv, Reading
<1>8. /\ Len(rest[i]) \in Nat /\ Len(rest[i]) > 0
      /\ Len(rest'[i]) = Len(rest[i]) - 1
      /\ \A k \in 1..Len(rest'[i]) : rest'[i][k] = rest[i][k + 1]
      /\ tx = rest[i][1]
  <2>1. Len(rest[i]) \in Nat \ {0}
    BY <1>1, EmptySeq
  <2>2. /\ Len(Tail(rest[i])) = Len(rest[i]) - 1
        /\ \A k \in 1..Len(Tail(rest[i])) : Tail(rest[i])[k] = rest[i][k + 1]
    BY <1>1, HeadTailProperties
  <2> QED
    BY <1>1, <2>1, <2>2
<1> HIDE DEF tx
<1>9. \A j, k \in 1..Len(rest'[i]) : rest'[i][j] = rest'[i][k] => j = k
  <2> SUFFICES ASSUME NEW j \in 1..Len(rest'[i]), NEW k \in 1..Len(rest'[i]),
                      rest'[i][j] = rest'[i][k]
               PROVE  j = k
    OBVIOUS
  <2>1. j + 1 \in 1..Len(rest[i]) /\ k + 1 \in 1..Len(rest[i])
    BY <1>8
  <2>2. rest[i][j + 1] = rest[i][k + 1]
    BY <1>8
  <2>3. j + 1 = k + 1
    BY <1>7, <2>1, <2>2 DEF ReadingOf
  <2> QED
    BY <1>8, <2>3
<1>10. Left(i)' = Left(i) \ {tx} /\ tx \in Left(i)
  <2>1. tx \in Left(i)
    BY <1>8 DEF Left
  <2>2. ASSUME NEW t \in Left(i)' PROVE t \in Left(i) /\ t # tx
    <3>1. PICK k \in 1..Len(rest'[i]) : t = rest'[i][k]
      BY <2>2 DEF Left
    <3>2. t = rest[i][k + 1] /\ k + 1 \in 1..Len(rest[i]) /\ k + 1 # 1
      BY <1>8, <3>1
    <3>3. 1 \in 1..Len(rest[i])
      BY <1>8
    <3>4. rest[i][k + 1] # rest[i][1]
      BY <1>7, <3>2, <3>3 DEF ReadingOf
    <3> QED
      BY <1>8, <3>2, <3>4 DEF Left
  <2>3. ASSUME NEW t \in Left(i), t # tx PROVE t \in Left(i)'
    <3>1. PICK k \in 1..Len(rest[i]) : t = rest[i][k]
      BY DEF Left
    <3>2. k # 1 /\ k - 1 \in 1..Len(rest'[i])
      BY <1>8, <2>3, <3>1
    <3>3. rest'[i][k - 1] = rest[i][k]
      BY <1>8, <3>2
    <3> QED
      BY <3>1, <3>2, <3>3 DEF Left
  <2> QED
    BY <2>1, <2>2, <2>3
<1>11. PICK b \in CanonicalAt(n) : tx \in TxsIn(b)
  BY <1>7, <1>10 DEF ReadingOf
<1>12. more = {l \in LogsAt(n) : LogTx[l] = tx}
  <2> HIDE DEF n
  <2> QED
    BY <1>2, <1>3, <1>11, LogsOfTxOfBlock
<1>13. CanonicalAt(start + i)' = CanonicalAt(n) /\ LogsAt(start + i)' = LogsAt(n)
  BY <1>1 DEF LogsAt, CanonicalAt
<1> HIDE DEF n, more
<1>14. LogsRead(i)' = LogsRead(i) \cup more /\ LogsRead(i) \cap more = {}
  <2>1. LogsRead(i) = {l \in LogsAt(n) : LogTx[l] \notin Left(i)}
    BY DEF LogsRead, n
  <2>2. LogsRead(i)' = {l \in LogsAt(n) : LogTx[l] \notin Left(i)'}
    BY <1>13 DEF LogsRead
  <2> QED
    BY <1>10, <1>12, <2>1, <2>2
<1>15. Cardinality(LogsRead(i)') = Cardinality(LogsRead(i)) + Cardinality(more)
  <2>1. Cardinality(LogsRead(i) \cup more) =
          Cardinality(LogsRead(i)) + Cardinality(more) - Cardinality(LogsRead(i) \cap more)
    BY <1>3, <1>4, FS_Union
  <2>2. Cardinality(LogsRead(i) \cap more) = 0
    BY <1>14, FS_EmptySet
  <2>3. Cardinality(LogsRead(i)) \in Nat
    BY <1>3, FS_CardinalityType
  <2> QED
    BY <1>4, <1>14, <2>1, <2>2, <2>3
<1>16. /\ measured'["perTx"][i].logs <= Cardinality(LogsRead(i)')
       /\ \/ measured'["perTx"][i].logs = Cardinality(LogsRead(i)')
          \/ <<"perTx", i>> \in unread'
       /\ measured'["perTx"][i].logs \in Nat
  <2>1. measured["perTx"][i].logs \in Nat
    BY DEF BenchInv, TypeOK, Measurement, Pooled
  <2>2. Cardinality(LogsRead(i)) \in Nat
    BY ThereType
  <2> QED
    BY <1>4, <1>5, <1>7, <1>15, <2>1, <2>2 DEF ReadingOf
<1>17. ReadingOf(i)'
  <2>1. \A t \in Left(i)' : \E c \in CanonicalAt(n) : t \in TxsIn(c)
    BY <1>7, <1>10 DEF ReadingOf, n
  <2> QED
    BY <1>9, <1>13, <1>16, <2>1 DEF ReadingOf
<1>18. Cardinality(LogsRead(i)') <= There(i) /\ Cardinality(LogsRead(i)') \in Nat
  <2>1. LogsRead(i)' \in SUBSET LogsAt(n)
    BY <1>13 DEF LogsRead
  <2>2. There(i) = Cardinality(LogsAt(n))
    BY DEF There, n
  <2> QED
    BY <1>3, <2>1, <2>2, FS_Subset, FS_CardinalityType
<1> QED
  BY <1>3, <1>16, <1>17, <1>18

\* All receipts are read, or a call fails: what was counted stays.
LEMMA EndCount ==
  ASSUME BenchInv, CountInv, NEW i \in Index, NoMoreTxs(i) \/ Fail(i)
  PROVE  CountInv'
<1>1. /\ worker[i] \in {"running", "txs"} /\ worker'[i] = "done"
      /\ UNCHANGED <<head, start, moves>>
  BY DEF NoMoreTxs, Fail, End, nodeVars, BenchInv, TypeOK
<1>2. phase \in Pooled /\ phase \notin {"pick", "error"}
  BY <1>1 DEF BenchInv, InOrder, Pooled
<1>3. MeasuredType
  BY DEF BenchInv, TypeOK, MeasuredType
<1>4. moves = 0 => measured[phase][i].logs <= There(i)
  BY <1>2 DEF CountInv, Counted
<1>5. CASE Fail(i)
  <2>1. measured'[phase][i].logs = measured[phase][i].logs /\ measured'[phase][i].failed
    BY <1>2, <1>3, <1>5, FailEffect
  <2> QED
    BY <1>1, <1>4, <1>5, <2>1, OwnCount DEF GoroutineStep
<1>6. CASE NoMoreTxs(i)
  <2>1. worker[i] = "txs" /\ rest[i] = <<>> /\ measured' = measured
    BY <1>6 DEF NoMoreTxs
  <2>2. phase = "perTx"
    BY <2>1 DEF BenchInv, InOrder
  <2>3. Left(i) = {}
    <3>1. Len(rest[i]) = 0
      BY <2>1, EmptySeq
    <3> QED
      BY <3>1 DEF Left
  <2>4. LogsRead(i) = LogsAt(start + i)
    BY <2>3 DEF LogsRead
  <2>5. moves = 0 => measured["perTx"][i].logs = There(i) \/ <<"perTx", i>> \in unread
    BY <2>1, <2>4 DEF CountInv, Reading, ReadingOf, There
  <2>6. unread' = unread
    BY <1>6 DEF NoMoreTxs
  <2> QED
    BY <1>1, <1>4, <1>6, <2>1, <2>2, <2>5, <2>6, OwnCount DEF GoroutineStep
<1> QED
  BY <1>5, <1>6

LEMMA NextCount == BenchInv /\ CountInv /\ [Next]_vars => CountInv'
<1> SUFFICES ASSUME BenchInv, CountInv, [Next]_vars PROVE CountInv'
  OBVIOUS
<1>1. CASE Picked \/ NotPicked
  BY <1>1, PickCount
<1>2. CASE Spawn \/ PoolDone \/ RangedDone
  BY <1>2, MainCount
<1>3. CASE GotChunk \/ ChunkFails
  BY <1>3, ChunkCount
<1>4. ASSUME NEW i \in Index,
             CountedAtOnce(i) \/ GotBlock(i) \/ GotReceipt(i) \/ NoMoreTxs(i) \/ Fail(i)
      PROVE  CountInv'
  BY <1>4, AtOnceCount, BlockCountInv, ReceiptCount, EndCount
<1>5. CASE \/ \E c \in Index \cup {Main} : Again(c)
           \/ UNCHANGED vars
  <2>1. UNCHANGED <<head, moves, start, phase, worker, rest, measured, chunks, ranged,
                    unread>>
    BY <1>5 DEF Again, vars, nodeVars, benchVars, poolVars, rangeVars
  <2>2. \A m \in Pooled, i \in Index : Before(m, i)' = Before(m, i) /\ After(m, i)' = After(m, i)
    BY <2>1 DEF Before, After
  <2> QED
    BY <2>1, <2>2, NothingCounted
<1>6. CASE Reorg
  <2>1. /\ moves' # 0
        /\ UNCHANGED <<phase, start, worker, rest, measured, chunks, ranged>>
    BY <1>6, ReorgEffect
  <2>2. ChunkStart' = ChunkStart
    BY <2>1 DEF ChunkStart, Chunk
  <2> QED
    BY <2>1, <2>2
    DEF CountInv, Uncounted, Before, Counted, Reading, RangedSoFar
<1> QED
  BY <1>1, <1>2, <1>3, <1>4, <1>5, <1>6 DEF Next, MainStep, Worker

LEMMA CountInvariant == Spec => []CountInv
BY InitCount, NextCount, BenchInvariant, PTL DEF Spec

(***************************************************************************)
(* No way counts more logs than a chain that does not move holds, also     *)
(* where it failed half way or could not read an answer                    *)
(* (methods.go:39-54, 66, 109-116, 137, 150-188).                          *)
(***************************************************************************)
THEOREM CountsBounded == Spec => []NeverTooMany
<1>1. BenchInv /\ CountInv => NeverTooMany
  <2> SUFFICES ASSUME BenchInv, CountInv, moves = 0, phase # "pick", phase # "error",
                      NEW i \in Index
               PROVE  /\ \A m \in Pooled : measured[m][i].logs <= There(i)
                      /\ ranged[i] <= There(i)
    BY DEF NeverTooMany, There
  <2>1. \A m \in Pooled : measured[m][i].logs <= There(i)
    BY DEF CountInv, Counted
  <2>2. ranged[i] <= There(i) \/ ranged[i] = 0
    <3>1. ChunkStart \in Nat /\ i \in Nat
      BY ChunkFacts, LogBenchAssumption DEF BenchInv, TypeOK, Index
    <3>2. i < ChunkStart \/ i >= ChunkStart
      BY <3>1
    <3> QED
      BY <3>2 DEF CountInv, RangedSoFar
  <2>3. There(i) \in Nat
    BY ThereType
  <2> QED
    BY <2>1, <2>2, <2>3
<1> QED
  BY <1>1, BenchInvariant, CountInvariant, PTL

(***************************************************************************)
(* On a chain that does not move, the four ways differ about a block only  *)
(* if one of them failed on it or passed over some of it without an error  *)
(* (bench.go:50-78, 150-168; methods.go:66, 109-114, 137, 160, 177).       *)
(***************************************************************************)
THEOREM MismatchExplained == Spec => []MismatchMeansLoss
<1>1. BenchInv /\ CountInv => MismatchMeansLoss
  <2> SUFFICES ASSUME BenchInv, CountInv, phase = "done", moves = 0,
                      NEW i \in Mismatches, ~SomeFailed(i), ~SomeUnread(i)
               PROVE  FALSE
    BY DEF MismatchMeansLoss
  <2>1. i \in Index /\ ~Agree(i)
    BY DEF Mismatches
  <2>2. \A m \in Pooled : measured[m][i].logs = There(i)
    <3>1. \A m \in Pooled : After(m, i)
      BY DEF After, Awaiting, Pooled
    <3> QED
      BY <2>1, <3>1 DEF CountInv, Counted, SomeFailed, SomeUnread, Ways
  <2>3. ranged[i] = There(i)
    <3>1. ChunkStart \in Nat /\ BlockCount \in Nat /\ ChunkStart >= BlockCount
      BY ChunkFacts DEF BenchInv, TypeOK, InOrder
    <3>2. i < ChunkStart
      BY <2>1, <3>1 DEF Index
    <3>3. \A k \in Holding(i) : ~chunks[k].failed
      BY DEF Holding, SomeFailed
    <3> QED
      BY <2>1, <3>2, <3>3 DEF CountInv, RangedSoFar, SomeUnread, Ways
  <2> QED
    BY <2>1, <2>2, <2>3 DEF Agree, Pooled
<1> QED
  BY <1>1, BenchInvariant, CountInvariant, PTL
=============================================================================
