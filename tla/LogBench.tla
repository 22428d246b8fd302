------------------------------- MODULE LogBench -------------------------------
(***************************************************************************)
(* The log benchmark (benchmarks/logbench/bench.go and methods.go, run by  *)
(* cmd/log-bench): the logs of the last BlockCount blocks are counted in   *)
(* four ways, one after the other, and the counts compared.                *)
(*                                                                         *)
(* Three of the ways process blocks in goroutines, Concurrency at a time;  *)
(* one asks for ranges of ChunkSize blocks.  Any call may fail for good,   *)
(* any answer may be null or not decode, which the code does not always    *)
(* notice, and the chain may move between any two calls.                   *)
(***************************************************************************)
EXTENDS Integers, Node, Retry

CONSTANTS
  BlockCount,
  Concurrency,  \* capacity of the semaphore, as configured
  ChunkSize,    \* as configured
  MaxLosses     \* bound on the answers a run loses

ASSUME LogBenchAssumption ==
  /\ BlockCount \in Nat \ {0}
  /\ Concurrency \in Nat
  /\ ChunkSize \in Int
  /\ MaxLosses \in Nat

\* No transaction is twice on one chain: the nonce of its sender forbids it.
ASSUME OneBlockPerTx ==
  \A b \in Block : \A c, d \in ChainOf[b] :
    c # d => TxsIn(c) \cap TxsIn(d) = {}

Chunk == IF ChunkSize < 1 THEN 1 ELSE ChunkSize

Index == 0..(BlockCount - 1)

Main == BlockCount  \* the caller outside the goroutines

\* The ways that use runWorkers.
Pooled == {"getLogs", "receipts", "perTx"}

Ways == Pooled \cup {"ranged"}

(***************************************************************************)
(* The part of BlockMeasurement that is compared, and whether Error is set.*)
(***************************************************************************)
Measurement == [logs : Nat, failed : BOOLEAN]

Nothing == [logs |-> 0, failed |-> FALSE]

VARIABLES
  phase,    \* "pick", "getLogs", "ranged", "receipts", "perTx", "done" or "error"
  start,    \* the first block
  spawned,  \* goroutines of this phase started so far
  worker,   \* by index: "none", "running", "txs" or "done"
  rest,     \* by index: transactions whose receipts are still to be read
  measured, \* by pooled way and index
  chunks,   \* chunks asked for: first and last index, and whether that failed
  ranged,   \* by index: logs found by the ranges (rangedByBlk)
  unread    \* history: way and index of each answer that was not read in full
            \* and left no error, of which the code keeps no trace

poolVars == <<spawned, worker, rest>>
rangeVars == <<chunks, ranged>>
benchVars == <<phase, start, poolVars, measured, rangeVars, unread>>
vars == <<cancelled, nodeVars, attempt, benchVars>>

PoolInit ==
  /\ spawned = 0
  /\ worker = [i \in Index |-> "none"]
  /\ rest = [i \in Index |-> <<>>]

Init ==
  /\ ContextInit
  /\ head = Genesis
  /\ headers = <<>>
  /\ subscribed = FALSE
  /\ moves = 0
  /\ RetryInit(Index \cup {Main})
  /\ phase = "pick"
  /\ start = 0
  /\ PoolInit
  /\ measured = [m \in Pooled |-> [i \in Index |-> Nothing]]
  /\ chunks = <<>>
  /\ ranged = [i \in Index |-> 0]
  /\ unread = {}

-------------------------------------------------------------------------------
(* PickBlocks. *)

Picked ==
  /\ phase = "pick"
  /\ Returned(Main)
  /\ IF BlockCount > Number[head]
       THEN phase' = "error" /\ UNCHANGED start
       ELSE phase' = "getLogs" /\ start' = (Number[head] + 1) - BlockCount
  /\ UNCHANGED <<cancelled, nodeVars, poolVars, measured, rangeVars, unread>>

NotPicked ==
  /\ phase = "pick"
  /\ GiveUp(Main)
  /\ phase' = "error"
  /\ UNCHANGED <<cancelled, nodeVars, start, poolVars, measured, rangeVars, unread>>

-------------------------------------------------------------------------------
(* runWorkers. *)

\* Mutant: a goroutine keeps its slot of the semaphore.
ActiveForGood == {i \in Index : worker[i] # "none"}

\* The goroutines that hold a slot of the semaphore.
Active == {i \in Index : worker[i] \in {"running", "txs"}}

Spawn ==
  /\ phase \in Pooled
  /\ spawned < BlockCount
  /\ Cardinality(Active) < Concurrency
  /\ worker' = [worker EXCEPT ![spawned] = "running"]
  /\ spawned' = spawned + 1
  /\ UNCHANGED <<cancelled, nodeVars, attempt, phase, start, rest, measured, rangeVars, unread>>

NextPhase == [getLogs |-> "ranged", receipts |-> "perTx", perTx |-> "done"]

\* Mutant: the next way starts when the last goroutine has.
AllSpawned == spawned = BlockCount

AllDone == \A i \in Index : worker[i] = "done"

\* wg.Wait() returns, and the next way begins.
PoolDone ==
  /\ phase \in Pooled
  /\ AllDone
  /\ phase' = NextPhase[phase]
  /\ spawned' = 0
  /\ worker' = [i \in Index |-> "none"]
  /\ rest' = [i \in Index |-> <<>>]
  /\ UNCHANGED <<cancelled, nodeVars, attempt, start, measured, rangeVars, unread>>

\* The goroutine of index i ends.
End(i) == worker' = [worker EXCEPT ![i] = "done"]

Measure(i, n) ==
  measured' = [measured EXCEPT ![phase][i].logs = @ + n]

\* Bound: how many answers did not come, or were not read in full, so far.
Losses ==
  Cardinality(unread)
    + Cardinality({mi \in Pooled \X Index : measured[mi[1]][mi[2]].failed})
    + Cardinality({k \in 1..Len(chunks) : chunks[k].failed})

MayLose == Losses < MaxLosses

\* The answers to way w about the blocks of lost were not read in full.
NoteUnread(w, lost) ==
  /\ lost # {} => MayLose
  /\ unread' = unread \cup ({w} \X lost)

\* Of the logs in one answer about block i, those in read are counted.
CountRead(i, read, there) ==
  /\ Measure(i, Cardinality(read))
  /\ NoteUnread(phase, IF read = there THEN {} ELSE {i})

(***************************************************************************)
(* What json.Unmarshal, its error ignored, may make of an answer: a list   *)
(* of raw logs is read whole or not at all, receipts are read one by one.  *)
(* null, and what does not decode, has no logs.                            *)
(***************************************************************************)
Readable(there) ==
  IF phase = "getLogs" THEN {{}, there}
  ELSE {{l \in there : LogTx[l] \in txs} : txs \in SUBSET {LogTx[l] : l \in there}}

\* eth_getLogs for one block, or eth_getBlockReceipts: one call counts all.
CountedAtOnce(i) ==
  /\ worker[i] = "running"
  /\ phase \in {"getLogs", "receipts"}
  /\ Returned(i)
  /\ \E read \in Readable(LogsAt(start + i)) : CountRead(i, read, LogsAt(start + i))
  /\ End(i)
  /\ UNCHANGED <<cancelled, nodeVars, phase, start, spawned, rest, rangeVars>>

\* The transactions of the block with number n.
TxsAt(n) ==
  IF CanonicalAt(n) = {} THEN <<>> ELSE TxsOf[CHOOSE b \in CanonicalAt(n) : TRUE]

(***************************************************************************)
(* eth_getBlockByNumber: the transactions to ask for.  null, which is the  *)
(* answer if there is no such block, decodes into none, and so does a      *)
(* block without its list.                                                 *)
(***************************************************************************)
GotBlock(i) ==
  /\ worker[i] = "running"
  /\ phase = "perTx"
  /\ Returned(i)
  /\ \E txs \in {<<>>, TxsAt(start + i)} :
       /\ rest' = [rest EXCEPT ![i] = txs]
       /\ NoteUnread("perTx", IF txs = TxsAt(start + i) THEN {} ELSE {i})
  /\ worker' = [worker EXCEPT ![i] = "txs"]
  /\ UNCHANGED <<cancelled, nodeVars, phase, start, spawned, measured, rangeVars>>

\* The logs in the receipt of tx; the receipt of a transaction that is gone is null.
LogsOfTx(tx) == {l \in UNION {LogsIn[b] : b \in MinedIn(tx)} : LogTx[l] = tx}

\* Mutant: for each transaction the receipts of the whole block are counted.
CountWholeBlock(i) == LET there == LogsAt(start + i) IN CountRead(i, there, there)

\* null decodes into a receipt without logs.
CountReceipt(i) ==
  LET there == LogsOfTx(Head(rest[i])) IN
    \E read \in {{}, there} : CountRead(i, read, there)

\* eth_getTransactionReceipt of the next transaction.
GotReceipt(i) ==
  /\ worker[i] = "txs"
  /\ rest[i] # <<>>
  /\ Returned(i)
  /\ CountReceipt(i)
  /\ rest' = [rest EXCEPT ![i] = Tail(@)]
  /\ UNCHANGED <<cancelled, nodeVars, phase, start, spawned, worker, rangeVars>>

NoMoreTxs(i) ==
  /\ worker[i] = "txs"
  /\ rest[i] = <<>>
  /\ End(i)
  /\ UNCHANGED <<cancelled, nodeVars, attempt, phase, start, spawned, rest,
                 measured, rangeVars, unread>>

\* A call fails for good, or the answer to one of perTx does not decode: Error is
\* set, and what was counted so far stays.
Fail(i) ==
  /\ worker[i] = "running" \/ (worker[i] = "txs" /\ rest[i] # <<>>)
  /\ MayLose
  /\ GiveUp(i)
  /\ measured' = [measured EXCEPT ![phase][i].failed = TRUE]
  /\ End(i)
  /\ UNCHANGED <<cancelled, nodeVars, phase, start, spawned, rest, rangeVars, unread>>

-------------------------------------------------------------------------------
(* RunGetLogsRanged. *)

\* Mutant: the next chunk starts with the last block of this one.
ChunkStartOverlapping ==
  IF chunks = <<>> THEN 0
  ELSE LET l == chunks[Len(chunks)].last IN IF l = BlockCount - 1 THEN l + 1 ELSE l

\* The loop's start, after the chunks asked for.
ChunkStart == Len(chunks) * Chunk

\* Mutant: the last chunk is not cut at the end of the range.
ChunkLastUncut == (ChunkStart + Chunk) - 1

ChunkLast ==
  IF ChunkStart + Chunk > BlockCount THEN BlockCount - 1 ELSE (ChunkStart + Chunk) - 1

AddChunk(failed) ==
  chunks' = Append(chunks, [first |-> ChunkStart, last |-> ChunkLast, failed |-> failed])

(***************************************************************************)
(* eth_getLogs for the range.  Logs are counted by the block they name; a  *)
(* log whose block number cannot be read, and each log of an answer that   *)
(* is null or does not decode, is passed over.                             *)
(***************************************************************************)
GotChunk ==
  /\ phase = "ranged"
  /\ ChunkStart < BlockCount
  /\ Returned(Main)
  /\ AddChunk(FALSE)
  /\ LET asked == ChunkStart..ChunkLast IN
       \E read \in SUBSET UNION {LogsAt(start + i) : i \in asked} :
         /\ ranged' = [i \in Index |->
                         IF i \in asked
                           THEN ranged[i] + Cardinality(LogsAt(start + i) \cap read)
                           ELSE ranged[i]]
         /\ NoteUnread("ranged", {i \in asked : ~(LogsAt(start + i) \subseteq read)})
  /\ UNCHANGED <<cancelled, nodeVars, phase, start, poolVars, measured>>

ChunkFails ==
  /\ phase = "ranged"
  /\ ChunkStart < BlockCount
  /\ MayLose
  /\ GiveUp(Main)
  /\ AddChunk(TRUE)
  /\ UNCHANGED <<cancelled, nodeVars, phase, start, poolVars, measured, ranged, unread>>

RangedDone ==
  /\ phase = "ranged"
  /\ ChunkStart >= BlockCount
  /\ phase' = "receipts"
  /\ UNCHANGED <<cancelled, nodeVars, attempt, start, poolVars, measured, rangeVars, unread>>

-------------------------------------------------------------------------------
\* A call fails and is tried again.
Again(c) ==
  /\ \/ c = Main /\ (phase = "pick" \/ (phase = "ranged" /\ ChunkStart < BlockCount))
     \/ c \in Index /\ (worker[c] = "running" \/ (worker[c] = "txs" /\ rest[c] # <<>>))
  /\ TryAgain(c)
  /\ UNCHANGED <<cancelled, nodeVars, benchVars>>

MainStep ==
  \/ Picked \/ NotPicked
  \/ Spawn \/ PoolDone
  \/ GotChunk \/ ChunkFails \/ RangedDone
  \/ Again(Main)

Worker(i) ==
  \/ CountedAtOnce(i)
  \/ GotBlock(i) \/ GotReceipt(i) \/ NoMoreTxs(i)
  \/ Fail(i)
  \/ Again(i)

Reorg == (\E b \in Block : NewHead(b)) /\ UNCHANGED <<cancelled, attempt, benchVars>>

Next ==
  \/ MainStep
  \/ \E i \in Index : Worker(i)
  \/ Reorg

Spec == Init /\ [][Next]_vars

\* Some goroutine that can go on does, and every call ends: the client has a
\* time limit.  No goroutine waits for another for good, so this is enough.
FairSpec == Spec /\ WF_vars(MainStep \/ \E i \in Index : Worker(i))

-------------------------------------------------------------------------------
(* CrossCheckLogs. *)

Agree(i) ==
  /\ measured["getLogs"][i].logs = ranged[i]
  /\ ranged[i] = measured["receipts"][i].logs
  /\ measured["receipts"][i].logs = measured["perTx"][i].logs

Mismatches == {i \in Index : ~Agree(i)}

-------------------------------------------------------------------------------
(* Properties. *)

TypeOK ==
  /\ head \in Block
  /\ RetryTypeOK(Index \cup {Main})
  /\ phase \in Pooled \cup {"pick", "ranged", "done", "error"}
  /\ start \in Nat
  /\ spawned \in 0..BlockCount
  /\ worker \in [Index -> {"none", "running", "txs", "done"}]
  /\ rest \in [Index -> Seq(Tx)]
  /\ measured \in [Pooled -> [Index -> Measurement]]
  /\ chunks \in Seq([first : Index, last : Index, failed : BOOLEAN])
  /\ ranged \in [Index -> Nat]
  /\ unread \subseteq Ways \X Index

\* A measurement of block i failed, one way or another.
SomeFailed(i) ==
  \/ \E m \in Pooled : measured[m][i].failed
  \/ \E k \in 1..Len(chunks) : chunks[k].failed /\ i \in chunks[k].first..chunks[k].last

\* Something of block i was passed over without an error.
SomeUnread(i) == \E w \in Ways : <<w, i>> \in unread

(***************************************************************************)
(* bench.go:50-78, 150-168; methods.go:66, 109-114, 137, 160, 177.  On a   *)
(* chain that does not move, a mismatch between the four ways is never an  *)
(* artefact of the pools, the chunks or the order of the receipts: a call  *)
(* about that block failed, or one of its answers was not read in full.    *)
(* The second leaves no error, so that the run cannot tell it from a way   *)
(* that counts differently.                                                *)
(***************************************************************************)
MismatchMeansLoss ==
  phase = "done" /\ moves = 0 => \A i \in Mismatches : SomeFailed(i) \/ SomeUnread(i)

(***************************************************************************)
(* methods.go:83-126.  The chunks cut the range of blocks into pieces      *)
(* without gap or overlap, the last one included, whichever failed.        *)
(***************************************************************************)
ChunksCutTheRange ==
  phase \in {"receipts", "perTx", "done"} =>
    \A i \in Index :
      Cardinality({k \in 1..Len(chunks) : i \in chunks[k].first..chunks[k].last}) = 1

(***************************************************************************)
(* methods.go:39-54, 66, 109-116, 137, 150-188.  No way counts more logs   *)
(* than there are on a chain that does not move: what is lost to failures  *)
(* and to answers that cannot be read is lost, and nothing counted twice.  *)
(***************************************************************************)
NeverTooMany ==
  moves = 0 /\ phase # "pick" /\ phase # "error" =>
    \A i \in Index :
      LET there == Cardinality(LogsAt(start + i)) IN
        /\ \A m \in Pooled : measured[m][i].logs <= there
        /\ ranged[i] <= there

\* bench.go:50-78.  With a positive concurrency the benchmark ends.
RunReturns == Concurrency > 0 => <>(phase \in {"done", "error"})
=============================================================================
