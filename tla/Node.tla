--------------------------------- MODULE Node ---------------------------------
(***************************************************************************)
(* The Ethereum node as the Watcher sees it: a chain that grows and        *)
(* reorganises, a subscription that announces new heads, and RPCs that     *)
(* read the canonical chain of the moment.  The node is not part of this   *)
(* repository; it is modelled from how client/ethereum.go uses it.         *)
(*                                                                         *)
(* A block stands for its hash.  Its number, its ancestors, transactions   *)
(* and logs are constants: what changes is which block is the head.        *)
(***************************************************************************)
EXTENDS Naturals, Sequences, FiniteSets, Context

CONSTANTS
  Block,             \* all blocks, of all forks
  Genesis,           \* the head when the service starts
  Number,            \* Number[b] is the height of b
  ChainOf,           \* ChainOf[b] is b and all its ancestors
  Tx,                \* transactions
  TxsOf,             \* TxsOf[b] is the sequence of transactions of b
  Log,               \* logs (of events the service may watch)
  LogsIn,            \* LogsIn[b] is the set of logs of block b
  LogTx,             \* LogTx[l] is the transaction that emitted l
  HeadsNeverShrink,  \* TRUE: a new head is never lower than the old one
  ConnectionMayDrop, \* TRUE: the WebSocket connection may be lost
  MaxMoves           \* bound on the number of head changes

TxsIn(b) == {TxsOf[b][i] : i \in 1..Len(TxsOf[b])}

ASSUME ChainAssumption ==
  /\ Genesis \in Block
  /\ Number \in [Block -> Nat]
  /\ ChainOf \in [Block -> SUBSET Block]
  /\ \A b \in Block :
       /\ b \in ChainOf[b]
       /\ \A c \in ChainOf[b] : Number[c] <= Number[b]
       /\ \A c, d \in ChainOf[b] : Number[c] = Number[d] => c = d

ASSUME ContentAssumption ==
  /\ TxsOf \in [Block -> Seq(Tx)]
  /\ \A b \in Block : \A i, j \in 1..Len(TxsOf[b]) :
       TxsOf[b][i] = TxsOf[b][j] => i = j
  /\ LogTx \in [Log -> Tx]
  /\ LogsIn \in [Block -> SUBSET Log]
  /\ \A b \in Block : /\ IsFiniteSet(LogsIn[b])
                      /\ \A l \in LogsIn[b] : LogTx[l] \in TxsIn(b)

ASSUME NodeAssumption ==
  /\ HeadsNeverShrink \in BOOLEAN
  /\ ConnectionMayDrop \in BOOLEAN
  /\ MaxMoves \in Nat

VARIABLES
  head,        \* the head of the canonical chain
  headers,     \* numbers of announced heads the Watcher has not received
  subscribed,  \* the subscription is alive
  moves        \* head changes so far, at most MaxMoves

nodeVars == <<head, headers, subscribed, moves>>

NodeInit ==
  /\ head = Genesis
  /\ headers = <<>>
  /\ subscribed = TRUE
  /\ moves = 0

-------------------------------------------------------------------------------
(* What an RPC that succeeds returns. *)

\* BlockByNumber: the canonical block of that height, if there is one.
CanonicalAt(n) == {b \in ChainOf[head] : Number[b] = n}

\* TransactionReceipt: the canonical block that includes tx, if there is one.
MinedIn(tx) == {b \in ChainOf[head] : tx \in TxsIn(b)}

\* FilterLogs over a range of one height.
LogsAt(n) == UNION {LogsIn[b] : b \in CanonicalAt(n)}

-------------------------------------------------------------------------------
Heights(from, to) == [i \in 1..(to + 1 - from) |-> from + i - 1]

(***************************************************************************)
(* The node adopts b as its head, on the same fork or on another one.  A   *)
(* subscriber is told about the new head, and, as some node releases do,   *)
(* about the newly canonical blocks below it, in ascending order.  The     *)
(* client library buffers what the Watcher has not received yet.           *)
(***************************************************************************)
NewHead(b) ==
  /\ moves < MaxMoves
  /\ b # head
  /\ HeadsNeverShrink => Number[b] >= Number[head]
  /\ head' = b
  /\ moves' = moves + 1
  /\ IF subscribed
       THEN \E lowest \in {Number[c] : c \in {b} \cup (ChainOf[b] \ ChainOf[head])} :
              headers' = headers \o Heights(lowest, Number[b])
       ELSE headers' = headers
  /\ UNCHANGED subscribed

(***************************************************************************)
(* The connection breaks: the library ends the subscription and reports it *)
(* on sub.Err(), which SubscribeNewBlocks never reads.  Nothing closes the *)
(* channel the Watcher receives from.                                      *)
(***************************************************************************)
LoseConnection ==
  /\ ConnectionMayDrop
  /\ subscribed
  /\ subscribed' = FALSE
  /\ headers' = <<>>
  /\ UNCHANGED <<head, moves>>

(***************************************************************************)
(* The goroutine of SubscribeNewBlocks wakes up on ctx.Done().             *)
(***************************************************************************)
Unsubscribe ==
  /\ cancelled
  /\ subscribed
  /\ subscribed' = FALSE
  /\ headers' = <<>>
  /\ UNCHANGED <<head, moves>>
=============================================================================
