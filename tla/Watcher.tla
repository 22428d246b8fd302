------------------------------- MODULE Watcher -------------------------------
(***************************************************************************)
(* The Watcher goroutine (internal/watcher/watcher.go): it receives the    *)
(* number of each announced head, checks the alerts that are due for a     *)
(* second look, reads the block of that number and its logs, alerts on     *)
(* every whale it finds and remembers the alert until its re-check.        *)
(*                                                                         *)
(* Each action ends where the goroutine waits: for a header, an RPC or the *)
(* webhooks.  Between two actions the chain may change.  Which logs reach  *)
(* the threshold depends on decimals and prices, see TokenValuation; here  *)
(* any subset of them may.                                                 *)
(***************************************************************************)
EXTENDS Node, Notifier

CONSTANTS
  Whale,    \* transactions whose value reaches thresholdWei
  LogKind,  \* LogKind[l] is "erc20" or "swap"
  Watched,  \* the kinds switched on by WATCH_ERC20 and WATCH_SWAPS
  Conf,     \* CONFIRMATION_BLOCKS
  Native,   \* source of an alert that is about the transaction's own value
  NoBlock,  \* no block
  NoAlert   \* no alert

Kind == {"erc20", "swap"}

(***************************************************************************)
(* An alert is about a transaction, or one of its logs, in a block.  The   *)
(* block is the one the Watcher was reading, whichever block the log came  *)
(* from.                                                                   *)
(***************************************************************************)
Alert ==
  {a \in [tx : Tx, source : Log \cup {Native}, block : Block] :
     /\ a.tx \in TxsIn(a.block)
     /\ IF a.source = Native THEN a.tx \in Whale
                             ELSE a.tx = LogTx[a.source]}

ASSUME WatcherAssumption ==
  /\ Whale \subseteq Tx
  /\ LogKind \in [Log -> Kind]
  /\ Watched \subseteq Kind
  /\ Conf \in Nat
  /\ Native \notin Log
  /\ NoBlock \notin Block
  /\ NoAlert \notin Alert

VARIABLES
  pc,            \* where the goroutine is
  number,        \* number of the header in hand (0: none yet)
  pending,       \* w.pending, as the set of its values (one per transaction)
  todo,          \* due alerts the range over w.pending has yet to visit
  current,       \* the event of the fan-out in progress, or NoAlert
  block,         \* the block processBlock iterates over, or NoBlock
  logs,          \* the logs fetched for it
  at,            \* position of the loop over its transactions
  stage,         \* the next check for that transaction
  queue          \* events of the last check that are still to be announced

VARIABLES        \* the metrics the Watcher keeps
  whaleTotal,    \* whale_transactions_total, all types
  reorgedTotal,  \* alerts_reorged_total
  pendingGauge   \* pending_alerts

VARIABLES        \* the counters of the metrics, split for the properties
  detected,      \* by alert: announcements,
  confirmed,     \* confirmations,
  reorged,       \* corrections;
  processed      \* by block: completed passes

scanVars == <<block, logs, at, stage, queue>>
verdictVars == <<confirmed, reorged, reorgedTotal>>
alertVars == <<detected, whaleTotal>>
watcherVars == <<pc, number, pending, todo, current, scanVars, verdictVars,
                 alertVars, processed, pendingGauge>>
vars == <<cancelled, nodeVars, notifierVars, watcherVars>>

Init ==
  /\ ContextInit
  /\ NodeInit
  /\ NotifierInit
  /\ pc = "select"
  /\ number = 0
  /\ pending = {}
  /\ todo = {}
  /\ current = NoAlert
  /\ block = NoBlock
  /\ logs = {}
  /\ at = 1
  /\ stage = "native"
  /\ queue = {}
  /\ whaleTotal = 0
  /\ reorgedTotal = 0
  /\ pendingGauge = 0
  /\ detected = [a \in Alert |-> 0]
  /\ confirmed = [a \in Alert |-> 0]
  /\ reorged = [a \in Alert |-> 0]
  /\ processed = [b \in Block |-> 0]

Goto(from, to) == pc = from /\ pc' = to

-------------------------------------------------------------------------------
(* Run: receive a header, and checkReorgs up to the loop over w.pending.   *)

\* Mutant: the comparison is off by one.
DueStrict(n) == {a \in pending : Number[a.block] + Conf < n}

Due(n) == {a \in pending : Number[a.block] + Conf <= n}

TakeHeader ==
  /\ headers # <<>>
  /\ number' = Head(headers)
  /\ headers' = Tail(headers)
  /\ IF Conf = 0 \/ pending = {}
       THEN Goto("select", "fetch") /\ todo' = {}
       ELSE Goto("select", "reorg") /\ todo' = Due(Head(headers))
  /\ UNCHANGED <<cancelled, head, subscribed, moves, notifierVars, pending, current,
                 scanVars, verdictVars, alertVars, processed, pendingGauge>>

(***************************************************************************)
(* The result of GetTransactionReceipt, as the block it names: NoBlock     *)
(* when the lookup fails or finds nothing.  Any lookup may fail.           *)
(***************************************************************************)
Receipts(tx) == MinedIn(tx) \cup {NoBlock}

\* Mutant: any receipt will do, its block hash is not compared.
ConfirmAnyBlock(a) ==
  /\ Goto("reorg", "reorg")
  /\ a \in todo
  /\ \E found \in Receipts(a.tx) : found # NoBlock
  /\ confirmed' = [confirmed EXCEPT ![a] = @ + 1]
  /\ pending' = pending \ {a}
  /\ todo' = todo \ {a}
  /\ UNCHANGED <<cancelled, nodeVars, notifierVars, number, current, scanVars,
                 reorged, reorgedTotal, alertVars, processed, pendingGauge>>

\* One round of the loop: the receipt still names the alert's block.
Confirm(a) ==
  /\ Goto("reorg", "reorg")
  /\ a \in todo
  /\ \E found \in Receipts(a.tx) : found = a.block
  /\ confirmed' = [confirmed EXCEPT ![a] = @ + 1]
  /\ pending' = pending \ {a}
  /\ todo' = todo \ {a}
  /\ UNCHANGED <<cancelled, nodeVars, notifierVars, number, current, scanVars,
                 reorged, reorgedTotal, alertVars, processed, pendingGauge>>

\* The receipt is missing or names another block: a correction goes out.
Retract(a) ==
  /\ Goto("reorg", "retract")
  /\ a \in todo
  /\ \E found \in Receipts(a.tx) : found # a.block
  /\ reorged' = [reorged EXCEPT ![a] = @ + 1]
  /\ reorgedTotal' = reorgedTotal + 1
  /\ current' = a
  /\ StartFanOut
  /\ UNCHANGED <<cancelled, nodeVars, number, pending, todo, scanVars, confirmed,
                 alertVars, processed, pendingGauge>>

\* Mutant: the corrected alert stays in w.pending.
FinishRetractKeeping ==
  /\ Goto("retract", "reorg")
  /\ FanOutDone
  /\ todo' = todo \ {current}
  /\ current' = NoAlert
  /\ UNCHANGED <<cancelled, nodeVars, notifierVars, number, pending, scanVars, verdictVars,
                 alertVars, processed, pendingGauge>>

\* The correction has been sent: the alert is deleted from w.pending.
FinishRetract ==
  /\ Goto("retract", "reorg")
  /\ FanOutDone
  /\ pending' = pending \ {current}
  /\ todo' = todo \ {current}
  /\ current' = NoAlert
  /\ UNCHANGED <<cancelled, nodeVars, notifierVars, number, scanVars, verdictVars,
                 alertVars, processed, pendingGauge>>

\* Mutant: the gauge is not set again after the loop.
FinishCheckSilently ==
  /\ Goto("reorg", "fetch")
  /\ todo = {}
  /\ UNCHANGED <<cancelled, nodeVars, notifierVars, number, pending, todo, current,
                 scanVars, verdictVars, alertVars, processed, pendingGauge>>

FinishCheck ==
  /\ Goto("reorg", "fetch")
  /\ todo = {}
  /\ pendingGauge' = Cardinality(pending)
  /\ UNCHANGED <<cancelled, nodeVars, notifierVars, number, pending, todo, current,
                 scanVars, verdictVars, alertVars, processed>>

-------------------------------------------------------------------------------
(* processBlock: the two reads, by number, at two different moments.       *)

\* Mutant: the error of GetBlockByNumber is ignored.
FetchBlockUnchecked ==
  /\ Goto("fetch", IF Watched = {} THEN "scan" ELSE "logs")
  /\ block' \in CanonicalAt(number) \cup {NoBlock}
  /\ UNCHANGED <<cancelled, nodeVars, notifierVars, number, pending, todo, current,
                 logs, at, stage, queue, verdictVars, alertVars, processed, pendingGauge>>

FetchBlock ==
  /\ Goto("fetch", IF Watched = {} THEN "scan" ELSE "logs")
  /\ block' \in CanonicalAt(number)
  /\ UNCHANGED <<cancelled, nodeVars, notifierVars, number, pending, todo, current,
                 logs, at, stage, queue, verdictVars, alertVars, processed,
                 pendingGauge>>

FetchLogs ==
  /\ Goto("logs", "scan")
  /\ logs' = {l \in LogsAt(number) : LogKind[l] \in Watched}
  /\ UNCHANGED <<cancelled, nodeVars, notifierVars, number, pending, todo, current,
                 block, at, stage, queue, verdictVars, alertVars, processed,
                 pendingGauge>>

\* Mutant: Run returns the error of processBlock.
AbandonWatcher ==
  /\ Goto("fetch", "done") \/ Goto("logs", "done")
  /\ block' = NoBlock
  /\ UNCHANGED <<cancelled, nodeVars, notifierVars, number, pending, todo, current,
                 logs, at, stage, queue, verdictVars, alertVars, processed, pendingGauge>>

\* Either read fails: Run logs the error and waits for the next header.
AbandonBlock ==
  /\ Goto("fetch", "select") \/ Goto("logs", "select")
  /\ block' = NoBlock
  /\ UNCHANGED <<cancelled, nodeVars, notifierVars, number, pending, todo, current,
                 logs, at, stage, queue, verdictVars, alertVars, processed,
                 pendingGauge>>

-------------------------------------------------------------------------------
(* processBlock: the loop over the block's transactions.                   *)

AlertOn(tx, source) == [tx |-> tx, source |-> source, block |-> block]

\* The logs of tx of one kind: those of logsByTx[tx.Hash()] the check looks at.
TxLogs(tx, kind) == {l \in logs : LogTx[l] = tx /\ LogKind[l] = kind}

\* The events one check of tx may return.
Found(tx, check) ==
  IF check = "native"
    THEN {IF tx \in Whale THEN {AlertOn(tx, Native)} ELSE {}}
    ELSE SUBSET {AlertOn(tx, l) : l \in TxLogs(tx, check)}

NextStage == [native |-> "erc20", erc20 |-> "swap", swap |-> "native"]

\* Mutant: the loop stops before the last transaction.
MoreTxsButLast == at < Len(TxsOf[block])

MoreTxs == at <= Len(TxsOf[block])

\* One of the three checks of a transaction.  It counts what it finds.
Check ==
  /\ Goto("scan", "scan")
  /\ queue = {}
  /\ MoreTxs
  /\ queue' \in Found(TxsOf[block][at], stage)
  /\ whaleTotal' = whaleTotal + Cardinality(queue')
  /\ stage' = NextStage[stage]
  /\ at' = IF stage = "swap" THEN at + 1 ELSE at
  /\ UNCHANGED <<cancelled, nodeVars, notifierVars, number, pending, todo, current,
                 block, logs, verdictVars, detected, processed, pendingGauge>>

(***************************************************************************)
(* notify one of the events found.  Their order, that of the logs in the   *)
(* transaction, is not modelled: any order may happen.                     *)
(***************************************************************************)
Announce(a) ==
  /\ Goto("scan", "alert")
  /\ a \in queue
  /\ queue' = queue \ {a}
  /\ detected' = [detected EXCEPT ![a] = @ + 1]
  /\ current' = a
  /\ StartFanOut
  /\ UNCHANGED <<cancelled, nodeVars, number, pending, todo, block, logs, at, stage,
                 verdictVars, whaleTotal, processed, pendingGauge>>

\* w.pending[tx] = a replaces what w.pending holds for that transaction.
Replacing(alerts, a) == {b \in alerts : b.tx # a.tx} \cup {a}

\* trackPending, once every notifier has returned.
Track ==
  /\ Goto("alert", "scan")
  /\ FanOutDone
  /\ IF Conf = 0
       THEN UNCHANGED <<pending, pendingGauge>>
       ELSE /\ pending' = Replacing(pending, current)
            /\ pendingGauge' = Cardinality(pending')
  /\ current' = NoAlert
  /\ UNCHANGED <<cancelled, nodeVars, notifierVars, number, todo, scanVars, verdictVars,
                 alertVars, processed>>

FinishBlock ==
  /\ Goto("scan", "select")
  /\ queue = {}
  /\ ~MoreTxs
  /\ processed' = [processed EXCEPT ![block] = @ + 1]
  /\ block' = NoBlock
  /\ logs' = {}
  /\ at' = 1
  /\ stage' = "native"
  /\ UNCHANGED <<cancelled, nodeVars, notifierVars, number, pending, todo, current, queue,
                 verdictVars, alertVars, pendingGauge>>

-------------------------------------------------------------------------------
(* The end: Run returns at its select, or the process ends, without        *)
(* waiting for its goroutines, wherever they are.                          *)

Running == pc # "done"

Stop ==
  /\ cancelled
  /\ Goto("select", "done")
  /\ UNCHANGED <<cancelled, nodeVars, notifierVars, number, pending, todo, current,
                 scanVars, verdictVars, alertVars, processed, pendingGauge>>

Exit ==
  /\ cancelled
  /\ pc \notin {"select", "done"}
  /\ pc' = "done"
  /\ UNCHANGED <<cancelled, nodeVars, notifierVars, number, pending, todo, current,
                 scanVars, verdictVars, alertVars, processed, pendingGauge>>

-------------------------------------------------------------------------------
WatcherStep ==
  \/ TakeHeader
  \/ \E a \in todo : Confirm(a) \/ Retract(a)
  \/ FinishRetract
  \/ FinishCheck
  \/ FetchBlock
  \/ FetchLogs
  \/ AbandonBlock
  \/ Check
  \/ \E a \in queue : Announce(a)
  \/ Track
  \/ FinishBlock
  \/ Stop

Post(c) == Running /\ Deliver(c) /\ UNCHANGED <<cancelled, nodeVars, watcherVars>>

ChainStep ==
  /\ \/ \E b \in Block : NewHead(b)
     \/ LoseConnection
     \/ Unsubscribe
  /\ Running
  /\ UNCHANGED <<cancelled, notifierVars, watcherVars>>

Shutdown == Cancel /\ UNCHANGED <<nodeVars, notifierVars, watcherVars>>

Next ==
  \/ WatcherStep
  \/ \E c \in Channel : Post(c)
  \/ ChainStep
  \/ Shutdown
  \/ Exit

Spec == Init /\ [][Next]_vars

(***************************************************************************)
(* The goroutines are scheduled, the node answers each request, with a     *)
(* result or an error, and each post ends within the HTTP client's limit.  *)
(***************************************************************************)
Fairness == WF_vars(WatcherStep) /\ \A c \in Channel : WF_vars(Post(c))

FairSpec == Spec /\ Fairness

-------------------------------------------------------------------------------
(* Properties. *)

Pcs == {"select", "reorg", "retract", "fetch", "logs", "scan", "alert", "done"}

\* Every variable has its type; a fan-out has an event, a scan has a block.
TypeOK ==
  /\ cancelled \in BOOLEAN
  /\ head \in Block
  /\ headers \in Seq(Nat)
  /\ subscribed \in BOOLEAN
  /\ moves \in Nat
  /\ NotifierTypeOK
  /\ pc \in Pcs
  /\ number \in Nat
  /\ pending \subseteq Alert
  /\ todo \subseteq pending
  /\ current \in Alert \cup {NoAlert}
  /\ pc \in {"retract", "alert"} => current # NoAlert
  /\ block \in Block \cup {NoBlock}
  /\ pc \in {"logs", "scan", "alert"} => block # NoBlock
  /\ logs \subseteq Log
  /\ at \in Nat \ {0}
  /\ stage \in Kind \cup {"native"}
  /\ queue \subseteq Alert
  /\ whaleTotal \in Nat
  /\ reorgedTotal \in Nat
  /\ pendingGauge \in Nat
  /\ detected \in [Alert -> Nat]
  /\ confirmed \in [Alert -> Nat]
  /\ reorged \in [Alert -> Nat]
  /\ processed \in [Block -> Nat]

(***************************************************************************)
(* watcher.go:324-358.  Outside the re-check no alert is left in w.pending *)
(* that was due at the number in hand, whatever lookups failed, whatever   *)
(* was added since and however the announced numbers go up and down.       *)
(***************************************************************************)
NoOverduePending ==
  Conf > 0 /\ pc \notin {"reorg", "retract", "done"} =>
    \A a \in pending : Number[a.block] + Conf > number

(***************************************************************************)
(* metrics.go:94, watcher.go:316,361.  Outside the re-check the gauge is   *)
(* the size of w.pending, although two places set it and entries are both  *)
(* replaced and deleted.                                                   *)
(***************************************************************************)
PendingGaugeExact ==
  pc \notin {"reorg", "retract", "done"} => pendingGauge = Cardinality(pending)

(***************************************************************************)
(* The counters of the notifiers and of the Watcher agree at every moment, *)
(* on each channel: what was sent or failed is what was detected or        *)
(* corrected, less what is queued or on its way (watcher.go:119,236,279,   *)
(* 345; notifier.go:53; swap.go's own increment).  No event overtakes      *)
(* another on a channel: that is what wg.Wait() is for.                    *)
(***************************************************************************)
MetricsReconcile ==
  \A c \in Channel :
    sent[c] + errors[c] + (IF c \in waiting THEN 1 ELSE 0) + Cardinality(queue)
      = whaleTotal + reorgedTotal

\* The loop has passed the native check of the transaction of alert a.
Passed(a) ==
  /\ block = a.block
  /\ \E i \in 1..Len(TxsOf[block]) :
       /\ TxsOf[block][i] = a.tx
       /\ i < at \/ (i = at /\ stage # "native")

(***************************************************************************)
(* watcher.go:114-146.  In each completed pass over a block every native   *)
(* whale in it is announced exactly once, no matter what the log checks of *)
(* its neighbours return, and never in a pass that is abandoned.           *)
(***************************************************************************)
WhalesAlertedOncePerPass ==
  \A a \in Alert : a.source = Native =>
    detected[a] = processed[a.block] + (IF Passed(a) /\ a \notin queue THEN 1 ELSE 0)

(***************************************************************************)
(* metrics.go:89, watcher.go:324-356.  An alert that is counted as         *)
(* confirmed is canonical at that moment and at the configured depth below *)
(* the real head, however late its header is taken from the queue.         *)
(***************************************************************************)
ConfirmedAtDepth ==
  [][\A a \in Alert : confirmed'[a] > confirmed[a] =>
       /\ a.block \in ChainOf[head]
       /\ HeadsNeverShrink => Number[a.block] + Conf <= Number[head]]_vars

\* The alerts a reader of the channels sees as announced and not judged.
Open ==
  CASE pc = "done" -> {}
    [] pc = "retract" -> pending \ {current}
    [] pc = "alert" /\ Conf > 0 -> Replacing(pending, current)
    [] OTHER -> pending

AlertTx(a) == a.tx

Ledger == INSTANCE AlertLedger WITH TxOf <- AlertTx, Recheck <- Conf > 0, open <- Open

(***************************************************************************)
(* The Watcher implements the ledger: at most one verdict for each         *)
(* announcement, and verdicts only on the open alert of a transaction.     *)
(***************************************************************************)
ImplementsLedger == Ledger!Spec

\* The first of these promises, of the Watcher's own counters (watcher.go:331-358).
VerdictsBacked == Ledger!OneVerdictEach

(***************************************************************************)
(* README.md:7, watcher.go:83-91.  Whatever fails while one block is       *)
(* handled, the Watcher goes on: while the connection lasts, it gets to    *)
(* the number of every head.                                               *)
(***************************************************************************)
EveryHeadReached ==
  \A b \in Block \ {Genesis} :
    head = b ~> (number = Number[b] \/ cancelled \/ ~subscribed)

\* A header deep enough to judge a is on its way.
DueSoon(a) == \E i \in 1..Len(headers) : headers[i] >= Number[a.block] + Conf

(***************************************************************************)
(* watcher.go:319-362.  An open alert is judged, or replaced, once a       *)
(* header at its depth is on its way, if the connection lasts.             *)
(***************************************************************************)
JudgedOnceDue ==
  \A a \in Alert :
    (a \in Open /\ DueSoon(a)) ~> (a \notin Open \/ cancelled \/ ~subscribed)

-------------------------------------------------------------------------------
(* What the documentation says and the code does not do. *)

\* metrics.go:84.  An alert counted as reorged was invalidated by a reorg.
CorrectionMeansReorg ==
  [][\A a \in Alert : reorged'[a] > reorged[a] => a.block \notin ChainOf[head]]_vars

\* README.md:7.  New blocks are followed in real time, as long as the service runs.
NewBlocksFollowed ==
  \A b \in Block \ {Genesis} : head = b ~> (number = Number[b] \/ cancelled)

\* metrics.go:94.  The gauge counts the alerts that still wait for a verdict.
PendingCountsUnjudged ==
  Conf > 0 /\ pc = "select" =>
    pendingGauge = Cardinality({a \in Alert : confirmed[a] + reorged[a] < detected[a]})
=============================================================================
