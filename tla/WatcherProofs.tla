---------------------------- MODULE WatcherProofs ----------------------------
(***************************************************************************)
(* Proofs about the Watcher, for every chain, every set of transactions    *)
(* and notifiers, and every number of confirmations.                       *)
(***************************************************************************)
EXTENDS Watcher, SequenceTheorems, FiniteSetTheorems, TLAPS

(***************************************************************************)
(* What type correctness rests on: the due alerts are only listed during   *)
(* the re-check, and the sets whose sizes are taken are finite.            *)
(***************************************************************************)
TodoOnlyInCheck == pc \notin {"reorg", "retract", "done"} => todo = {}

SizesFinite ==
  /\ IsFiniteSet(pending)
  /\ IsFiniteSet(queue)
  /\ IsFiniteSet(logs)

IInv == TypeOK /\ TodoOnlyInCheck /\ SizesFinite

-------------------------------------------------------------------------------
(* The operators of the node. *)

\* The announced numbers of one head change.
LEMMA HeightsType ==
  ASSUME NEW lo \in Nat, NEW hi \in Nat, lo <= hi
  PROVE  /\ Heights(lo, hi) \in Seq(Nat)
         /\ Len(Heights(lo, hi)) = hi + 1 - lo
         /\ \A i \in 1..Len(Heights(lo, hi)) : Heights(lo, hi)[i] <= hi
<1>1. hi + 1 - lo \in Nat
  OBVIOUS
<1>2. \A i \in 1..(hi + 1 - lo) : lo + i - 1 \in Nat /\ lo + i - 1 <= hi
  OBVIOUS
<1>3. Heights(lo, hi) \in [1..(hi + 1 - lo) -> Nat]
  BY <1>2 DEF Heights
<1>4. Heights(lo, hi) \in Seq(Nat) /\ Len(Heights(lo, hi)) = hi + 1 - lo
  BY <1>1, <1>3, LenProperties, IsASeq DEF Heights
<1> QED
  BY <1>2, <1>4 DEF Heights

\* At most one canonical block has a given number.
LEMMA CanonicalAtUnique ==
  ASSUME head \in Block, NEW n \in Nat, NEW b \in CanonicalAt(n)
  PROVE  CanonicalAt(n) = {b}
BY ChainAssumption DEF CanonicalAt

\* Logs of one height are logs, and finitely many.
LEMMA LogsAtFinite ==
  ASSUME head \in Block, NEW n \in Nat
  PROVE  LogsAt(n) \subseteq Log /\ IsFiniteSet(LogsAt(n))
<1>1. CASE CanonicalAt(n) = {}
  <2>1. LogsAt(n) = {}
    BY <1>1 DEF LogsAt
  <2> QED
    BY <2>1, FS_EmptySet
<1>2. CASE CanonicalAt(n) # {}
  <2>1. PICK b \in CanonicalAt(n) : TRUE
    BY <1>2
  <2>2. b \in Block
    BY <2>1, ChainAssumption DEF CanonicalAt
  <2>3. LogsAt(n) = LogsIn[b]
    BY CanonicalAtUnique DEF LogsAt
  <2> QED
    BY <2>2, <2>3, ContentAssumption
<1> QED
  BY <1>1, <1>2

-------------------------------------------------------------------------------
(* The operators of the scan. *)

\* The events of a check are alerts, and finitely many.
LEMMA FoundType ==
  ASSUME TypeOK, SizesFinite, block # NoBlock, MoreTxs,
         NEW found \in Found(TxsOf[block][at], stage)
  PROVE  found \subseteq Alert /\ IsFiniteSet(found)
<1> DEFINE tx == TxsOf[block][at]
<1>1. block \in Block /\ at \in 1..Len(TxsOf[block]) /\ tx \in TxsIn(block) /\ tx \in Tx
  <2>1. block \in Block /\ at \in Nat \ {0}
    BY DEF TypeOK
  <2>2. TxsOf[block] \in Seq(Tx)
    BY <2>1, ContentAssumption
  <2>3. Len(TxsOf[block]) \in Nat /\ at \in 1..Len(TxsOf[block])
    BY <2>1, <2>2 DEF MoreTxs
  <2> QED
    BY <2>1, <2>2, <2>3 DEF TxsIn
<1>2. CASE stage = "native"
  <2>1. found = IF tx \in Whale THEN {AlertOn(tx, Native)} ELSE {}
    BY <1>2 DEF Found
  <2>2. tx \in Whale => AlertOn(tx, Native) \in Alert
    BY <1>1 DEF AlertOn, Alert
  <2> QED
    BY <2>1, <2>2, FS_EmptySet, FS_Singleton
<1>3. CASE stage # "native"
  <2>1. found \in SUBSET {AlertOn(tx, l) : l \in TxLogs(tx, stage)}
    BY <1>3 DEF Found
  <2>2. \A l \in TxLogs(tx, stage) : AlertOn(tx, l) \in Alert
    BY <1>1, WatcherAssumption DEF TypeOK, TxLogs, AlertOn, Alert
  <2>3. IsFiniteSet(TxLogs(tx, stage))
    BY FS_Subset DEF SizesFinite, TxLogs
  <2>4. IsFiniteSet(found)
    <3> DEFINE source == [a \in found |-> a.source]
    <3>1. source \in [found -> TxLogs(tx, stage)]
      BY <2>1 DEF AlertOn
    <3>2. \A a, b \in found : source[a] = source[b] => a = b
      BY <2>1 DEF AlertOn
    <3>3. source \in Injection(found, TxLogs(tx, stage))
      <4> HIDE DEF source
      <4> QED
        BY <3>1, <3>2 DEF Injection, IsInjective
    <3> QED
      BY <2>3, <3>3, FS_Injection
  <2> QED
    BY <2>1, <2>2, <2>4
<1> QED
  BY <1>2, <1>3

\* An entry of w.pending replaces at most one other.
LEMMA ReplacingType ==
  ASSUME NEW alerts \in SUBSET Alert, IsFiniteSet(alerts), NEW a \in Alert
  PROVE  Replacing(alerts, a) \subseteq Alert /\ IsFiniteSet(Replacing(alerts, a))
<1>1. IsFiniteSet({b \in alerts : b.tx # a.tx})
  BY FS_Subset
<1> QED
  BY <1>1, FS_AddElement DEF Replacing

-------------------------------------------------------------------------------
(* Type correctness. *)

LEMMA InitIInv == Init => IInv
<1> SUFFICES ASSUME Init PROVE IInv
  OBVIOUS
<1>1. TypeOK
  <2>1. cancelled \in BOOLEAN /\ NotifierTypeOK
    BY DEF Init, ContextInit, NotifierInit, NotifierTypeOK
  <2>2. head \in Block /\ headers \in Seq(Nat) /\ subscribed \in BOOLEAN /\ moves \in Nat
    BY ChainAssumption, EmptySeq DEF Init, NodeInit
  <2> QED
    BY <2>1, <2>2 DEF Init, TypeOK, Pcs, Kind
<1>2. TodoOnlyInCheck
  BY DEF Init, TodoOnlyInCheck
<1>3. SizesFinite
  BY FS_EmptySet DEF Init, SizesFinite
<1> QED
  BY <1>1, <1>2, <1>3 DEF IInv

(***************************************************************************)
(* What the node does reaches nothing of the Watcher but its subscription. *)
(***************************************************************************)
LEMMA ChainIInv ==
  ASSUME IInv, (\E b \in Block : NewHead(b)) \/ LoseConnection \/ Unsubscribe,
         UNCHANGED <<cancelled, notifierVars, watcherVars>>
  PROVE  IInv'
<1> USE DEF IInv
<1>1. head' \in Block /\ headers' \in Seq(Nat) /\ subscribed' \in BOOLEAN /\ moves' \in Nat
  <2>1. ASSUME NEW b \in Block, NewHead(b)
        PROVE  headers' \in Seq(Nat) /\ subscribed' \in BOOLEAN
    <3>1. CASE ~subscribed
      BY <2>1, <3>1 DEF NewHead, TypeOK
    <3>2. CASE subscribed
      <4>1. PICK c \in {b} \cup (ChainOf[b] \ ChainOf[head]) :
              headers' = headers \o Heights(Number[c], Number[b])
        BY <2>1, <3>2 DEF NewHead
      <4>2. Number[c] \in Nat /\ Number[b] \in Nat /\ Number[c] <= Number[b]
        BY ChainAssumption
      <4> QED
        BY <2>1, <4>1, <4>2, HeightsType, ConcatProperties DEF NewHead, TypeOK
    <3> QED
      BY <3>1, <3>2
  <2>2. ASSUME NEW b \in Block, NewHead(b) PROVE head' \in Block /\ moves' \in Nat
    BY <2>2 DEF NewHead, TypeOK
  <2>3. CASE LoseConnection \/ Unsubscribe
    BY <2>3, EmptySeq DEF LoseConnection, Unsubscribe, TypeOK
  <2> QED
    BY <2>1, <2>2, <2>3
<1>2. TypeOK'
  BY <1>1 DEF TypeOK, NotifierTypeOK, notifierVars, watcherVars, scanVars, verdictVars,
              alertVars
<1>3. TodoOnlyInCheck' /\ SizesFinite'
  BY DEF TodoOnlyInCheck, SizesFinite, watcherVars, scanVars
<1> QED
  BY <1>2, <1>3

LEMMA NextIInv == IInv /\ [Next]_vars => IInv'
<1> SUFFICES ASSUME IInv, [Next]_vars PROVE IInv'
  OBVIOUS
<1> USE DEF IInv
<1>1. CASE TakeHeader
  <2>1. Head(headers) \in Nat /\ Tail(headers) \in Seq(Nat)
    BY <1>1, HeadTailProperties DEF TypeOK, TakeHeader
  <2>2. Due(Head(headers)) \subseteq pending
    BY DEF Due
  <2>3. TypeOK'
    BY <1>1, <2>1, <2>2
    DEF TakeHeader, Goto, TypeOK, NotifierTypeOK, Pcs, notifierVars, scanVars,
        verdictVars, alertVars
  <2>4. TodoOnlyInCheck' /\ SizesFinite'
    BY <1>1 DEF TakeHeader, Goto, TodoOnlyInCheck, SizesFinite, scanVars
  <2> QED
    BY <2>3, <2>4
<1>2. ASSUME NEW a \in todo, Confirm(a) PROVE IInv'
  <2>1. TypeOK'
    BY <1>2 DEF Confirm, Goto, TypeOK, NotifierTypeOK, Pcs, nodeVars, notifierVars,
                scanVars, alertVars
  <2>2. IsFiniteSet(pending')
    BY <1>2, FS_Subset DEF Confirm, SizesFinite
  <2>3. TodoOnlyInCheck' /\ SizesFinite'
    BY <1>2, <2>2 DEF Confirm, Goto, TodoOnlyInCheck, SizesFinite, scanVars
  <2> QED
    BY <2>1, <2>3
<1>3. ASSUME NEW a \in todo, Retract(a) PROVE IInv'
  <2>1. a \in Alert /\ a # NoAlert
    BY WatcherAssumption DEF TypeOK
  <2>2. TypeOK'
    BY <1>3, <2>1 DEF Retract, StartFanOut, Goto, TypeOK, NotifierTypeOK, Pcs, nodeVars,
                      notifierVars, scanVars, alertVars
  <2>3. TodoOnlyInCheck' /\ SizesFinite'
    BY <1>3 DEF Retract, Goto, TodoOnlyInCheck, SizesFinite, scanVars
  <2> QED
    BY <2>2, <2>3
<1>4. CASE FinishRetract
  <2>1. TypeOK'
    BY <1>4 DEF FinishRetract, Goto, TypeOK, NotifierTypeOK, Pcs, nodeVars, notifierVars,
                scanVars, verdictVars, alertVars
  <2>2. IsFiniteSet(pending')
    BY <1>4, FS_Subset DEF FinishRetract, SizesFinite
  <2>3. TodoOnlyInCheck' /\ SizesFinite'
    BY <1>4, <2>2 DEF FinishRetract, Goto, TodoOnlyInCheck, SizesFinite, scanVars
  <2> QED
    BY <2>1, <2>3
<1>5. CASE FinishCheck
  <2>1. Cardinality(pending) \in Nat
    BY FS_CardinalityType DEF SizesFinite
  <2>2. TypeOK'
    BY <1>5, <2>1 DEF FinishCheck, Goto, TypeOK, NotifierTypeOK, Pcs, nodeVars,
                      notifierVars, scanVars, verdictVars, alertVars
  <2>3. TodoOnlyInCheck' /\ SizesFinite'
    BY <1>5 DEF FinishCheck, Goto, TodoOnlyInCheck, SizesFinite, scanVars
  <2> QED
    BY <2>2, <2>3
<1>6. CASE FetchBlock
  <2>1. block' \in Block
    BY <1>6, ChainAssumption DEF FetchBlock, CanonicalAt, TypeOK
  <2>2. TypeOK'
    BY <1>6, <2>1, WatcherAssumption
    DEF FetchBlock, Goto, TypeOK, NotifierTypeOK, Pcs, nodeVars, notifierVars,
        verdictVars, alertVars
  <2>3. TodoOnlyInCheck' /\ SizesFinite'
    BY <1>6 DEF FetchBlock, Goto, TodoOnlyInCheck, SizesFinite
  <2> QED
    BY <2>2, <2>3
<1>7. CASE FetchLogs
  <2>1. logs' \subseteq Log /\ IsFiniteSet(logs')
    <3>1. LogsAt(number) \subseteq Log /\ IsFiniteSet(LogsAt(number))
      BY LogsAtFinite DEF TypeOK
    <3> QED
      BY <1>7, <3>1, FS_Subset DEF FetchLogs
  <2>2. TypeOK'
    BY <1>7, <2>1 DEF FetchLogs, Goto, TypeOK, NotifierTypeOK, Pcs, nodeVars,
                      notifierVars, verdictVars, alertVars
  <2>3. TodoOnlyInCheck' /\ SizesFinite'
    BY <1>7, <2>1 DEF FetchLogs, Goto, TodoOnlyInCheck, SizesFinite
  <2> QED
    BY <2>2, <2>3
<1>8. CASE AbandonBlock
  <2>1. TypeOK'
    BY <1>8 DEF AbandonBlock, Goto, TypeOK, NotifierTypeOK, Pcs, nodeVars, notifierVars,
                verdictVars, alertVars
  <2>2. TodoOnlyInCheck' /\ SizesFinite'
    BY <1>8 DEF AbandonBlock, Goto, TodoOnlyInCheck, SizesFinite
  <2> QED
    BY <2>1, <2>2
<1>9. CASE Check
  <2>1. queue' \subseteq Alert /\ IsFiniteSet(queue')
    BY <1>9, FoundType DEF Check, Goto, TypeOK
  <2>2. Cardinality(queue') \in Nat
    BY <2>1, FS_CardinalityType
  <2>3. TypeOK'
    BY <1>9, <2>1, <2>2
    DEF Check, Goto, TypeOK, NotifierTypeOK, Pcs, Kind, NextStage, nodeVars,
        notifierVars, verdictVars
  <2>4. TodoOnlyInCheck' /\ SizesFinite'
    BY <1>9, <2>1 DEF Check, Goto, TodoOnlyInCheck, SizesFinite
  <2> QED
    BY <2>3, <2>4
<1>10. ASSUME NEW a \in queue, Announce(a) PROVE IInv'
  <2>1. a \in Alert /\ a # NoAlert
    BY WatcherAssumption DEF TypeOK
  <2>2. TypeOK'
    BY <1>10, <2>1 DEF Announce, StartFanOut, Goto, TypeOK, NotifierTypeOK, Pcs, nodeVars,
                       verdictVars
  <2>3. IsFiniteSet(queue')
    BY <1>10, FS_Subset DEF Announce, SizesFinite
  <2>4. TodoOnlyInCheck' /\ SizesFinite'
    BY <1>10, <2>3 DEF Announce, Goto, TodoOnlyInCheck, SizesFinite
  <2> QED
    BY <2>2, <2>4
<1>11. CASE Track
  <2>1. todo = {} /\ current \in Alert
    BY <1>11 DEF Track, Goto, TypeOK, TodoOnlyInCheck
  <2>2. pending' \subseteq Alert /\ IsFiniteSet(pending')
    <3>1. /\ Replacing(pending, current) \subseteq Alert
          /\ IsFiniteSet(Replacing(pending, current))
      BY <2>1, ReplacingType DEF TypeOK, SizesFinite
    <3> QED
      BY <1>11, <3>1 DEF Track, TypeOK, SizesFinite
  <2>3. pendingGauge' \in Nat
    BY <1>11, <2>2, FS_CardinalityType DEF Track, TypeOK
  <2>4. TypeOK'
    BY <1>11, <2>1, <2>2, <2>3
    DEF Track, Goto, TypeOK, NotifierTypeOK, Pcs, nodeVars, notifierVars, scanVars,
        verdictVars, alertVars
  <2>5. TodoOnlyInCheck' /\ SizesFinite'
    BY <1>11, <2>1, <2>2 DEF Track, TodoOnlyInCheck, SizesFinite, scanVars
  <2> QED
    BY <2>4, <2>5
<1>12. CASE FinishBlock
  <2>1. block \in Block
    BY <1>12 DEF FinishBlock, Goto, TypeOK
  <2>2. TypeOK'
    BY <1>12, <2>1 DEF FinishBlock, Goto, TypeOK, NotifierTypeOK, Pcs, nodeVars,
                       notifierVars, verdictVars, alertVars
  <2>3. TodoOnlyInCheck' /\ SizesFinite'
    BY <1>12, FS_EmptySet DEF FinishBlock, Goto, TodoOnlyInCheck, SizesFinite
  <2> QED
    BY <2>2, <2>3
<1>13. CASE Stop \/ Exit
  BY <1>13 DEF Stop, Exit, Goto, TypeOK, TodoOnlyInCheck, SizesFinite, NotifierTypeOK, Pcs,
               nodeVars, notifierVars, scanVars, verdictVars, alertVars
<1>14. ASSUME NEW c \in Channel, Post(c) PROVE IInv'
  <2>1. NotifierTypeOK'
    <3>1. NotifierTypeOK /\ c \in Channel /\ Deliver(c)
      BY <1>14 DEF Post, TypeOK
    <3> QED
      BY <3>1 DEF Deliver, NotifierTypeOK
  <2>2. TypeOK'
    BY <1>14, <2>1 DEF Post, TypeOK, nodeVars, watcherVars, scanVars, verdictVars, alertVars
  <2>3. TodoOnlyInCheck' /\ SizesFinite'
    BY <1>14 DEF Post, TodoOnlyInCheck, SizesFinite, watcherVars, scanVars
  <2> QED
    BY <2>2, <2>3
<1>15. CASE ChainStep
  BY <1>15, ChainIInv DEF ChainStep
<1>16. CASE Shutdown
  BY <1>16 DEF Shutdown, Cancel, TypeOK, TodoOnlyInCheck, SizesFinite, NotifierTypeOK,
               nodeVars, notifierVars, watcherVars, scanVars, verdictVars, alertVars
<1>17. CASE UNCHANGED vars
  BY <1>17 DEF vars, TypeOK, TodoOnlyInCheck, SizesFinite, NotifierTypeOK, nodeVars,
               notifierVars, watcherVars, scanVars, verdictVars, alertVars
<1> QED
  BY <1>1, <1>2, <1>3, <1>4, <1>5, <1>6, <1>7, <1>8, <1>9, <1>10, <1>11, <1>12, <1>13,
     <1>14, <1>15, <1>16, <1>17
  DEF Next, WatcherStep

(***************************************************************************)
(* The invariant that the other proofs rest on: types, a re-check that     *)
(* only visits alerts of w.pending and leaves none behind when it is over, *)
(* and finite sets wherever their sizes are counted (watcher.go:324-362).  *)
(***************************************************************************)
THEOREM Invariance == Spec => []IInv
<1>1. Init => IInv
  BY InitIInv
<1>2. IInv /\ [Next]_vars => IInv'
  BY NextIInv
<1> QED
  BY <1>1, <1>2, PTL DEF Spec

(***************************************************************************)
(* Every variable keeps its type, for all constants.                       *)
(***************************************************************************)
THEOREM TypeCorrect == Spec => []TypeOK
<1>1. IInv => TypeOK
  BY DEF IInv
<1> QED
  BY <1>1, Invariance, PTL

-------------------------------------------------------------------------------
(* The re-check.                                                           *)

(***************************************************************************)
(* What the scan of one header works on: the block in hand has the number  *)
(* in hand, and the events of a check are about that block.                *)
(***************************************************************************)
ScanOfNumber ==
  /\ pc \in {"logs", "scan", "alert"} => Number[block] = number
  /\ pc \in {"select", "reorg", "retract", "fetch", "logs"} => queue = {}
  /\ \A a \in queue : a.block = block
  /\ pc = "alert" => current.block = block

(***************************************************************************)
(* NoOverduePending is not inductive: during the loop of the re-check the  *)
(* alerts already visited, or never due, are the ones not in todo.         *)
(***************************************************************************)
OnlyTodoIsDue ==
  Conf > 0 /\ pc # "done" => \A a \in pending \ todo : Number[a.block] + Conf > number

RecheckInv == ScanOfNumber /\ OnlyTodoIsDue

\* The events of a check are about the block in hand.
LEMMA FoundBlock ==
  ASSUME NEW tx, NEW check, NEW found \in Found(tx, check), NEW a \in found
  PROVE  a.block = block
BY DEF Found, AlertOn

LEMMA InitRecheck == Init => RecheckInv
BY DEF Init, RecheckInv, ScanOfNumber, OnlyTodoIsDue

LEMMA NextRecheck == IInv /\ RecheckInv /\ [Next]_vars => RecheckInv'
<1> SUFFICES ASSUME IInv, RecheckInv, [Next]_vars PROVE RecheckInv'
  OBVIOUS
<1> USE DEF RecheckInv
<1> TypeOK /\ TodoOnlyInCheck
  BY DEF IInv
<1>1. CASE TakeHeader
  <2>1. ScanOfNumber'
    BY <1>1 DEF TakeHeader, Goto, ScanOfNumber, scanVars
  <2>2. OnlyTodoIsDue'
    <3>1. Head(headers) \in Nat
      BY <1>1, HeadTailProperties DEF TypeOK, TakeHeader
    <3>2. \A a \in pending : Number[a.block] \in Nat
      BY ChainAssumption DEF TypeOK, Alert
    <3> QED
      BY <1>1, <3>1, <3>2, WatcherAssumption DEF TakeHeader, Goto, OnlyTodoIsDue, Due
  <2> QED
    BY <2>1, <2>2
<1>2. ASSUME NEW a \in todo, Confirm(a) \/ Retract(a) PROVE RecheckInv'
  BY <1>2 DEF Confirm, Retract, Goto, ScanOfNumber, OnlyTodoIsDue, nodeVars, scanVars
<1>3. CASE FinishRetract
  BY <1>3 DEF FinishRetract, Goto, ScanOfNumber, OnlyTodoIsDue, scanVars
<1>4. CASE FinishCheck
  BY <1>4 DEF FinishCheck, Goto, ScanOfNumber, OnlyTodoIsDue, scanVars
<1>5. CASE FetchBlock
  BY <1>5 DEF FetchBlock, Goto, ScanOfNumber, OnlyTodoIsDue, CanonicalAt
<1>6. CASE FetchLogs \/ AbandonBlock
  BY <1>6 DEF FetchLogs, AbandonBlock, Goto, ScanOfNumber, OnlyTodoIsDue
<1>7. CASE Check
  <2>1. \A a \in queue' : a.block = block
    BY <1>7, FoundBlock DEF Check
  <2> QED
    BY <1>7, <2>1 DEF Check, Goto, ScanOfNumber, OnlyTodoIsDue
<1>8. ASSUME NEW a \in queue, Announce(a) PROVE RecheckInv'
  BY <1>8 DEF Announce, Goto, ScanOfNumber, OnlyTodoIsDue
<1>9. CASE Track
  <2>1. ScanOfNumber'
    BY <1>9 DEF Track, Goto, ScanOfNumber, scanVars
  <2>2. OnlyTodoIsDue'
    <3>1. todo = {} /\ todo' = {} /\ number' = number
      BY <1>9 DEF Track, Goto, TodoOnlyInCheck
    <3>2. Conf > 0 => Number[current.block] + Conf > number
      BY <1>9, WatcherAssumption DEF Track, Goto, ScanOfNumber, TypeOK
    <3>3. Conf > 0 => pending' \subseteq pending \cup {current}
      BY <1>9 DEF Track, Replacing
    <3> QED
      BY <1>9, <3>1, <3>2, <3>3 DEF Track, Goto, OnlyTodoIsDue
  <2> QED
    BY <2>1, <2>2
<1>10. CASE FinishBlock \/ Stop \/ Exit
  BY <1>10 DEF FinishBlock, Stop, Exit, Goto, ScanOfNumber, OnlyTodoIsDue, scanVars
<1>11. ASSUME NEW c \in Channel, Post(c) PROVE RecheckInv'
  BY <1>11 DEF Post, ScanOfNumber, OnlyTodoIsDue, watcherVars, scanVars
<1>12. CASE ChainStep \/ Shutdown
  BY <1>12 DEF ChainStep, Shutdown, ScanOfNumber, OnlyTodoIsDue, watcherVars, scanVars
<1>13. CASE UNCHANGED vars
  BY <1>13 DEF vars, ScanOfNumber, OnlyTodoIsDue, watcherVars, scanVars
<1> QED
  BY <1>1, <1>2, <1>3, <1>4, <1>5, <1>6, <1>7, <1>8, <1>9, <1>10, <1>11, <1>12, <1>13
  DEF Next, WatcherStep

(***************************************************************************)
(* No alert misses its re-check (watcher.go:324-358).                      *)
(***************************************************************************)
THEOREM NothingOverdue == Spec => []NoOverduePending
<1>1. Spec => []RecheckInv
  BY InitRecheck, NextRecheck, Invariance, PTL DEF Spec
<1>2. IInv /\ RecheckInv => NoOverduePending
  BY DEF IInv, TodoOnlyInCheck, RecheckInv, OnlyTodoIsDue, NoOverduePending
<1> QED
  BY <1>1, <1>2, Invariance, PTL

-------------------------------------------------------------------------------
(***************************************************************************)
(* The Watcher implements the ledger.  Most steps leave it alone.          *)
(***************************************************************************)

LedgerUnchanged == UNCHANGED <<Open, detected, confirmed, reorged>>

\* Open when no event is on its way.
LEMMA OpenIsPending ==
  pc \notin {"done", "retract", "alert"} => Open = pending
BY DEF Open

LEMMA InitLedger == Init => Ledger!Init
<1> SUFFICES ASSUME Init PROVE Ledger!Init
  OBVIOUS
<1>1. Open = {}
  BY DEF Init, Open
<1> QED
  BY <1>1 DEF Init, Ledger!Init, Ledger!Zero

LEMMA NextLedger == IInv /\ [Next]_vars => [Ledger!Next]_(Ledger!ledgerVars)
<1> SUFFICES ASSUME IInv, [Next]_vars PROVE LedgerUnchanged \/ Ledger!Next
  BY DEF LedgerUnchanged, Ledger!ledgerVars
<1> TypeOK /\ TodoOnlyInCheck
  BY DEF IInv
<1>1. CASE TakeHeader
  <2>1. LedgerUnchanged
    BY <1>1 DEF TakeHeader, Goto, LedgerUnchanged, Open, verdictVars, alertVars
  <2> QED
    BY <2>1
<1>2. ASSUME NEW a \in todo, Confirm(a) PROVE Ledger!Next
  <2>1. a \in Alert /\ a \in Open /\ Open' = Open \ {a}
    BY <1>2 DEF Confirm, Goto, TypeOK, Open
  <2>2. Ledger!Confirm(a)
    BY <1>2, <2>1 DEF Confirm, Ledger!Confirm, Ledger!Count, alertVars
  <2> QED
    BY <2>1, <2>2 DEF Ledger!Next
<1>3. ASSUME NEW a \in todo, Retract(a) PROVE Ledger!Next
  <2>1. a \in Alert /\ a \in Open /\ Open' = Open \ {a}
    BY <1>3 DEF Retract, Goto, TypeOK, Open
  <2>2. Ledger!Retract(a)
    BY <1>3, <2>1 DEF Retract, Ledger!Retract, Ledger!Count, alertVars
  <2> QED
    BY <2>1, <2>2 DEF Ledger!Next
<1>4. CASE FinishRetract
  <2>1. LedgerUnchanged
    BY <1>4 DEF FinishRetract, Goto, LedgerUnchanged, Open, verdictVars, alertVars
  <2> QED
    BY <2>1
<1>5. CASE FinishCheck \/ FetchBlock \/ FetchLogs \/ AbandonBlock \/ Check \/ FinishBlock
  <2>1. LedgerUnchanged
    BY <1>5 DEF FinishCheck, FetchBlock, FetchLogs, AbandonBlock, Check, FinishBlock, Goto,
                LedgerUnchanged, Open, verdictVars, alertVars
  <2> QED
    BY <2>1
<1>6. ASSUME NEW a \in queue, Announce(a) PROVE Ledger!Next
  <2>1. a \in Alert
    BY DEF TypeOK
  <2>2. Open = pending /\ Open' = IF Conf > 0 THEN Ledger!Replacing(Open, a) ELSE Open
    BY <1>6 DEF Announce, Goto, Open, Replacing, Ledger!Replacing, AlertTx
  <2>3. Ledger!Announce(a)
    BY <1>6, <2>2 DEF Announce, Ledger!Announce, Ledger!Count, verdictVars
  <2> QED
    BY <2>1, <2>3 DEF Ledger!Next
<1>7. CASE Track
  <2>1. Open' = Open
    BY <1>7, WatcherAssumption DEF Track, Goto, Open
  <2>2. LedgerUnchanged
    BY <1>7, <2>1 DEF Track, LedgerUnchanged, verdictVars, alertVars
  <2> QED
    BY <2>2
<1>8. CASE Stop \/ Exit
  <2>1. Open' = {}
    BY <1>8 DEF Stop, Exit, Goto, Open
  <2>2. Ledger!Forget
    BY <1>8, <2>1 DEF Stop, Exit, Ledger!Forget, verdictVars, alertVars
  <2> QED
    BY <2>2 DEF Ledger!Next
<1>9. ASSUME NEW c \in Channel, Post(c) PROVE LedgerUnchanged
  BY <1>9 DEF Post, watcherVars, LedgerUnchanged, Open, verdictVars, alertVars
<1>10. CASE ChainStep \/ Shutdown \/ UNCHANGED vars
  BY <1>10 DEF ChainStep, Shutdown, vars, watcherVars, LedgerUnchanged, Open, verdictVars,
               alertVars
<1> QED
  BY <1>1, <1>2, <1>3, <1>4, <1>5, <1>6, <1>7, <1>8, <1>9, <1>10 DEF Next, WatcherStep

(***************************************************************************)
(* Every behaviour of the Watcher is one of the ledger: announcements,     *)
(* verdicts and replacements happen as it says, for any chain, failures    *)
(* and notifiers (watcher.go:95-170, 311-362).                             *)
(***************************************************************************)
THEOREM LedgerImplemented == Spec => ImplementsLedger
BY InitLedger, NextLedger, Invariance, PTL DEF Spec, ImplementsLedger, Ledger!Spec

-------------------------------------------------------------------------------
LedgerCounters ==
  /\ detected \in [Alert -> Nat]
  /\ confirmed \in [Alert -> Nat]
  /\ reorged \in [Alert -> Nat]

\* A step of the ledger keeps the balance of announcements and verdicts.
LEMMA LedgerKeepsBalance ==
  ASSUME LedgerCounters, Ledger!OneVerdictEach, [Ledger!Next]_(Ledger!ledgerVars)
  PROVE  (Ledger!OneVerdictEach)'
<1> USE DEF Ledger!OneVerdictEach, LedgerCounters
<1>1. ASSUME NEW a \in Alert, Ledger!Announce(a) PROVE (Ledger!OneVerdictEach)'
  BY <1>1 DEF Ledger!Announce, Ledger!Count, Ledger!Replacing
<1>2. ASSUME NEW a \in Alert, Ledger!Confirm(a) PROVE (Ledger!OneVerdictEach)'
  BY <1>2 DEF Ledger!Confirm, Ledger!Count
<1>3. ASSUME NEW a \in Alert, Ledger!Retract(a) PROVE (Ledger!OneVerdictEach)'
  BY <1>3 DEF Ledger!Retract, Ledger!Count
<1>4. CASE Ledger!Forget
  BY <1>4 DEF Ledger!Forget
<1>5. CASE UNCHANGED Ledger!ledgerVars
  BY <1>5 DEF Ledger!ledgerVars
<1> QED
  BY <1>1, <1>2, <1>3, <1>4, <1>5 DEF Ledger!Next

(***************************************************************************)
(* Each announcement gets at most one verdict (watcher.go:331-358).        *)
(***************************************************************************)
THEOREM OneVerdictPerAlert == Spec => []VerdictsBacked
<1>1. Init => Ledger!OneVerdictEach
  <2> SUFFICES ASSUME Init PROVE Ledger!OneVerdictEach
    OBVIOUS
  <2>1. Open = {}
    BY DEF Init, Open
  <2> QED
    BY <2>1 DEF Init, Ledger!OneVerdictEach
<1>2. IInv /\ Ledger!OneVerdictEach /\ [Next]_vars => (Ledger!OneVerdictEach)'
  <2>1. IInv => LedgerCounters
    BY DEF IInv, TypeOK, LedgerCounters
  <2> QED
    BY <2>1, NextLedger, LedgerKeepsBalance
<1>3. Spec => []Ledger!OneVerdictEach
  BY <1>1, <1>2, Invariance, PTL DEF Spec
<1> QED
  BY <1>3, PTL DEF VerdictsBacked

-------------------------------------------------------------------------------
(* Confirmation depth. *)

(***************************************************************************)
(* A header in hand or on its way is not above the head, if heads never    *)
(* shrink; what the re-check still has to visit was due at that number.    *)
(***************************************************************************)
HeadersBelowHead ==
  HeadsNeverShrink =>
    /\ number <= Number[head]
    /\ \A i \in 1..Len(headers) : headers[i] <= Number[head]

TodoIsDue ==
  pc \in {"reorg", "retract"} => \A a \in todo : Number[a.block] + Conf <= number

DepthInv == HeadersBelowHead /\ TodoIsDue

\* A head change keeps every announced number at or below the head.
LEMMA NewHeadAbove ==
  ASSUME TypeOK, HeadersBelowHead, HeadsNeverShrink, NEW b \in Block, NewHead(b)
  PROVE  /\ Number[head] <= Number[head']
         /\ \A i \in 1..Len(headers') : headers'[i] <= Number[head']
<1>1. head' = b /\ Number[head] \in Nat /\ Number[b] \in Nat /\ Number[head] <= Number[b]
  BY ChainAssumption DEF NewHead, TypeOK
<1>2. \A i \in 1..Len(headers) : headers[i] \in Nat /\ headers[i] <= Number[b]
  <2>1. \A i \in 1..Len(headers) : headers[i] \in Nat
    BY ElementOfSeq DEF TypeOK
  <2> QED
    BY <1>1, <2>1 DEF HeadersBelowHead
<1>3. CASE ~subscribed
  BY <1>1, <1>2, <1>3 DEF NewHead
<1>4. CASE subscribed
  <2>1. PICK c \in {b} \cup (ChainOf[b] \ ChainOf[head]) :
          headers' = headers \o Heights(Number[c], Number[b])
    BY <1>4 DEF NewHead
  <2>2. Number[c] \in Nat /\ Number[c] <= Number[b]
    BY ChainAssumption
  <2> DEFINE new == Heights(Number[c], Number[b])
  <2>3. /\ new \in Seq(Nat)
        /\ \A i \in 1..Len(new) : new[i] <= Number[b]
    BY <1>1, <2>2, HeightsType
  <2>4. headers \in Seq(Nat) /\ Len(headers) \in Nat /\ Len(new) \in Nat
    BY <2>3, LenProperties DEF TypeOK
  <2> HIDE DEF new
  <2>5. /\ Len(headers \o new) = Len(headers) + Len(new)
        /\ \A i \in 1..(Len(headers) + Len(new)) :
             (headers \o new)[i] = IF i <= Len(headers) THEN headers[i]
                                                       ELSE new[i - Len(headers)]
    BY <2>3, <2>4, ConcatProperties
  <2>6. \A i \in 1..(Len(headers) + Len(new)) : (headers \o new)[i] <= Number[b]
    BY <1>2, <2>3, <2>4, <2>5
  <2>7. headers' = headers \o new
    BY <2>1 DEF new
  <2> QED
    BY <1>1, <2>5, <2>6, <2>7
<1> QED
  BY <1>3, <1>4

LEMMA InitDepth == Init => DepthInv
<1> SUFFICES ASSUME Init PROVE DepthInv
  OBVIOUS
<1>1. number = 0 /\ headers = <<>> /\ Number[head] \in Nat
  BY ChainAssumption DEF Init, NodeInit
<1> QED
  BY <1>1, EmptySeq DEF Init, DepthInv, HeadersBelowHead, TodoIsDue

LEMMA NextDepth == IInv /\ DepthInv /\ [Next]_vars => DepthInv'
<1> SUFFICES ASSUME IInv, DepthInv, [Next]_vars PROVE DepthInv'
  OBVIOUS
<1> USE DEF DepthInv
<1> TypeOK /\ TodoOnlyInCheck
  BY DEF IInv
<1>1. CASE TakeHeader
  <2>1. /\ Head(headers) = headers[1]
        /\ 1 \in 1..Len(headers)
        /\ Tail(headers) \in Seq(Nat)
        /\ Len(Tail(headers)) = Len(headers) - 1
        /\ \A i \in 1..Len(Tail(headers)) : Tail(headers)[i] = headers[i + 1]
    BY <1>1, HeadTailProperties, EmptySeq, LenProperties DEF TypeOK, TakeHeader
  <2>2. HeadersBelowHead'
    BY <1>1, <2>1 DEF TakeHeader, HeadersBelowHead
  <2>3. TodoIsDue'
    BY <1>1 DEF TakeHeader, Goto, TodoIsDue, Due
  <2> QED
    BY <2>2, <2>3
<1>2. ASSUME NEW a \in todo, Confirm(a) \/ Retract(a) PROVE DepthInv'
  BY <1>2 DEF Confirm, Retract, Goto, HeadersBelowHead, TodoIsDue, nodeVars
<1>3. CASE FinishRetract \/ FinishCheck \/ FetchBlock \/ FetchLogs \/ AbandonBlock \/ Check
  BY <1>3 DEF FinishRetract, FinishCheck, FetchBlock, FetchLogs, AbandonBlock, Check, Goto,
              HeadersBelowHead, TodoIsDue, nodeVars
<1>4. ASSUME NEW a \in queue, Announce(a) PROVE DepthInv'
  BY <1>4 DEF Announce, Goto, HeadersBelowHead, TodoIsDue, nodeVars
<1>5. CASE Track \/ FinishBlock \/ Stop \/ Exit
  BY <1>5 DEF Track, FinishBlock, Stop, Exit, Goto, HeadersBelowHead, TodoIsDue, nodeVars
<1>6. ASSUME NEW c \in Channel, Post(c) PROVE DepthInv'
  BY <1>6 DEF Post, HeadersBelowHead, TodoIsDue, nodeVars, watcherVars
<1>7. CASE ChainStep
  <2>1. TodoIsDue' /\ number' = number
    BY <1>7 DEF ChainStep, TodoIsDue, watcherVars
  <2>2. ASSUME NEW b \in Block, NewHead(b) PROVE HeadersBelowHead'
    <3>1. number \in Nat /\ Number[head] \in Nat /\ Number[head'] \in Nat
      BY <2>2, ChainAssumption DEF TypeOK, NewHead
    <3> QED
      BY <2>1, <2>2, <3>1, NewHeadAbove DEF HeadersBelowHead
  <2>3. CASE LoseConnection \/ Unsubscribe
    <3>1. headers' = <<>> /\ head' = head
      BY <2>3 DEF LoseConnection, Unsubscribe
    <3> QED
      BY <2>1, <3>1, EmptySeq DEF HeadersBelowHead
  <2> QED
    BY <1>7, <2>1, <2>2, <2>3 DEF ChainStep
<1>8. CASE Shutdown \/ UNCHANGED vars
  BY <1>8 DEF Shutdown, vars, HeadersBelowHead, TodoIsDue, nodeVars, watcherVars
<1> QED
  BY <1>1, <1>2, <1>3, <1>4, <1>5, <1>6, <1>7, <1>8 DEF Next, WatcherStep

\* Only Confirm adds to the confirmations, and only of the alert it visits.
LEMMA ConfirmedOnlyByConfirm ==
  ASSUME IInv, [Next]_vars, NEW a \in Alert, confirmed'[a] > confirmed[a]
  PROVE  a \in todo /\ Confirm(a)
<1>1. confirmed \in [Alert -> Nat] /\ todo \subseteq Alert
  BY DEF IInv, TypeOK
<1>2. confirmed' # confirmed
  BY <1>1
<1>3. PICK b \in todo : Confirm(b)
  BY <1>2
  DEF Next, WatcherStep, TakeHeader, Retract, FinishRetract, FinishCheck, FetchBlock,
      FetchLogs, AbandonBlock, Check, Announce, Track, FinishBlock, Stop, Exit, Post,
      ChainStep, Shutdown, vars, watcherVars, verdictVars
<1>4. a = b
  BY <1>1, <1>3 DEF Confirm
<1> QED
  BY <1>3, <1>4

(***************************************************************************)
(* A confirmed alert is canonical at the moment of its confirmation, and   *)
(* Conf blocks below the head, if heads never shrink (watcher.go:324-356,  *)
(* metrics.go:89).                                                         *)
(***************************************************************************)
THEOREM ConfirmationIsDeep == Spec => ConfirmedAtDepth
<1> DEFINE Deep == \A a \in Alert : confirmed'[a] > confirmed[a] =>
                     /\ a.block \in ChainOf[head]
                     /\ HeadsNeverShrink => Number[a.block] + Conf <= Number[head]
<1>1. IInv /\ DepthInv /\ [Next]_vars => Deep
  <2> SUFFICES ASSUME IInv, DepthInv, [Next]_vars, NEW a \in Alert,
                      confirmed'[a] > confirmed[a]
               PROVE  /\ a.block \in ChainOf[head]
                      /\ HeadsNeverShrink => Number[a.block] + Conf <= Number[head]
    OBVIOUS
  <2>1. a \in todo /\ Confirm(a)
    BY ConfirmedOnlyByConfirm
  <2>2. a.block \in ChainOf[head]
    BY <2>1, WatcherAssumption DEF Confirm, Receipts, MinedIn, Alert
  <2>3. Number[a.block] + Conf <= number
    BY <2>1 DEF Confirm, Goto, DepthInv, TodoIsDue
  <2>4. HeadsNeverShrink => Number[a.block] + Conf <= Number[head]
    <3>1. /\ Number[a.block] \in Nat /\ Conf \in Nat
          /\ number \in Nat /\ Number[head] \in Nat
      BY ChainAssumption, WatcherAssumption DEF IInv, TypeOK, Alert
    <3> QED
      BY <2>3, <3>1 DEF DepthInv, HeadersBelowHead
  <2> QED
    BY <2>2, <2>4
<1>2. Spec => []DepthInv
  BY InitDepth, NextDepth, Invariance, PTL DEF Spec
<1>3. IInv /\ DepthInv /\ [Next]_vars => [Deep]_vars
  BY <1>1
<1>4. Spec => [][Deep]_vars
  BY <1>2, <1>3, Invariance, PTL DEF Spec
<1> QED
  BY <1>4 DEF ConfirmedAtDepth

-------------------------------------------------------------------------------
(* The gauge and the counters. *)

LEMMA NextGauge == IInv /\ PendingGaugeExact /\ [Next]_vars => PendingGaugeExact'
<1> SUFFICES ASSUME IInv, PendingGaugeExact, [Next]_vars PROVE PendingGaugeExact'
  OBVIOUS
<1> USE DEF PendingGaugeExact
<1> TypeOK
  BY DEF IInv
<1>1. CASE TakeHeader
  BY <1>1 DEF TakeHeader, Goto
<1>2. ASSUME NEW a \in todo, Confirm(a) \/ Retract(a) PROVE PendingGaugeExact'
  BY <1>2 DEF Confirm, Retract, Goto
<1>3. CASE FinishRetract \/ FinishCheck
  BY <1>3 DEF FinishRetract, FinishCheck, Goto
<1>4. CASE FetchBlock \/ FetchLogs \/ AbandonBlock \/ Check \/ FinishBlock \/ Stop \/ Exit
  BY <1>4 DEF FetchBlock, FetchLogs, AbandonBlock, Check, FinishBlock, Stop, Exit, Goto, Pcs
<1>5. ASSUME NEW a \in queue, Announce(a) PROVE PendingGaugeExact'
  BY <1>5 DEF Announce, Goto
<1>6. CASE Track
  BY <1>6 DEF Track, Goto
<1>7. ASSUME NEW c \in Channel, Post(c) PROVE PendingGaugeExact'
  BY <1>7 DEF Post, watcherVars
<1>8. CASE ChainStep \/ Shutdown \/ UNCHANGED vars
  BY <1>8 DEF ChainStep, Shutdown, vars, watcherVars
<1> QED
  BY <1>1, <1>2, <1>3, <1>4, <1>5, <1>6, <1>7, <1>8 DEF Next, WatcherStep

(***************************************************************************)
(* Outside the re-check the gauge pending_alerts is the number of entries  *)
(* of w.pending (watcher.go:316,361).                                      *)
(***************************************************************************)
THEOREM GaugeIsExact == Spec => []PendingGaugeExact
<1>1. Init => PendingGaugeExact
  BY FS_EmptySet DEF Init, PendingGaugeExact
<1> QED
  BY <1>1, NextGauge, Invariance, PTL DEF Spec

\* A fan-out is only under way where the Watcher waits for it.
NoStrayFanOut == pc \notin {"retract", "alert", "done"} => waiting = {}

LEMMA NextReconcile ==
  IInv /\ RecheckInv /\ NoStrayFanOut /\ MetricsReconcile /\ [Next]_vars
    => NoStrayFanOut' /\ MetricsReconcile'
<1> SUFFICES ASSUME IInv, RecheckInv, NoStrayFanOut, MetricsReconcile, [Next]_vars
             PROVE  NoStrayFanOut' /\ MetricsReconcile'
  OBVIOUS
<1> USE DEF NoStrayFanOut, MetricsReconcile
<1>0. /\ TypeOK /\ SizesFinite /\ ScanOfNumber
      /\ sent \in [Channel -> Nat] /\ errors \in [Channel -> Nat]
      /\ whaleTotal \in Nat /\ reorgedTotal \in Nat /\ Cardinality(queue) \in Nat
  BY FS_CardinalityType DEF IInv, RecheckInv, SizesFinite, TypeOK, NotifierTypeOK
<1>1. CASE TakeHeader \/ FinishRetract \/ FinishCheck \/ FetchBlock \/ FetchLogs
             \/ AbandonBlock \/ Track \/ FinishBlock \/ Stop \/ Exit
  BY <1>1 DEF TakeHeader, FinishRetract, FinishCheck, FetchBlock, FetchLogs, AbandonBlock,
              Track, FinishBlock, Stop, Exit, FanOutDone, Goto, notifierVars, scanVars,
              verdictVars, alertVars
<1>2. ASSUME NEW a \in todo, Confirm(a) PROVE NoStrayFanOut' /\ MetricsReconcile'
  BY <1>2 DEF Confirm, Goto, notifierVars, scanVars, alertVars
<1>3. ASSUME NEW a \in todo, Retract(a) PROVE NoStrayFanOut' /\ MetricsReconcile'
  <2>1. waiting = {} /\ waiting' = Channel /\ reorgedTotal' = reorgedTotal + 1
    BY <1>3 DEF Retract, StartFanOut, Goto
  <2>2. UNCHANGED <<sent, errors, queue, whaleTotal>> /\ pc' = "retract"
    BY <1>3 DEF Retract, StartFanOut, Goto, scanVars, alertVars
  <2> QED
    BY <1>0, <2>1, <2>2
<1>4. CASE Check
  <2>1. queue = {} /\ Cardinality(queue) = 0
    BY <1>4, FS_EmptySet DEF Check
  <2>2. IsFiniteSet(queue')
    BY <1>0, <1>4, FoundType DEF Check, Goto, TypeOK
  <2>3. Cardinality(queue') \in Nat /\ whaleTotal' = whaleTotal + Cardinality(queue')
    BY <1>4, <2>2, FS_CardinalityType DEF Check
  <2>4. UNCHANGED <<waiting, sent, errors, reorgedTotal>> /\ pc = "scan" /\ pc' = "scan"
    BY <1>4 DEF Check, Goto, notifierVars, verdictVars
  <2> QED
    BY <1>0, <2>1, <2>3, <2>4
<1>5. ASSUME NEW a \in queue, Announce(a) PROVE NoStrayFanOut' /\ MetricsReconcile'
  <2>1. Cardinality(queue') = Cardinality(queue) - 1 /\ Cardinality(queue') \in Nat
    <3>1. IsFiniteSet(queue') /\ Cardinality(queue') = Cardinality(queue) - 1
      BY <1>0, <1>5, FS_RemoveElement DEF Announce, SizesFinite
    <3> QED
      BY <3>1, FS_CardinalityType
  <2>2. waiting = {} /\ waiting' = Channel /\ pc' = "alert"
    BY <1>5 DEF Announce, StartFanOut, Goto
  <2>3. UNCHANGED <<sent, errors, whaleTotal, reorgedTotal>>
    BY <1>5 DEF Announce, StartFanOut, verdictVars
  <2> QED
    BY <1>0, <2>1, <2>2, <2>3
<1>6. ASSUME NEW c \in Channel, Post(c) PROVE NoStrayFanOut' /\ MetricsReconcile'
  <2>1. UNCHANGED <<pc, queue, whaleTotal, reorgedTotal>>
    BY <1>6 DEF Post, watcherVars, scanVars, verdictVars, alertVars
  <2>2. c \in waiting /\ waiting' = waiting \ {c}
    BY <1>6 DEF Post, Deliver
  <2>3. \/ sent' = [sent EXCEPT ![c] = @ + 1] /\ errors' = errors
        \/ errors' = [errors EXCEPT ![c] = @ + 1] /\ sent' = sent
    BY <1>6 DEF Post, Deliver
  <2> QED
    BY <1>0, <2>1, <2>2, <2>3
<1>7. CASE ChainStep \/ Shutdown \/ UNCHANGED vars
  BY <1>7 DEF ChainStep, Shutdown, vars, notifierVars, watcherVars, scanVars, verdictVars,
              alertVars
<1> QED
  BY <1>1, <1>2, <1>3, <1>4, <1>5, <1>6, <1>7 DEF Next, WatcherStep

(***************************************************************************)
(* On every channel, what was sent or failed accounts for every event that *)
(* was counted, less those queued or on their way (notifier.go:53,         *)
(* watcher.go:119,236,279,345).                                            *)
(***************************************************************************)
THEOREM CountersReconcile == Spec => []MetricsReconcile
<1>1. Init => NoStrayFanOut /\ MetricsReconcile
  BY FS_EmptySet DEF Init, NotifierInit, NoStrayFanOut, MetricsReconcile
<1>2. Spec => []RecheckInv
  BY InitRecheck, NextRecheck, Invariance, PTL DEF Spec
<1> QED
  BY <1>1, <1>2, NextReconcile, Invariance, PTL DEF Spec

-------------------------------------------------------------------------------
(* The loop over the transactions of a block. *)

(***************************************************************************)
(* Before a scan the loop stands at its start, and a native alert that is  *)
(* queued has been found by the check the loop has just passed.            *)
(***************************************************************************)
ScanInv ==
  /\ pc \in {"select", "reorg", "retract", "fetch"} => block = NoBlock
  /\ pc \in {"select", "reorg", "retract", "fetch", "logs"} => at = 1 /\ stage = "native"
  /\ \A a \in queue : a.source = Native => Passed(a)

LEMMA NextScan ==
  IInv /\ RecheckInv /\ ScanInv /\ WhalesAlertedOncePerPass /\ [Next]_vars
    => ScanInv' /\ WhalesAlertedOncePerPass'
<1> SUFFICES ASSUME IInv, RecheckInv, ScanInv, WhalesAlertedOncePerPass, [Next]_vars
             PROVE  ScanInv' /\ WhalesAlertedOncePerPass'
  OBVIOUS
<1>0. TypeOK /\ ScanOfNumber
  BY DEF IInv, RecheckInv
<1>1. CASE TakeHeader \/ FinishRetract \/ FinishCheck \/ Track \/ Stop \/ Exit
  <2>1. UNCHANGED <<block, at, stage, queue, detected, processed>>
    BY <1>1 DEF TakeHeader, FinishRetract, FinishCheck, Track, Stop, Exit, scanVars, alertVars
  <2>2. pc' \in {"select", "reorg", "retract", "fetch", "logs"} =>
          pc \in {"select", "reorg", "retract", "fetch"} /\ pc' # "logs"
    BY <1>1 DEF TakeHeader, FinishRetract, FinishCheck, Track, Stop, Exit, Goto
  <2> QED
    BY <2>1, <2>2 DEF ScanInv, WhalesAlertedOncePerPass, Passed
<1>2. ASSUME NEW a \in todo, Confirm(a) \/ Retract(a)
      PROVE  ScanInv' /\ WhalesAlertedOncePerPass'
  <2>1. UNCHANGED <<block, at, stage, queue, detected, processed>>
    BY <1>2 DEF Confirm, Retract, scanVars, alertVars
  <2>2. pc = "reorg" /\ pc' \in {"reorg", "retract"}
    BY <1>2 DEF Confirm, Retract, Goto
  <2> QED
    BY <2>1, <2>2 DEF ScanInv, WhalesAlertedOncePerPass, Passed
<1>3. CASE FetchBlock \/ FetchLogs \/ AbandonBlock
  <2>1. UNCHANGED <<at, stage, queue, detected, processed>>
    BY <1>3 DEF FetchBlock, FetchLogs, AbandonBlock, alertVars
  <2>2. at = 1 /\ stage = "native" /\ queue = {} /\ block' \in Block \cup {NoBlock}
    BY <1>0, <1>3, ChainAssumption
    DEF FetchBlock, FetchLogs, AbandonBlock, Goto, ScanInv, ScanOfNumber, TypeOK, CanonicalAt
  <2>3. \A a \in Alert : ~Passed(a) /\ ~Passed(a)'
    BY <2>1, <2>2 DEF Passed
  <2>4. pc' \in {"select", "logs", "scan"} /\ (pc' = "select" => block' = NoBlock)
    BY <1>3 DEF FetchBlock, FetchLogs, AbandonBlock, Goto
  <2> QED
    BY <2>1, <2>2, <2>3, <2>4 DEF ScanInv, WhalesAlertedOncePerPass
<1>4. CASE Check
  <2> DEFINE tx == TxsOf[block][at]
  <2>1. /\ block \in Block /\ block' = block /\ TxsOf[block] \in Seq(Tx)
        /\ at \in 1..Len(TxsOf[block]) /\ Len(TxsOf[block]) \in Nat
    BY <1>0, <1>4, ContentAssumption, LenProperties DEF Check, Goto, MoreTxs, TypeOK
  <2>2. /\ queue = {} /\ UNCHANGED <<detected, processed>> /\ pc' = "scan"
        /\ queue' \in Found(tx, stage)
        /\ stage' = NextStage[stage] /\ at' = IF stage = "swap" THEN at + 1 ELSE at
    BY <1>4 DEF Check, Goto
  <2>3. \A i, j \in 1..Len(TxsOf[block]) : TxsOf[block][i] = TxsOf[block][j] => i = j
    BY <2>1, ContentAssumption
  <2>4. CASE stage = "native"
    <3>1. queue' = IF tx \in Whale THEN {AlertOn(tx, Native)} ELSE {}
      BY <2>2, <2>4 DEF Found
    <3>2. at' = at /\ stage' = "erc20"
      BY <2>2, <2>4 DEF NextStage
    <3>3. \A a \in Alert : Passed(a)' <=> Passed(a) \/ (block = a.block /\ a.tx = tx)
      BY <2>1, <2>3, <2>4, <3>2 DEF Passed
    <3>4. \A a \in Alert : block = a.block /\ a.tx = tx => ~Passed(a)
      BY <2>1, <2>3, <2>4 DEF Passed
    <3>5. \A a \in Alert : a.source = Native /\ block = a.block /\ a.tx = tx =>
                             a = AlertOn(tx, Native) /\ tx \in Whale
      BY DEF Alert, AlertOn
    <3>6. \A a \in queue' : a \in Alert /\ a.source = Native /\ block = a.block /\ a.tx = tx
      <4>1. queue' \subseteq Alert
        BY <1>0, <1>4, FoundType DEF Check, Goto, TypeOK, IInv
      <4>2. \A a \in queue' : a = AlertOn(tx, Native)
        BY <3>1
      <4> QED
        BY <4>1, <4>2 DEF AlertOn
    <3> QED
      BY <2>2, <3>1, <3>3, <3>4, <3>5, <3>6 DEF ScanInv, WhalesAlertedOncePerPass
  <2>5. CASE stage # "native"
    <3>1. \A a \in queue' : a.source # Native
      BY <1>0, <2>2, <2>5, WatcherAssumption DEF Found, AlertOn, TxLogs, TypeOK
    <3>2. \/ at' = at /\ stage' # "native"
          \/ at' = at + 1 /\ stage' = "native"
      BY <1>0, <2>2, <2>5 DEF NextStage, TypeOK, Kind
    <3>3. \A a \in Alert : Passed(a)' <=> Passed(a)
      BY <2>1, <2>5, <3>2 DEF Passed
    <3> QED
      BY <2>2, <3>1, <3>3 DEF ScanInv, WhalesAlertedOncePerPass
  <2> QED
    BY <2>4, <2>5
<1>5. ASSUME NEW a \in queue, Announce(a) PROVE ScanInv' /\ WhalesAlertedOncePerPass'
  <2>1. UNCHANGED <<block, at, stage, processed>> /\ queue' = queue \ {a} /\ pc' = "alert"
    BY <1>5 DEF Announce, Goto
  <2>2. detected' = [detected EXCEPT ![a] = @ + 1] /\ a \in Alert
    BY <1>0, <1>5 DEF Announce, TypeOK
  <2>3. \A b \in Alert : Passed(b)' <=> Passed(b)
    BY <2>1 DEF Passed
  <2>4. ScanInv'
    BY <1>0, <2>1, <2>3 DEF ScanInv, TypeOK
  <2>5. WhalesAlertedOncePerPass'
    <3> SUFFICES ASSUME NEW b \in Alert, b.source = Native
                 PROVE  detected'[b] = processed'[b.block]
                                 + (IF Passed(b)' /\ b \notin queue' THEN 1 ELSE 0)
      BY DEF WhalesAlertedOncePerPass
    <3>1. detected[b] = processed[b.block] + (IF Passed(b) /\ b \notin queue THEN 1 ELSE 0)
      BY DEF WhalesAlertedOncePerPass
    <3>2. processed[b.block] \in Nat
      BY <1>0 DEF TypeOK, Alert
    <3>3. CASE b = a
      BY <1>0, <2>1, <2>2, <2>3, <3>1, <3>2, <3>3 DEF ScanInv, TypeOK
    <3>4. CASE b # a
      BY <1>0, <2>1, <2>2, <2>3, <3>1, <3>2, <3>4 DEF TypeOK
    <3> QED
      BY <3>3, <3>4
  <2> QED
    BY <2>4, <2>5
<1>6. CASE FinishBlock
  <2>1. /\ pc' = "select" /\ queue = {} /\ queue' = {} /\ block \in Block
        /\ block' = NoBlock /\ at' = 1 /\ stage' = "native" /\ detected' = detected
        /\ processed' = [processed EXCEPT ![block] = @ + 1]
    BY <1>0, <1>6 DEF FinishBlock, Goto, TypeOK, alertVars
  <2>2. ScanInv'
    BY <2>1 DEF ScanInv
  <2>3. \A a \in Alert : ~Passed(a)'
    BY <2>1, WatcherAssumption DEF Passed, Alert
  <2>4. \A a \in Alert : Passed(a) <=> a.block = block
    <3>1. Len(TxsOf[block]) \in Nat /\ at \in Nat /\ ~(at <= Len(TxsOf[block]))
      <4>1. TxsOf[block] \in Seq(Tx)
        BY <2>1, ContentAssumption
      <4> QED
        BY <1>0, <1>6, <4>1, LenProperties DEF FinishBlock, MoreTxs, TypeOK
    <3>2. \A i \in 1..Len(TxsOf[block]) : i < at
      BY <3>1
    <3> QED
      BY <3>2 DEF Passed, Alert, TxsIn
  <2>5. WhalesAlertedOncePerPass'
    <3> SUFFICES ASSUME NEW b \in Alert, b.source = Native
                 PROVE  detected'[b] = processed'[b.block]
                                 + (IF Passed(b)' /\ b \notin queue' THEN 1 ELSE 0)
      BY DEF WhalesAlertedOncePerPass
    <3>1. detected[b] = processed[b.block] + (IF b.block = block THEN 1 ELSE 0)
      BY <2>1, <2>4 DEF WhalesAlertedOncePerPass
    <3>2. processed \in [Block -> Nat] /\ b.block \in Block
      BY <1>0 DEF TypeOK, Alert
    <3> QED
      BY <2>1, <2>3, <3>1, <3>2
  <2> QED
    BY <2>2, <2>5
<1>7. ASSUME NEW c \in Channel, Post(c) PROVE ScanInv' /\ WhalesAlertedOncePerPass'
  BY <1>7 DEF Post, watcherVars, scanVars, alertVars, ScanInv, WhalesAlertedOncePerPass, Passed
<1>8. CASE ChainStep \/ Shutdown \/ UNCHANGED vars
  BY <1>8 DEF ChainStep, Shutdown, vars, watcherVars, scanVars, alertVars, ScanInv,
              WhalesAlertedOncePerPass, Passed
<1> QED
  BY <1>1, <1>2, <1>3, <1>4, <1>5, <1>6, <1>7, <1>8 DEF Next, WatcherStep

(***************************************************************************)
(* Each completed pass over a block announces every native whale in it     *)
(* exactly once, and an abandoned pass none (watcher.go:114-146).          *)
(***************************************************************************)
THEOREM EveryWhaleAnnounced == Spec => []WhalesAlertedOncePerPass
<1>1. Init => ScanInv /\ WhalesAlertedOncePerPass
  <2> SUFFICES ASSUME Init PROVE ScanInv /\ WhalesAlertedOncePerPass
    OBVIOUS
  <2>1. ScanInv
    BY DEF Init, ScanInv
  <2>2. \A a \in Alert : ~Passed(a) /\ a.block \in Block
    BY WatcherAssumption DEF Init, Passed, Alert
  <2> QED
    BY <2>1, <2>2 DEF Init, WhalesAlertedOncePerPass
<1>2. Spec => []RecheckInv
  BY InitRecheck, NextRecheck, Invariance, PTL DEF Spec
<1> QED
  BY <1>1, <1>2, NextScan, Invariance, PTL DEF Spec
=============================================================================
