--------------------------- MODULE SyncBenchProofs ---------------------------
(***************************************************************************)
(* Proofs about the sync benchmark, for every chain, every number of       *)
(* pollers and of retries.                                                 *)
(***************************************************************************)
EXTENDS SyncBench, SequenceTheorems, TLAPS

-------------------------------------------------------------------------------
(* Runs of consecutive heights. *)

\* A run of heights is as long as its bounds say.
LEMMA HeightsType ==
  ASSUME NEW lo \in Nat, NEW hi \in Nat, lo <= hi + 1
  PROVE  /\ Heights(lo, hi) \in Seq(Nat)
         /\ Len(Heights(lo, hi)) = hi + 1 - lo
         /\ \A i \in 1..(hi + 1 - lo) : Heights(lo, hi)[i] = lo + i - 1
<1>1. hi + 1 - lo \in Nat
  OBVIOUS
<1>2. \A i \in 1..(hi + 1 - lo) : lo + i - 1 \in Nat
  OBVIOUS
<1>3. Heights(lo, hi) \in [1..(hi + 1 - lo) -> Nat]
  BY <1>2 DEF Heights
<1>4. Heights(lo, hi) \in Seq(Nat) /\ Len(Heights(lo, hi)) = hi + 1 - lo
  BY <1>1, <1>3, LenProperties, IsASeq DEF Heights
<1> QED
  BY <1>4 DEF Heights

\* The run from above its end is empty.
LEMMA NoHeights ==
  ASSUME NEW n \in Nat
  PROVE  Heights(n + 1, n) = <<>>
<1>1. Heights(n + 1, n) \in Seq(Nat) /\ Len(Heights(n + 1, n)) = 0
  BY HeightsType
<1> QED
  BY <1>1, EmptySeq

\* Two adjacent runs make one.
LEMMA AdjacentHeights ==
  ASSUME NEW lo \in Nat, NEW mid \in Nat, NEW hi \in Nat, lo <= mid + 1, mid < hi
  PROVE  Heights(lo, mid) \o Heights(mid + 1, hi) = Heights(lo, hi)
<1> DEFINE s == Heights(lo, mid)
           t == Heights(mid + 1, hi)
           u == Heights(lo, hi)
<1>1. /\ s \in Seq(Nat)
      /\ Len(s) = mid + 1 - lo
      /\ \A i \in 1..(mid + 1 - lo) : s[i] = lo + i - 1
  BY HeightsType
<1>2. /\ t \in Seq(Nat)
      /\ Len(t) = hi - mid
      /\ \A i \in 1..(hi - mid) : t[i] = mid + i
  <2>1. mid + 1 \in Nat /\ mid + 1 <= hi + 1 /\ hi + 1 - (mid + 1) = hi - mid
    OBVIOUS
  <2>2. /\ t \in Seq(Nat)
        /\ Len(t) = hi + 1 - (mid + 1)
        /\ \A i \in 1..(hi + 1 - (mid + 1)) : t[i] = (mid + 1) + i - 1
    BY <2>1, HeightsType
  <2> HIDE DEF t
  <2>3. \A i \in 1..(hi - mid) : (mid + 1) + i - 1 = mid + i
    OBVIOUS
  <2> QED
    BY <2>1, <2>2, <2>3
<1>3. /\ u \in Seq(Nat)
      /\ Len(u) = hi + 1 - lo
      /\ \A i \in 1..(hi + 1 - lo) : u[i] = lo + i - 1
  <2>1. lo <= hi + 1
    OBVIOUS
  <2> QED
    BY <2>1, HeightsType
<1> HIDE DEF s, t, u
<1>4. /\ s \o t \in Seq(Nat)
      /\ Len(s \o t) = Len(s) + Len(t)
      /\ \A i \in 1..(Len(s) + Len(t)) :
           (s \o t)[i] = IF i <= Len(s) THEN s[i] ELSE t[i - Len(s)]
  BY <1>1, <1>2, ConcatProperties
<1>5. Len(s) + Len(t) = hi + 1 - lo
  BY <1>1, <1>2
<1>6. ASSUME NEW i \in 1..(hi + 1 - lo) PROVE (s \o t)[i] = u[i]
  <2>1. CASE i <= Len(s)
    <3>1. i \in 1..(mid + 1 - lo)
      BY <2>1, <1>1
    <3> QED
      BY <2>1, <3>1, <1>1, <1>3, <1>4, <1>5
  <2>2. CASE ~(i <= Len(s))
    <3>1. i - Len(s) \in 1..(hi - mid) /\ mid + (i - Len(s)) = lo + i - 1
      BY <2>2, <1>1
    <3> QED
      BY <2>2, <3>1, <1>2, <1>3, <1>4, <1>5
  <2> QED
    BY <2>1, <2>2
<1>7. s \o t = u
  BY <1>3, <1>4, <1>5, <1>6, SeqEqual
<1> QED
  BY <1>7 DEF s, t, u

-------------------------------------------------------------------------------
(* Type correctness. *)

LEMMA InitType == Init => TypeOK
<1> SUFFICES ASSUME Init PROVE TypeOK
  OBVIOUS
<1>1. headers \in Seq(Nat) /\ wsEvents \in Seq(Nat) /\ events \in [Poller -> Seq(Nat)]
  BY EmptySeq DEF Init
<1>2. moves \in 0..MaxMoves /\ head \in Block
  BY ChainAssumption, NodeAssumption DEF Init
<1>3. RetryTypeOK(Poller)
  BY RetryAssumption DEF Init, RetryInit, RetryTypeOK
<1> QED
  BY <1>1, <1>2, <1>3 DEF Init, ContextInit, TypeOK

\* What the node announces are heights.
LEMMA NodeType ==
  ASSUME TypeOK, (\E b \in Block : NewHead(b)) \/ LoseConnection
  PROVE  /\ head' \in Block
         /\ headers' \in Seq(Nat)
         /\ subscribed' \in BOOLEAN
         /\ moves' \in 0..MaxMoves
<1> USE DEF TypeOK
<1>1. ASSUME NEW b \in Block, NewHead(b)
      PROVE  /\ head' \in Block
             /\ headers' \in Seq(Nat)
             /\ subscribed' \in BOOLEAN
             /\ moves' \in 0..MaxMoves
  <2>1. head' \in Block /\ subscribed' \in BOOLEAN
    BY <1>1 DEF NewHead
  <2>2. moves' \in 0..MaxMoves
    BY <1>1, NodeAssumption DEF NewHead
  <2>3. headers' \in Seq(Nat)
    <3>1. CASE ~subscribed
      BY <1>1, <3>1 DEF NewHead
    <3>2. CASE subscribed
      <4>1. PICK c \in {b} \cup (ChainOf[b] \ ChainOf[head]) :
              headers' = headers \o Heights(Number[c], Number[b])
        BY <1>1, <3>2 DEF NewHead
      <4>2. Number[c] \in Nat /\ Number[b] \in Nat /\ Number[c] <= Number[b] + 1
        <5>1. Number[c] \in Nat /\ Number[b] \in Nat /\ Number[c] <= Number[b]
          BY ChainAssumption
        <5> QED
          BY <5>1
      <4>3. Heights(Number[c], Number[b]) \in Seq(Nat)
        BY <4>2, HeightsType
      <4> QED
        BY <4>1, <4>3, ConcatProperties
    <3> QED
      BY <3>1, <3>2
  <2> QED
    BY <2>1, <2>2, <2>3
<1>2. CASE LoseConnection
  BY <1>2, EmptySeq DEF LoseConnection
<1> QED
  BY <1>1, <1>2

\* The counters of the retry loops stay in their range.
LEMMA RetryType ==
  ASSUME RetryTypeOK(Poller), NEW p \in Poller, Returned(p) \/ GiveUp(p) \/ TryAgain(p)
  PROVE  RetryTypeOK(Poller)'
<1>1. CASE Returned(p) \/ GiveUp(p)
  BY <1>1, RetryAssumption DEF RetryTypeOK, Returned, GiveUp
<1>2. CASE TryAgain(p)
  <2>1. attempt[p] \in Nat /\ attempt[p] + 1 \in 0..Retries
    BY <1>2, RetryAssumption DEF RetryTypeOK, TryAgain
  <2> QED
    BY <1>2, <2>1 DEF RetryTypeOK, TryAgain
<1> QED
  BY <1>1, <1>2

LEMMA NextType == TypeOK /\ [Next]_vars => TypeOK'
<1> SUFFICES ASSUME TypeOK, [Next]_vars PROVE TypeOK'
  OBVIOUS
<1> USE DEF TypeOK, nodeVars, socketVars, pollVars
<1>1. CASE Subscribe
  BY <1>1 DEF Subscribe, RetryTypeOK
<1>2. CASE HeaderArrives
  <2>1. Head(headers) \in Nat /\ Tail(headers) \in Seq(Nat)
    BY <1>2, HeadTailProperties DEF HeaderArrives
  <2>2. CASE Head(headers) \in seen
    BY <1>2, <2>1, <2>2 DEF HeaderArrives, RetryTypeOK
  <2>3. CASE Head(headers) \notin seen
    <3>1. seen' \subseteq Nat /\ wsEvents' \in Seq(Nat)
      <4>1. seen' = seen \cup {Head(headers)} /\ wsEvents' = Append(wsEvents, Head(headers))
        BY <1>2, <2>3 DEF HeaderArrives, Remember
      <4> QED
        BY <2>1, <4>1, AppendProperties
    <3> QED
      BY <1>2, <2>1, <3>1 DEF HeaderArrives, RetryTypeOK
  <2> QED
    BY <2>2, <2>3
<1>3. CASE SocketEnds
  BY <1>3, EmptySeq DEF SocketEnds, RetryTypeOK
<1>4. ASSUME NEW p \in Poller, Answered(p) PROVE TypeOK'
  <2>1. RetryTypeOK(Poller)'
    BY <1>4, RetryType DEF Answered
  <2>2. Number[head] \in Nat
    BY ChainAssumption
  <2>3. first' \in [Poller -> BOOLEAN] /\ lastSeen' \in [Poller -> Nat]
    BY <1>4, <2>2 DEF Answered
  <2>4. events' \in [Poller -> Seq(Nat)]
    <3>1. CASE events' = events
      BY <3>1
    <3>2. CASE /\ ~NothingNew(p, Number[head])
               /\ events' = [events EXCEPT
                               ![p] = @ \o Heights(lastSeen[p] + 1, Number[head])]
      <4>1. lastSeen[p] + 1 \in Nat /\ lastSeen[p] + 1 <= Number[head] + 1
        BY <2>2, <3>2 DEF NothingNew
      <4>2. Heights(lastSeen[p] + 1, Number[head]) \in Seq(Nat)
        BY <2>2, <4>1, HeightsType
      <4> QED
        BY <3>2, <4>2, ConcatProperties
    <3> QED
      BY <1>4, <3>1, <3>2 DEF Answered
  <2> QED
    BY <1>4, <2>1, <2>3, <2>4 DEF Answered
<1>5. ASSUME NEW p \in Poller, TickFails(p) \/ Again(p) PROVE TypeOK'
  <2>1. RetryTypeOK(Poller)'
    BY <1>5, RetryType DEF TickFails, Again
  <2> QED
    BY <1>5, <2>1 DEF TickFails, Again
<1>6. ASSUME NEW p \in Poller, PollerEnds(p) PROVE TypeOK'
  BY <1>6 DEF PollerEnds, RetryTypeOK
<1>7. CASE Finish
  BY <1>7 DEF Finish, RetryTypeOK
<1>8. CASE NodeStep
  BY <1>8, NodeType DEF NodeStep, RetryTypeOK
<1>9. CASE Deadline
  BY <1>9 DEF Deadline, Cancel, RetryTypeOK
<1>10. CASE UNCHANGED vars
  BY <1>10 DEF vars, RetryTypeOK
<1> QED
  BY <1>1, <1>2, <1>3, <1>4, <1>5, <1>6, <1>7, <1>8, <1>9, <1>10 DEF Next, Poll

(***************************************************************************)
(* Every variable keeps its type (syncbench/methods.go).                   *)
(***************************************************************************)
THEOREM TypeCorrect == Spec => []TypeOK
BY InitType, NextType, PTL DEF Spec

-------------------------------------------------------------------------------
(* What is recorded. *)

(***************************************************************************)
(* What the property rests on: whatever the WebSocket run recorded is      *)
(* remembered as seen, and a poller without an answer recorded nothing.    *)
(***************************************************************************)
RecordedIsSeen == \A i \in 1..Len(wsEvents) : wsEvents[i] \in seen

NothingBeforeFirst == \A p \in Poller : first[p] => events[p] = <<>>

RecordInv == RecordedIsSeen /\ NothingBeforeFirst /\ EachBlockRecordedOnce

\* What one poller has recorded is a run up to the last number it saw.
UpToLast(p) ==
  /\ Len(events[p]) <= lastSeen[p]
  /\ events[p] = Heights((lastSeen[p] + 1) - Len(events[p]), lastSeen[p])

LEMMA InitRecord == Init => RecordInv
<1> SUFFICES ASSUME Init PROVE RecordInv
  OBVIOUS
<1>1. Len(wsEvents) = 0 /\ \A p \in Poller : events[p] = <<>> /\ Len(events[p]) = 0
  BY EmptySeq DEF Init
<1>2. ASSUME NEW p \in Poller PROVE UpToLast(p)
  <2>1. lastSeen[p] = 0 /\ Heights(1, 0) = <<>>
    BY NoHeights DEF Init
  <2> QED
    BY <1>1, <2>1 DEF UpToLast
<1> QED
  BY <1>1, <1>2
  DEF RecordInv, RecordedIsSeen, NothingBeforeFirst, EachBlockRecordedOnce, UpToLast

\* A new header is recorded if its number was not seen before.
LEMMA HeaderRecord == TypeOK /\ RecordInv /\ HeaderArrives => RecordInv'
<1> SUFFICES ASSUME TypeOK, RecordInv, HeaderArrives PROVE RecordInv'
  OBVIOUS
<1> DEFINE n == Head(headers)
<1>1. n \in Nat /\ wsEvents \in Seq(Nat) /\ seen \subseteq Nat
  BY HeadTailProperties DEF HeaderArrives, TypeOK
<1>2. UNCHANGED <<first, lastSeen, events>>
  BY DEF HeaderArrives, pollVars
<1>3. /\ RecordedIsSeen'
      /\ \A i, j \in 1..Len(wsEvents') : wsEvents'[i] = wsEvents'[j] => i = j
  <2>1. CASE n \in seen
    BY <2>1 DEF HeaderArrives, RecordInv, RecordedIsSeen, EachBlockRecordedOnce
  <2>2. CASE n \notin seen
    <3>1. wsEvents' = Append(wsEvents, n) /\ seen' = seen \cup {n}
      BY <2>2 DEF HeaderArrives, Remember
    <3> HIDE DEF n
    <3>2. /\ Len(wsEvents) \in Nat
          /\ Len(wsEvents') = Len(wsEvents) + 1
          /\ \A i \in 1..Len(wsEvents) : wsEvents'[i] = wsEvents[i]
          /\ wsEvents'[Len(wsEvents) + 1] = n
      BY <1>1, <3>1, AppendProperties, LenProperties
    <3>3. \A i \in 1..Len(wsEvents) : wsEvents'[i] \in seen
      BY <3>2 DEF RecordInv, RecordedIsSeen
    <3>4. \A i \in 1..Len(wsEvents') : i \in 1..Len(wsEvents) \/ i = Len(wsEvents) + 1
      BY <3>2
    <3>5. RecordedIsSeen'
      BY <3>1, <3>2, <3>3, <3>4 DEF RecordedIsSeen
    <3>6. ASSUME NEW i \in 1..Len(wsEvents'), NEW j \in 1..Len(wsEvents'),
                 wsEvents'[i] = wsEvents'[j]
          PROVE  i = j
      <4>1. CASE i \in 1..Len(wsEvents) /\ j \in 1..Len(wsEvents)
        BY <3>2, <3>6, <4>1 DEF RecordInv, EachBlockRecordedOnce
      <4>2. CASE i = Len(wsEvents) + 1 /\ j \in 1..Len(wsEvents)
        BY <2>2, <3>2, <3>3, <3>6, <4>2
      <4>3. CASE i \in 1..Len(wsEvents) /\ j = Len(wsEvents) + 1
        BY <2>2, <3>2, <3>3, <3>6, <4>3
      <4> QED
        BY <3>4, <4>1, <4>2, <4>3
    <3> QED
      BY <3>5, <3>6
  <2> QED
    BY <2>1, <2>2
<1> QED
  BY <1>2, <1>3 DEF RecordInv, NothingBeforeFirst, EachBlockRecordedOnce

\* An answer extends the run of a poller up to the height it names.
LEMMA AnswerRecord ==
  ASSUME TypeOK, RecordInv, NEW p \in Poller, Answered(p)
  PROVE  RecordInv'
<1> DEFINE n == Number[head]
<1> USE DEF TypeOK
<1>1. n \in Nat /\ lastSeen[p] \in Nat /\ events[p] \in Seq(Nat) /\ Len(events[p]) \in Nat
  BY ChainAssumption, LenProperties
<1>2. \A q \in Poller : UpToLast(q)
  BY DEF RecordInv, EachBlockRecordedOnce, UpToLast
<1>3. ASSUME NEW q \in Poller, q # p
      PROVE  /\ UNCHANGED <<first[q], lastSeen[q], events[q]>>
             /\ UpToLast(q)' /\ (first[q]' => events[q]' = <<>>)
  <2>1. UNCHANGED <<first[q], lastSeen[q], events[q]>>
    BY <1>3 DEF Answered
  <2> QED
    BY <1>2, <2>1 DEF UpToLast, RecordInv, NothingBeforeFirst
<1>4. UpToLast(p)' /\ (first[p]' => events[p]' = <<>>)
  <2>1. CASE first[p]
    <3>1. events[p] = <<>> /\ Len(events[p]) = 0
      BY <2>1, EmptySeq DEF RecordInv, NothingBeforeFirst
    <3>2. lastSeen'[p] = n /\ events'[p] = events[p]
      BY <2>1 DEF Answered
    <3>3. Heights(n + 1, n) = <<>>
      BY <1>1, NoHeights
    <3> HIDE DEF n
    <3>4. (n + 1) - 0 = n + 1 /\ 0 <= n
      BY <1>1
    <3> QED
      BY <3>1, <3>2, <3>3, <3>4 DEF UpToLast
  <2>2. CASE ~first[p] /\ ~NothingNew(p, n)
    <3> DEFINE k == Len(events[p])
               lo == (lastSeen[p] + 1) - k
               mid == lastSeen[p]
    <3>1. /\ lastSeen'[p] = n /\ first'[p] = first[p]
          /\ events'[p] = events[p] \o Heights(mid + 1, n)
      BY <2>2 DEF Answered
    <3>2. mid < n
      BY <1>1, <2>2 DEF NothingNew
    <3>3. events[p] = Heights(lo, mid) /\ k <= mid
      BY <1>2 DEF UpToLast
    <3> HIDE DEF n
    <3>4. lo \in Nat /\ mid \in Nat /\ lo <= mid + 1
      BY <1>1, <3>3
    <3>5. events'[p] = Heights(lo, n)
      <4> HIDE DEF lo, mid
      <4>1. Heights(lo, mid) \o Heights(mid + 1, n) = Heights(lo, n)
        BY <1>1, <3>2, <3>4, AdjacentHeights
      <4> QED
        BY <3>1, <3>3, <4>1
    <3>6. Len(events'[p]) = n + 1 - lo
      <4>1. lo <= n + 1
        BY <1>1, <3>2, <3>4
      <4> QED
        BY <1>1, <3>4, <3>5, <4>1, HeightsType
    <3>7. n + 1 - lo <= n /\ (n + 1) - (n + 1 - lo) = lo
      BY <1>1, <3>3, <3>4
    <3> QED
      BY <2>2, <3>1, <3>5, <3>6, <3>7 DEF UpToLast
  <2>3. CASE ~first[p] /\ NothingNew(p, n)
    BY <1>2, <2>3 DEF Answered, UpToLast
  <2> QED
    BY <2>1, <2>2, <2>3
<1>5. UNCHANGED <<seen, wsEvents>>
  BY DEF Answered, socketVars
<1> QED
  BY <1>3, <1>4, <1>5
  DEF RecordInv, RecordedIsSeen, NothingBeforeFirst, EachBlockRecordedOnce, UpToLast

LEMMA NextRecord == TypeOK /\ RecordInv /\ [Next]_vars => RecordInv'
<1> SUFFICES ASSUME TypeOK, RecordInv, [Next]_vars PROVE RecordInv'
  OBVIOUS
<1>1. CASE HeaderArrives
  BY <1>1, HeaderRecord
<1>2. ASSUME NEW p \in Poller, Answered(p) PROVE RecordInv'
  BY <1>2, AnswerRecord
<1>3. CASE UNCHANGED <<seen, wsEvents, first, lastSeen, events>>
  BY <1>3 DEF RecordInv, RecordedIsSeen, NothingBeforeFirst, EachBlockRecordedOnce
<1> QED
  BY <1>1, <1>2, <1>3
  DEF Next, Poll, Subscribe, SocketEnds, TickFails, Again, PollerEnds, Finish, NodeStep,
      Deadline, vars, socketVars, pollVars

(***************************************************************************)
(* Whatever the reorgs and the ticks that fail, the WebSocket run records  *)
(* no number twice and a poller an unbroken run (methods.go:47-50,85-96).  *)
(***************************************************************************)
THEOREM RecordedOnce == Spec => []EachBlockRecordedOnce
<1>1. RecordInv => EachBlockRecordedOnce
  BY DEF RecordInv
<1> QED
  BY <1>1, TypeCorrect, InitRecord, NextRecord, PTL DEF Spec

-------------------------------------------------------------------------------
(* The end. *)

\* Once wg.Wait() has returned, nothing runs that could record.
OverForGood == finished => AllEnded

LEMMA NextOver == OverForGood /\ [Next]_vars => OverForGood'
<1> SUFFICES ASSUME OverForGood, [Next]_vars PROVE OverForGood'
  OBVIOUS
<1> USE DEF OverForGood, AllEnded
<1>1. CASE Subscribe \/ HeaderArrives \/ SocketEnds
  BY <1>1 DEF Subscribe, HeaderArrives, SocketEnds, pollVars
<1>2. ASSUME NEW p \in Poller, Poll(p) PROVE OverForGood'
  BY <1>2 DEF Poll, Answered, TickFails, Again, PollerEnds, pollVars, socketVars
<1>3. CASE Finish \/ NodeStep \/ Deadline \/ UNCHANGED vars
  BY <1>3 DEF Finish, NodeStep, Deadline, vars, pollVars, socketVars
<1> QED
  BY <1>1, <1>2, <1>3 DEF Next

(***************************************************************************)
(* Nothing is recorded once the runs are being compared (bench.go:62,      *)
(* report.go:58-110).                                                      *)
(***************************************************************************)
THEOREM ComparisonIsFinal == Spec => ComparedWhenOver
<1> DEFINE Final == finished => UNCHANGED <<wsEvents, events>>
<1>1. OverForGood /\ [Next]_vars => Final
  <2> SUFFICES ASSUME OverForGood, [Next]_vars, finished
               PROVE  UNCHANGED <<wsEvents, events>>
    OBVIOUS
  <2>1. socket = "ended" /\ polling = {}
    BY DEF OverForGood, AllEnded
  <2> QED
    BY <2>1
    DEF Next, Poll, Subscribe, HeaderArrives, SocketEnds, Answered, TickFails, Again,
        PollerEnds, Finish, NodeStep, Deadline, vars, pollVars, socketVars
<1>2. Init => OverForGood
  BY DEF Init, OverForGood
<1>3. OverForGood /\ [Next]_vars => [Final]_vars
  BY <1>1
<1>4. Spec => [][Final]_vars
  BY <1>2, <1>3, NextOver, PTL DEF Spec
<1> QED
  BY <1>4 DEF ComparedWhenOver
=============================================================================
