---------------------------- MODULE RetryCallProofs ----------------------------
(***************************************************************************)
(* Proofs about the retry loop, for any number of callers of either copy   *)
(* and any number of retries.                                              *)
(***************************************************************************)
EXTENDS RetryCall, TLAPS

CallTypeOK ==
  /\ cancelled \in BOOLEAN
  /\ where \in [Caller -> {"idle", "limit", "request", "sleep"}]
  /\ attempt \in [Caller -> Nat]
  /\ pause \in [Caller -> Int]
  /\ panicked \in BOOLEAN
  /\ late \in [Caller -> Nat]

-------------------------------------------------------------------------------
(* The pause. *)

\* The first six powers of two stay below the cap of 30 seconds.
LEMMA PowersBelowCap == ASSUME NEW k \in 0..5 PROVE 2 ^ k \in 1..Cap
<1> USE DEF Cap
<1>0. CASE k = 0 BY <1>0
<1>1. CASE k = 1 BY <1>1
<1>2. CASE k = 2 BY <1>2
<1>3. CASE k = 3 BY <1>3
<1>4. CASE k = 4 BY <1>4
<1>5. CASE k = 5 BY <1>5
<1> QED
  BY <1>0, <1>1, <1>2, <1>3, <1>4, <1>5

\* The product of the pause stays below 2^63 up to the 34th retry.
LEMMA WrapsLate == ASSUME NEW k \in Nat, Wraps(k) PROVE k >= 35
<1> USE SMT DEF Wraps
<1>1. k # 25 /\ k # 26 /\ k # 27 /\ k # 28 /\ k # 29
  <2>1. CASE k = 25 BY <2>1
  <2>2. CASE k = 26 BY <2>2
  <2>3. CASE k = 27 BY <2>3
  <2>4. CASE k = 28 BY <2>4
  <2>5. CASE k = 29 BY <2>5
  <2> QED
    BY <2>1, <2>2, <2>3, <2>4, <2>5
<1>2. k # 30 /\ k # 31 /\ k # 32 /\ k # 33 /\ k # 34
  <2>1. CASE k = 30 BY <2>1
  <2>2. CASE k = 31 BY <2>2
  <2>3. CASE k = 32 BY <2>3
  <2>4. CASE k = 33 BY <2>4
  <2>5. CASE k = 34 BY <2>5
  <2> QED
    BY <2>1, <2>2, <2>3, <2>4, <2>5
<1> QED
  BY <1>1, <1>2

\* A pause is positive and at most the cap, or the product has wrapped around.
LEMMA BaseBounds ==
  ASSUME NEW k \in Nat
  PROVE  Base(k) \in 1..Cap \/ (Base(k) = -1 /\ k >= 35)
<1>1. CASE Wraps(k)
  BY <1>1, WrapsLate DEF Base
<1>2. CASE ~Wraps(k) /\ k >= 6
  BY <1>2 DEF Base, Cap
<1>3. CASE ~Wraps(k) /\ ~(k >= 6)
  <2>1. k \in 0..5
    BY <1>3
  <2> QED
    BY <1>3, <2>1, PowersBelowCap DEF Base
<1> QED
  BY <1>1, <1>2, <1>3

-------------------------------------------------------------------------------
(* The invariant. *)

\* The loop's variable never exceeds the configured number of retries.
WithinRetries == \A c \in Caller : attempt[c] <= RetriesOf[c]

(***************************************************************************)
(* StopsWithContext is not inductive: a second late request is excluded    *)
(* because no caller that has sent one is ever at the limiter again, and   *)
(* none is late before the context is done.                                *)
(***************************************************************************)
LateIsOver ==
  \A c \in Caller : late[c] # 0 => late[c] = 1 /\ cancelled /\ where[c] # "limit"

CallInv == CallTypeOK /\ WithinRetries /\ PausesAreSound /\ LateIsOver

LEMMA InitCall == Init => CallInv
<1> SUFFICES ASSUME Init PROVE CallInv
  OBVIOUS
<1>1. CallTypeOK
  <2>1. cancelled \in BOOLEAN /\ panicked \in BOOLEAN
    BY DEF Init, ContextInit
  <2>2. where \in [Caller -> {"idle", "limit", "request", "sleep"}]
    BY DEF Init
  <2>3. attempt \in [Caller -> Nat] /\ late \in [Caller -> Nat] /\ pause \in [Caller -> Int]
    BY DEF Init
  <2> QED
    BY <2>1, <2>2, <2>3 DEF CallTypeOK
<1>2. WithinRetries
  BY CallAssumption DEF Init, WithinRetries
<1>3. PausesAreSound
  BY DEF Init, PausesAreSound
<1>4. LateIsOver
  BY DEF Init, LateIsOver
<1> QED
  BY <1>1, <1>2, <1>3, <1>4 DEF CallInv

\* A call that returns leaves nothing behind.
LEMMA ReturnKeeps ==
  ASSUME CallInv, ~panicked, NEW c \in Caller, NEW from, Return(c, from)
  PROVE  CallInv'
<1> USE DEF CallInv, Return, Goto
<1>1. CallTypeOK'
  BY DEF CallTypeOK
<1>2. WithinRetries'
  <2>1. \A d \in Caller : attempt[d] <= RetriesOf[d] /\ 0 <= RetriesOf[d]
    BY CallAssumption DEF WithinRetries
  <2> QED
    BY <2>1 DEF CallTypeOK, WithinRetries
<1>3. PausesAreSound'
  BY DEF CallTypeOK, PausesAreSound
<1>4. LateIsOver'
  BY DEF CallTypeOK, LateIsOver
<1> QED
  BY <1>1, <1>2, <1>3, <1>4

LEMMA NextCall == CallInv /\ [Next]_vars => CallInv'
<1> SUFFICES ASSUME CallInv, [Next]_vars PROVE CallInv'
  OBVIOUS
<1> USE CallAssumption
    DEF CallInv, CallTypeOK, WithinRetries, PausesAreSound, LateIsOver
<1>1. ASSUME NEW c \in Caller, ~panicked, Call(c) PROVE CallInv'
  BY <1>1 DEF Call, Goto
<1>2. ASSUME NEW c \in Caller, Step(c) PROVE CallInv'
  <2>1. ~panicked
    BY <1>2 DEF Step
  <2>2. CASE LimiterAdmits(c)
    BY <2>1, <2>2 DEF LimiterAdmits, Goto
  <2>3. CASE LimiterRefuses(c) \/ Answered(c) \/ FailsForGood(c) \/ Interrupted(c) \/ GivesUp(c)
    BY <2>1, <2>3, ReturnKeeps
    DEF LimiterRefuses, Answered, FailsForGood, Interrupted, GivesUp
  <2>4. CASE Pauses(c)
    <3>1. Base(attempt[c]) \in 1..Cap
      BY <2>4, BaseBounds DEF Pauses
    <3> QED
      BY <2>1, <2>4, <3>1 DEF Pauses, Goto
  <2>5. CASE Panics(c)
    <3>1. attempt[c] >= 35 /\ RetriesOf[c] >= 35
      BY <2>5, BaseBounds DEF Panics
    <3> QED
      BY <2>5, <3>1 DEF Panics
  <2>6. CASE GoesRound(c)
    BY <2>1, <2>6 DEF GoesRound, MoreAttempts, Goto
  <2> QED
    BY <1>2, <2>2, <2>3, <2>4, <2>5, <2>6 DEF Step
<1>3. CASE Cancel /\ UNCHANGED callVars
  BY <1>3 DEF Cancel, callVars
<1>4. CASE UNCHANGED vars
  BY <1>4 DEF vars, callVars
<1> QED
  BY <1>1, <1>2, <1>3, <1>4 DEF Next

LEMMA Invariance == Spec => []CallInv
BY InitCall, NextCall, PTL DEF Spec

-------------------------------------------------------------------------------
(* The theorems. *)

(***************************************************************************)
(* Every pause has a base between half a second and the cap, and only a    *)
(* configuration of 35 retries or more, in the call that reaches the 35th, *)
(* lets the product wrap around (client.go:91-95, main.go:83-87).          *)
(***************************************************************************)
THEOREM SoundPauses == Spec => []PausesAreSound
<1>1. CallInv => PausesAreSound
  BY DEF CallInv
<1> QED
  BY <1>1, Invariance, PTL

(***************************************************************************)
(* Once the context is done a call sends at most the one request whose     *)
(* turn came at that moment (client.go:80,97).                             *)
(***************************************************************************)
THEOREM StopsAtOnce == Spec => []StopsWithContext
<1>1. CallInv => StopsWithContext
  BY DEF CallInv, CallTypeOK, LateIsOver, StopsWithContext
<1> QED
  BY <1>1, Invariance, PTL

-------------------------------------------------------------------------------
(* The refinement. *)

\* A step of the loop is one of the abstract loop, or leaves it alone.
RetryStep == \E c \in Caller : LoopOf(c)!Returned(c) \/ LoopOf(c)!TryAgain(c)

LEMMA InitRetry ==
  Init => \A c \in Caller : LoopOf(c)!RetryInit(Caller)
BY DEF Init, Failed, LoopOf!RetryInit

\* A call that returns starts from 0 again.
LEMMA ReturnIsReturned ==
  ASSUME CallTypeOK, NEW c \in Caller, NEW from, Return(c, from)
  PROVE  LoopOf(c)!Returned(c)
BY DEF CallTypeOK, Return, Goto, Failed, LoopOf!Returned

LEMMA NextRetry == CallInv /\ [Next]_vars => [RetryStep]_Failed
<1> SUFFICES ASSUME CallInv, [Next]_vars PROVE RetryStep \/ UNCHANGED Failed
  OBVIOUS
<1>0. CallTypeOK /\ WithinRetries
  BY DEF CallInv
<1>1. ASSUME NEW c \in Caller, Call(c) PROVE UNCHANGED Failed
  BY <1>0, <1>1 DEF Call, Goto, Failed, CallTypeOK
<1>2. ASSUME NEW c \in Caller, Step(c) PROVE RetryStep \/ UNCHANGED Failed
  <2>1. CASE LimiterAdmits(c)
    BY <1>0, <2>1 DEF LimiterAdmits, Goto, Failed, CallTypeOK
  <2>2. CASE LimiterRefuses(c) \/ Answered(c) \/ FailsForGood(c) \/ Interrupted(c) \/ GivesUp(c)
    <3>1. LoopOf(c)!Returned(c)
      BY <1>0, <2>2, ReturnIsReturned
      DEF LimiterRefuses, Answered, FailsForGood, Interrupted, GivesUp
    <3> QED
      BY <3>1 DEF RetryStep
  <2>3. CASE Pauses(c)
    <3>1. CASE attempt[c] < RetriesOf[c]
      <4>1. /\ Failed[c] = attempt[c]
            /\ Failed' = [Failed EXCEPT ![c] = @ + 1]
        BY <1>0, <2>3, <3>1 DEF Pauses, Goto, Failed, CallTypeOK
      <4>2. LoopOf(c)!TryAgain(c)
        BY <3>1, <4>1 DEF LoopOf!TryAgain
      <4> QED
        BY <4>2 DEF RetryStep
    <3>2. CASE ~(attempt[c] < RetriesOf[c])
      BY <1>0, <2>3, <3>2 DEF Pauses, Goto, Failed, CallTypeOK
    <3> QED
      BY <3>1, <3>2
  <2>4. CASE Panics(c)
    BY <2>4 DEF Panics, Failed
  <2>5. CASE GoesRound(c)
    BY <1>0, <2>5 DEF GoesRound, MoreAttempts, Goto, Failed, CallTypeOK
  <2> QED
    BY <1>2, <2>1, <2>2, <2>3, <2>4, <2>5 DEF Step
<1>3. CASE (Cancel /\ UNCHANGED callVars) \/ UNCHANGED vars
  BY <1>3 DEF vars, callVars, Failed
<1> QED
  BY <1>1, <1>2, <1>3 DEF Next

(***************************************************************************)
(* The loop with its limiter, pauses, refusals and interruptions is the    *)
(* one the benchmarks are modelled with (client.go:79-102, main.go:70-93). *)
(***************************************************************************)
THEOREM RetryImplemented == Spec => ImplementsRetry
<1>1. Init => \A c \in Caller : LoopOf(c)!RetryInit(Caller)
  BY InitRetry
<1>2. CallInv /\ [Next]_vars => [RetryStep]_Failed
  BY NextRetry
<1> QED
  BY <1>1, <1>2, Invariance, PTL DEF Spec, ImplementsRetry, RetryStep
=============================================================================
