------------------------------- MODULE AppProofs -------------------------------
(***************************************************************************)
(* Proofs about the life of the process: any number of processes, one      *)
(* after the other, on any chain, each of them killed at any moment.  The  *)
(* steps of the Watcher keep what WatcherProofs proves of them; new are    *)
(* the steps that start and end a process.                                 *)
(***************************************************************************)
EXTENDS App, WatcherProofs

-------------------------------------------------------------------------------
(* The invariant. *)

LifeTypeOK ==
  /\ main \in {"config", "dial", "signal", "close", "cancel", "exit", "ended"}
  /\ launched \in {"no", "starting", "subscribed", "failed"}
  /\ closed \in BOOLEAN
  /\ lives \in 1..MaxLives

\* The Watcher's loop is only entered by a subscription, and ends with the process.
AtWorkInProcess == pc # "done" => launched = "subscribed" /\ main # "ended"

\* The goroutine is started once per process, and with an empty memory.
StartsFresh ==
  /\ main \in {"config", "dial"} => launched = "no"
  /\ launched \in {"no", "starting"} => pending = {}

\* The context is cancelled by the last of the deferred calls, and by nothing else.
CancelledLast == cancelled => main \in {"exit", "ended"}

AppInv ==
  /\ IInv
  /\ LifeTypeOK
  /\ AtWorkInProcess
  /\ StartsFresh
  /\ CancelledLast
  /\ WatcherOutlivesErrors

-------------------------------------------------------------------------------
(* The Watcher inside the process. *)

\* The Watcher's goroutine ends nowhere but at its select, and only when cancelled.
LEMMA WatcherStepEnds ==
  ASSUME WatcherStep
  PROVE  /\ pc # "done"
         /\ pc' = "done" => cancelled
         /\ cancelled' = cancelled
BY DEF WatcherStep, TakeHeader, Confirm, Retract, FinishRetract, FinishCheck, FetchBlock,
       FetchLogs, AbandonBlock, Check, Announce, Track, FinishBlock, Stop, Goto

\* A step that is not the Watcher's leaves its memory and its place alone.
LEMMA WatcherIdle ==
  ASSUME IInv, UNCHANGED <<notifierVars, watcherVars>>,
         cancelled' \in BOOLEAN, UNCHANGED <<head, moves>>,
         subscribed' \in BOOLEAN, headers' = headers \/ headers' = <<>>
  PROVE  IInv'
<1>1. headers' \in Seq(Nat)
  BY EmptySeq DEF IInv, TypeOK
<1>2. TypeOK'
  BY <1>1 DEF IInv, TypeOK, NotifierTypeOK, notifierVars, watcherVars, scanVars, verdictVars,
              alertVars
<1>3. TodoOnlyInCheck' /\ SizesFinite'
  BY DEF IInv, TodoOnlyInCheck, SizesFinite, watcherVars, scanVars
<1> QED
  BY <1>2, <1>3 DEF IInv

LEMMA InitApp == AppInit => AppInv
<1> SUFFICES ASSUME AppInit PROVE AppInv
  OBVIOUS
<1>1. TypeOK
  <2>1. cancelled \in BOOLEAN /\ NotifierTypeOK
    BY DEF AppInit, ContextInit, NotifierInit, NotifierTypeOK
  <2>2. head \in Block /\ headers \in Seq(Nat) /\ subscribed \in BOOLEAN /\ moves \in Nat
    BY ChainAssumption, EmptySeq DEF AppInit
  <2> QED
    BY <2>1, <2>2 DEF AppInit, TypeOK, Pcs, Kind
<1>2. TodoOnlyInCheck /\ SizesFinite
  BY FS_EmptySet DEF AppInit, TodoOnlyInCheck, SizesFinite
<1>3. LifeTypeOK
  <2>1. lives \in 1..MaxLives
    BY AppAssumption DEF AppInit
  <2> QED
    BY <2>1 DEF AppInit, LifeTypeOK
<1>4. AtWorkInProcess /\ StartsFresh /\ CancelledLast /\ WatcherOutlivesErrors
  BY DEF AppInit, ContextInit, AtWorkInProcess, StartsFresh, CancelledLast,
         WatcherOutlivesErrors
<1> QED
  BY <1>1, <1>2, <1>3, <1>4 DEF AppInv, IInv

LEMMA GoneKeeps == ASSUME AppInv, Gone PROVE AppInv'
<1>1. TypeOK'
  <2>1. headers' \in Seq(Nat) /\ subscribed' \in BOOLEAN /\ pc' = "done"
    BY EmptySeq DEF Gone
  <2> QED
    BY <2>1 DEF Gone, AppInv, IInv, TypeOK, Pcs, NotifierTypeOK, notifierVars, scanVars,
                verdictVars, alertVars
<1>2. TodoOnlyInCheck' /\ SizesFinite'
  BY DEF Gone, AppInv, IInv, TodoOnlyInCheck, SizesFinite, scanVars
<1>3. LifeTypeOK'
  BY DEF Gone, AppInv, LifeTypeOK
<1>4. AtWorkInProcess' /\ StartsFresh' /\ CancelledLast' /\ WatcherOutlivesErrors'
  BY DEF Gone, AppInv, AtWorkInProcess, StartsFresh, CancelledLast, WatcherOutlivesErrors
<1> QED
  BY <1>1, <1>2, <1>3, <1>4 DEF AppInv, IInv

LEMMA RestartKeeps == ASSUME AppInv, Restart PROVE AppInv'
<1>1. pc = "done" /\ pc' = "done"
  BY DEF Restart, AppInv, AtWorkInProcess
<1>2. TypeOK'
  <2>1. NotifierTypeOK'
    BY DEF Restart, NotifierTypeOK
  <2>2. /\ head' \in Block /\ headers' \in Seq(Nat) /\ subscribed' \in BOOLEAN /\ moves' \in Nat
        /\ detected' \in [Alert -> Nat] /\ confirmed' \in [Alert -> Nat]
        /\ reorged' \in [Alert -> Nat] /\ processed' \in [Block -> Nat]
    BY DEF Restart, nodeVars, AppInv, IInv, TypeOK
  <2>3. cancelled' \in BOOLEAN
    BY DEF Restart
  <2>4. /\ number' = 0 /\ at' = 1
        /\ whaleTotal' = 0 /\ reorgedTotal' = 0 /\ pendingGauge' = 0
    BY DEF Restart
  <2>5. /\ pending' = {} /\ todo' = {} /\ logs' = {} /\ queue' = {}
        /\ current' = NoAlert /\ block' = NoBlock /\ stage' = "native"
    BY DEF Restart
  <2> QED
    BY <1>1, <2>1, <2>2, <2>3, <2>4, <2>5 DEF TypeOK, Pcs, Kind
<1>3. TodoOnlyInCheck' /\ SizesFinite'
  BY <1>1, FS_EmptySet DEF Restart, TodoOnlyInCheck, SizesFinite
<1>4. LifeTypeOK'
  <2>1. lives' \in 1..MaxLives
    BY AppAssumption DEF Restart, AppInv, LifeTypeOK
  <2> QED
    BY <2>1 DEF Restart, LifeTypeOK
<1>5. AtWorkInProcess' /\ StartsFresh' /\ CancelledLast' /\ WatcherOutlivesErrors'
  BY <1>1 DEF Restart, AtWorkInProcess, StartsFresh, CancelledLast, WatcherOutlivesErrors
<1> QED
  BY <1>2, <1>3, <1>4, <1>5 DEF AppInv, IInv

LEMMA NextApp == AppInv /\ [AppNext]_allVars => AppInv'
<1> SUFFICES ASSUME AppInv, [AppNext]_allVars PROVE AppInv'
  OBVIOUS
<1>0. /\ IInv /\ LifeTypeOK /\ AtWorkInProcess /\ StartsFresh /\ CancelledLast
      /\ WatcherOutlivesErrors
  BY DEF AppInv
<1>1. CASE Configure \/ Dialed \/ DialFails \/ SubscribeFails \/ Signal
  <2>1. UNCHANGED vars
    BY <1>1 DEF Configure, Dialed, DialFails, SubscribeFails, Signal
  <2>2. IInv'
    BY <1>0, <2>1, NextIInv
  <2>3. UNCHANGED <<pc, pending, cancelled>>
    BY <2>1 DEF vars, watcherVars
  <2>4. LifeTypeOK' /\ AtWorkInProcess'
    BY <1>0, <1>1, <2>3 DEF Configure, Dialed, DialFails, SubscribeFails, Signal, LifeTypeOK,
                            AtWorkInProcess, StartsFresh
  <2>5. StartsFresh' /\ CancelledLast' /\ WatcherOutlivesErrors'
    BY <1>0, <1>1, <2>3 DEF Configure, Dialed, DialFails, SubscribeFails, Signal, StartsFresh,
                            CancelledLast, WatcherOutlivesErrors
  <2> QED
    BY <2>2, <2>4, <2>5 DEF AppInv
<1>2. CASE Subscribed
  <2>1. pc = "done" /\ pending = {} /\ todo = {}
    BY <1>0, <1>2 DEF Subscribed, AtWorkInProcess, StartsFresh, IInv, TypeOK
  <2>2. TypeOK'
    BY <1>0, <1>2 DEF Subscribed, IInv, TypeOK, Pcs, NotifierTypeOK, notifierVars, scanVars,
                      verdictVars, alertVars
  <2>3. TodoOnlyInCheck' /\ SizesFinite'
    BY <1>0, <1>2, <2>1 DEF Subscribed, IInv, TodoOnlyInCheck, SizesFinite, scanVars
  <2>4. LifeTypeOK' /\ AtWorkInProcess'
    BY <1>0, <1>2 DEF Subscribed, LifeTypeOK, AtWorkInProcess
  <2>5. StartsFresh' /\ CancelledLast' /\ WatcherOutlivesErrors'
    BY <1>0, <1>2 DEF Subscribed, StartsFresh, CancelledLast, WatcherOutlivesErrors
  <2> QED
    BY <2>2, <2>3, <2>4, <2>5 DEF AppInv, IInv
<1>3. CASE CloseClient \/ CancelContext
  <2>1. UNCHANGED <<pc, pending, launched, notifierVars, watcherVars>>
    BY <1>3 DEF CloseClient, CancelContext, watcherVars
  <2>2. IInv'
    <3>1. cancelled' \in BOOLEAN /\ subscribed' \in BOOLEAN /\ UNCHANGED <<head, moves>>
      BY <1>0, <1>3 DEF CloseClient, CancelContext, Cancel, nodeVars, IInv, TypeOK
    <3>2. headers' = headers \/ headers' = <<>>
      BY <1>3 DEF CloseClient, CancelContext, nodeVars
    <3> QED
      BY <1>0, <2>1, <3>1, <3>2, WatcherIdle
  <2>3. LifeTypeOK' /\ AtWorkInProcess'
    BY <1>0, <1>3, <2>1 DEF CloseClient, CancelContext, LifeTypeOK, AtWorkInProcess
  <2>4. StartsFresh' /\ CancelledLast' /\ WatcherOutlivesErrors'
    BY <1>0, <1>3, <2>1 DEF CloseClient, CancelContext, StartsFresh, CancelledLast,
                            WatcherOutlivesErrors
  <2> QED
    BY <2>2, <2>3, <2>4 DEF AppInv
<1>4. CASE EndProcess \/ Crash
  BY <1>4, GoneKeeps DEF EndProcess, Crash
<1>5. CASE Restart
  BY <1>5, RestartKeeps
<1>6. CASE WatcherRuns
  <2>1. pc # "done" /\ (pc' = "done" => cancelled) /\ cancelled' = cancelled
    BY <1>6, WatcherStepEnds DEF WatcherRuns
  <2>2. launched = "subscribed" /\ main # "ended" /\ UNCHANGED <<main, launched, closed, lives>>
    BY <1>0, <1>6, <2>1 DEF WatcherRuns, AtWorkInProcess, appVars
  <2>3. IInv'
    BY <1>0, <1>6, NextIInv DEF WatcherRuns, Next
  <2>4. LifeTypeOK' /\ AtWorkInProcess' /\ StartsFresh'
    BY <1>0, <2>2 DEF LifeTypeOK, AtWorkInProcess, StartsFresh
  <2>5. CancelledLast' /\ WatcherOutlivesErrors'
    BY <1>0, <2>1, <2>2 DEF CancelledLast, WatcherOutlivesErrors
  <2> QED
    BY <2>3, <2>4, <2>5 DEF AppInv
<1>7. ASSUME NEW c \in Channel, AppPost(c) PROVE AppInv'
  <2>1. IInv'
    BY <1>0, <1>7, NextIInv DEF AppPost, Next
  <2>2. UNCHANGED <<pc, pending, cancelled, main, launched, closed, lives>>
    BY <1>7 DEF AppPost, Post, watcherVars, appVars
  <2> QED
    BY <1>0, <2>1, <2>2 DEF AppInv, LifeTypeOK, AtWorkInProcess, StartsFresh, CancelledLast,
                            WatcherOutlivesErrors
<1>8. CASE ChainMoves
  <2>1. IInv'
    BY <1>0, <1>8, ChainIInv DEF ChainMoves
  <2>2. UNCHANGED <<pc, pending, cancelled, main, launched, closed, lives>>
    BY <1>8 DEF ChainMoves, watcherVars, appVars
  <2> QED
    BY <1>0, <2>1, <2>2 DEF AppInv, LifeTypeOK, AtWorkInProcess, StartsFresh, CancelledLast,
                            WatcherOutlivesErrors
<1>9. CASE UNCHANGED allVars
  <2>1. IInv'
    BY <1>0, <1>9, NextIInv DEF allVars
  <2>2. UNCHANGED <<pc, pending, cancelled, main, launched, closed, lives>>
    BY <1>9 DEF allVars, vars, watcherVars, appVars
  <2> QED
    BY <1>0, <2>1, <2>2 DEF AppInv, LifeTypeOK, AtWorkInProcess, StartsFresh, CancelledLast,
                            WatcherOutlivesErrors
<1> QED
  BY <1>1, <1>2, <1>3, <1>4, <1>5, <1>6, <1>7, <1>8, <1>9 DEF AppNext, MainStep

LEMMA AppInvariance == AppSpec => []AppInv
BY InitApp, NextApp, PTL DEF AppSpec

-------------------------------------------------------------------------------
(* The theorems. *)

(***************************************************************************)
(* Types are kept through ends and restarts, and the Watcher is only at    *)
(* work in a process that has subscribed and not ended (app.go:30-87).     *)
(***************************************************************************)
THEOREM AppTypeCorrect == AppSpec => []AppTypeOK
<1>1. AppInv => AppTypeOK
  BY DEF AppInv, IInv, LifeTypeOK, AtWorkInProcess, AppTypeOK
<1> QED
  BY <1>1, AppInvariance, PTL

(***************************************************************************)
(* While the process waits for a signal the Watcher that has subscribed is *)
(* alive, whatever fails (watcher.go:88, app.go:77).                       *)
(***************************************************************************)
THEOREM WatcherSurvives == AppSpec => []WatcherOutlivesErrors
<1>1. AppInv => WatcherOutlivesErrors
  BY DEF AppInv
<1> QED
  BY <1>1, AppInvariance, PTL

LEMMA AppInitLedger == AppInit => Ledger!Init
<1> SUFFICES ASSUME AppInit PROVE Ledger!Init
  OBVIOUS
<1>1. Open = {}
  BY DEF AppInit, Open
<1> QED
  BY <1>1 DEF AppInit, Ledger!Init, Ledger!Zero

LEMMA AppNextLedger ==
  AppInv /\ [AppNext]_allVars => [Ledger!Next]_(Ledger!ledgerVars)
<1> SUFFICES ASSUME AppInv, [AppNext]_allVars
             PROVE  [Ledger!Next]_(Ledger!ledgerVars)
  OBVIOUS
<1>0. IInv /\ AtWorkInProcess /\ StartsFresh
  BY DEF AppInv
<1>1. CASE WatcherRuns \/ (\E c \in Channel : AppPost(c)) \/ UNCHANGED vars
  <2>1. [Next]_vars
    BY <1>1 DEF WatcherRuns, AppPost, Next
  <2> QED
    BY <1>0, <2>1, NextLedger
<1>2. CASE Subscribed
  <2>1. pc = "done" /\ pending = {} /\ pc' = "select" /\ pending' = {}
    BY <1>0, <1>2 DEF Subscribed, AtWorkInProcess, StartsFresh
  <2>2. Open = {} /\ Open' = {}
    BY <2>1 DEF Open
  <2> QED
    BY <1>2, <2>2 DEF Subscribed, verdictVars, alertVars, Ledger!ledgerVars
<1>3. CASE UNCHANGED watcherVars
  <2>1. Open' = Open
    BY <1>3 DEF watcherVars, Open
  <2> QED
    BY <1>3, <2>1 DEF watcherVars, verdictVars, alertVars, Ledger!ledgerVars
<1>4. CASE Gone
  <2>1. Open' = {}
    BY <1>4 DEF Gone, Open
  <2>2. Ledger!Forget
    BY <1>4, <2>1 DEF Gone, verdictVars, alertVars, Ledger!Forget
  <2> QED
    BY <2>2 DEF Ledger!Next
<1>5. CASE Restart
  <2>1. pc = "done" /\ pc' = "done"
    BY <1>0, <1>5 DEF Restart, AtWorkInProcess
  <2>2. Open = {} /\ Open' = {}
    BY <2>1 DEF Open
  <2> QED
    BY <1>5, <2>2 DEF Restart, Ledger!ledgerVars
<1> QED
  BY <1>1, <1>2, <1>3, <1>4, <1>5
  DEF AppNext, Configure, Dialed, DialFails, SubscribeFails, Signal, MainStep, CloseClient,
      CancelContext, EndProcess, Crash, ChainMoves, allVars

(***************************************************************************)
(* All processes together keep the ledger of the alerts their readers have *)
(* seen: a restart forgets open alerts, and never judges one a second time *)
(* (watcher.go:64,300-362, app.go:30-87).                                  *)
(***************************************************************************)
THEOREM LedgerKept == AppSpec => ImplementsLedger
BY AppInitLedger, AppNextLedger, AppInvariance, PTL DEF AppSpec, ImplementsLedger, Ledger!Spec
=============================================================================
