---------------------------------- MODULE App ----------------------------------
(***************************************************************************)
(* The life of the process: App.Run starts the Watcher and waits for a     *)
(* signal, its deferred calls undo what it set up, and the service manager *)
(* starts the program again, as every deployment does.  The Watcher runs   *)
(* in the middle, on a chain that does not wait for the service.           *)
(*                                                                         *)
(* Nothing is persisted: a new process knows none of the alerts of the one *)
(* before.  What was announced, confirmed and corrected (detected,         *)
(* confirmed, reorged) has reached its readers and stays.                  *)
(***************************************************************************)
EXTENDS Watcher

CONSTANT MaxLives  \* bound on the number of processes, one after the other

ASSUME AppAssumption == MaxLives \in Nat \ {0}

VARIABLES
  main,      \* where the main goroutine is
  launched,  \* what became of the Watcher's goroutine
  closed,    \* the Ethereum client has been closed
  lives      \* processes started so far

appVars == <<main, launched, closed, lives>>
allVars == <<vars, appVars>>

AppInit ==
  /\ ContextInit
  /\ NotifierInit
  /\ pc = "done"
  /\ number = 0
  /\ pending = {}
  /\ todo = {}
  /\ current = NoAlert
  /\ block = NoBlock
  /\ logs = {}
  /\ at = 1
  /\ stage = "native"
  /\ queue = {}
  /\ whaleTotal = 0
  /\ reorgedTotal = 0
  /\ pendingGauge = 0
  /\ main = "config"
  /\ launched = "no"
  /\ closed = FALSE
  /\ head = Genesis
  /\ headers = <<>>
  /\ subscribed = FALSE
  /\ moves = 0
  /\ detected = [a \in Alert |-> 0]
  /\ confirmed = [a \in Alert |-> 0]
  /\ reorged = [a \in Alert |-> 0]
  /\ processed = [b \in Block |-> 0]
  /\ lives = 1

-------------------------------------------------------------------------------
(* Run up to its wait for a signal.                                        *)

\* The environment is read; a value that is missing or malformed ends the process.
Configure ==
  /\ main = "config"
  /\ main' \in {"dial", "ended"}
  /\ UNCHANGED <<vars, launched, closed, lives>>

\* The connection stands: the goroutines are started, and Run waits.
Dialed ==
  /\ main = "dial"
  /\ main' = "signal"
  /\ launched' = "starting"
  /\ UNCHANGED <<vars, closed, lives>>

\* No connection: Run returns, and of the deferred calls there is only cancel.
DialFails ==
  /\ main = "dial"
  /\ main' = "cancel"
  /\ UNCHANGED <<vars, launched, closed, lives>>

-------------------------------------------------------------------------------
(* The Watcher's goroutine up to its loop.                                 *)

Subscribed ==
  /\ launched = "starting"
  /\ main # "ended"
  /\ ~closed
  /\ launched' = "subscribed"
  /\ subscribed' = TRUE
  /\ pc' = "select"
  /\ UNCHANGED <<cancelled, head, headers, moves, notifierVars, number, pending, todo,
                 current, scanVars, verdictVars, alertVars, processed, pendingGauge,
                 main, closed, lives>>

\* Mutant: the Watcher's loop is entered although the subscription failed.
SubscribeUnchecked ==
  /\ launched = "starting"
  /\ main # "ended"
  /\ launched' = "failed"
  /\ pc' = "select"
  /\ UNCHANGED <<cancelled, nodeVars, notifierVars, number, pending, todo, current,
                 scanVars, verdictVars, alertVars, processed, pendingGauge,
                 main, closed, lives>>

\* The error is logged; the process goes on without a Watcher.
SubscribeFails ==
  /\ launched = "starting"
  /\ main # "ended"
  /\ launched' = "failed"
  /\ UNCHANGED <<vars, main, closed, lives>>

-------------------------------------------------------------------------------
(* The end.  The deferred calls run last in, first out: the client is      *)
(* closed before the context is cancelled.  Nobody waits for the Watcher.  *)

Signal ==
  /\ main = "signal"
  /\ main' = "close"
  /\ UNCHANGED <<vars, launched, closed, lives>>

\* Mutant: the shutdown first waits for the Watcher's goroutine.
CloseClientAfterWatcher ==
  /\ main = "close"
  /\ pc = "done"
  /\ main' = "cancel"
  /\ closed' = TRUE
  /\ subscribed' = FALSE
  /\ headers' = <<>>
  /\ UNCHANGED <<cancelled, head, moves, notifierVars, watcherVars, launched, lives>>

CloseClient ==
  /\ main = "close"
  /\ main' = "cancel"
  /\ closed' = TRUE
  /\ subscribed' = FALSE
  /\ headers' = <<>>
  /\ UNCHANGED <<cancelled, head, moves, notifierVars, watcherVars, launched, lives>>

CancelContext ==
  /\ main = "cancel"
  /\ main' = "exit"
  /\ Cancel
  /\ UNCHANGED <<nodeVars, notifierVars, watcherVars, launched, closed, lives>>

\* The process is gone, with every goroutine and its connections.
Gone ==
  /\ main' = "ended"
  /\ pc' = "done"
  /\ subscribed' = FALSE
  /\ headers' = <<>>
  /\ UNCHANGED <<cancelled, head, moves, notifierVars, number, pending, todo, current,
                 scanVars, verdictVars, alertVars, processed, pendingGauge,
                 launched, closed, lives>>

EndProcess == main = "exit" /\ Gone

(***************************************************************************)
(* The process is killed wherever it is, or a signal comes before the      *)
(* program asks to be told of signals.                                     *)
(***************************************************************************)
Crash == main # "ended" /\ Gone

MainStep == CloseClient \/ CancelContext \/ EndProcess

\* Mutant: the open alerts survive the restart.
RestartRemembering ==
  /\ main = "ended"
  /\ lives < MaxLives
  /\ lives' = lives + 1
  /\ main' = "config"
  /\ launched' = "no"
  /\ closed' = FALSE
  /\ cancelled' = FALSE
  /\ waiting' = {}
  /\ sent' = [c \in Channel |-> 0]
  /\ errors' = [c \in Channel |-> 0]
  /\ UNCHANGED <<nodeVars, watcherVars>>

\* The service manager starts the program again.
Restart ==
  /\ main = "ended"
  /\ lives < MaxLives
  /\ lives' = lives + 1
  /\ main' = "config"
  /\ launched' = "no"
  /\ closed' = FALSE
  /\ cancelled' = FALSE
  /\ waiting' = {}
  /\ sent' = [c \in Channel |-> 0]
  /\ errors' = [c \in Channel |-> 0]
  /\ number' = 0
  /\ pending' = {}
  /\ todo' = {}
  /\ current' = NoAlert
  /\ block' = NoBlock
  /\ logs' = {}
  /\ at' = 1
  /\ stage' = "native"
  /\ queue' = {}
  /\ whaleTotal' = 0
  /\ reorgedTotal' = 0
  /\ pendingGauge' = 0
  /\ UNCHANGED <<nodeVars, pc, detected, confirmed, reorged, processed>>

-------------------------------------------------------------------------------
(* The rest of the process and the world around it.                        *)

\* A closed client answers nothing but errors.
ReadSucceeds == FetchBlock \/ FetchLogs \/ \E a \in todo : Confirm(a)

WatcherRuns ==
  /\ WatcherStep
  /\ closed => ~ReadSucceeds
  /\ UNCHANGED appVars

AppPost(c) == Post(c) /\ UNCHANGED appVars

(***************************************************************************)
(* The chain moves on also while no process runs.  The goroutine that      *)
(* would unsubscribe finds nothing left to do: the client is closed first. *)
(***************************************************************************)
ChainMoves ==
  /\ (\E b \in Block : NewHead(b)) \/ LoseConnection
  /\ UNCHANGED <<cancelled, notifierVars, watcherVars, appVars>>

AppNext ==
  \/ Configure
  \/ Dialed
  \/ DialFails
  \/ Subscribed
  \/ SubscribeFails
  \/ Signal
  \/ MainStep
  \/ Crash
  \/ Restart
  \/ WatcherRuns
  \/ \E c \in Channel : AppPost(c)
  \/ ChainMoves

(***************************************************************************)
(* Fairness is asked of main's own steps after a signal, and of nothing    *)
(* else: not of the node, the webhooks or the Watcher.                     *)
(***************************************************************************)
AppSpec == AppInit /\ [][AppNext]_allVars /\ WF_allVars(MainStep)

-------------------------------------------------------------------------------
(* Properties. *)

(***************************************************************************)
(* Types of the new variables.  The Watcher is only at work in a process   *)
(* that has subscribed and not ended.                                      *)
(***************************************************************************)
AppTypeOK ==
  /\ TypeOK
  /\ main \in {"config", "dial", "signal", "close", "cancel", "exit", "ended"}
  /\ launched \in {"no", "starting", "subscribed", "failed"}
  /\ closed \in BOOLEAN
  /\ lives \in 1..MaxLives
  /\ pc # "done" => launched = "subscribed" /\ main # "ended"

(***************************************************************************)
(* watcher.go:88, app.go:77.  Once it has subscribed, the Watcher's        *)
(* goroutine lives as long as the process is not asked to stop, whatever   *)
(* reads and posts fail: its process would go on without it, and look      *)
(* healthy.                                                                *)
(***************************************************************************)
WatcherOutlivesErrors == main = "signal" /\ launched = "subscribed" => pc # "done"

(***************************************************************************)
(* app.go:35,43,82-87.  After a signal the process ends, also when the     *)
(* Watcher waits for a node or a webhook that never answers.               *)
(***************************************************************************)
EndsOnSignal == main = "close" ~> main = "ended"
=============================================================================
