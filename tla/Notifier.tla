------------------------------- MODULE Notifier -------------------------------
(***************************************************************************)
(* The fan-out of one event to every configured notifier, and the counters *)
(* that the metricsNotifier around each of them keeps.  One goroutine per  *)
(* channel posts the event to its webhook, within the client's time limit  *)
(* and without a retry; the caller waits for all of them.                  *)
(***************************************************************************)
EXTENDS Naturals

CONSTANT Channel  \* the configured notifiers: "slack", "discord", both or none

VARIABLES
  waiting,  \* channels whose goroutine has not called wg.Done() yet
  sent,     \* notifications_sent_total, by channel
  errors    \* notification_errors_total, by channel

notifierVars == <<waiting, sent, errors>>

NotifierInit ==
  /\ waiting = {}
  /\ sent = [c \in Channel |-> 0]
  /\ errors = [c \in Channel |-> 0]

(***************************************************************************)
(* The call of Watcher.notify, up to wg.Wait().                            *)
(***************************************************************************)
StartFanOut ==
  /\ waiting' = Channel
  /\ UNCHANGED <<sent, errors>>

\* Mutant: the caller does not wait.
FanOutNotAwaited == TRUE

FanOutDone == waiting = {}

(***************************************************************************)
(* One goroutine of the fan-out: the post is accepted, or it fails (time   *)
(* limit, network, status outside 2xx, context cancelled).                 *)
(***************************************************************************)
Deliver(c) ==
  /\ c \in waiting
  /\ waiting' = waiting \ {c}
  /\ \/ sent' = [sent EXCEPT ![c] = @ + 1] /\ UNCHANGED errors
     \/ errors' = [errors EXCEPT ![c] = @ + 1] /\ UNCHANGED sent

NotifierTypeOK ==
  /\ waiting \subseteq Channel
  /\ sent \in [Channel -> Nat]
  /\ errors \in [Channel -> Nat]
=============================================================================
