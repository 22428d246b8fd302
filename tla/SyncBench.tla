------------------------------ MODULE SyncBench ------------------------------
(***************************************************************************)
(* The sync benchmark (benchmarks/syncbench/bench.go and methods.go, run   *)
(* by cmd/sync-bench): for a while, one goroutine listens for new heads on *)
(* a WebSocket and one per poll interval asks for the block number.  Each  *)
(* records the numbers of the blocks it learns of, and when all have ended *)
(* the runs are compared.                                                  *)
(*                                                                         *)
(* Timestamps and traffic statistics are left out, and a poller may tick   *)
(* at any time: what is modelled is which blocks a run records.            *)
(***************************************************************************)
EXTENDS Node, Retry

CONSTANT Poller  \* one for each of cfg.PollIntervals

VARIABLES
  socket,     \* RunWebSocket: "dialing", "listening" or "ended"
  seen,       \* its map of the block numbers seen
  wsEvents,   \* Events of its Run: block numbers, in order
  polling,    \* pollers that have not returned
  first,      \* by poller: no answer yet
  lastSeen,   \* by poller
  events,     \* by poller: Events of its Run
  finished    \* wg.Wait() has returned

socketVars == <<socket, seen, wsEvents>>
pollVars == <<polling, first, lastSeen, events>>
vars == <<cancelled, nodeVars, attempt, socketVars, pollVars, finished>>

Init ==
  /\ ContextInit
  /\ head = Genesis
  /\ headers = <<>>
  /\ subscribed = FALSE
  /\ moves = 0
  /\ RetryInit(Poller)
  /\ socket = "dialing"
  /\ seen = {}
  /\ wsEvents = <<>>
  /\ polling = Poller
  /\ first = [p \in Poller |-> TRUE]
  /\ lastSeen = [p \in Poller |-> 0]
  /\ events = [p \in Poller |-> <<>>]
  /\ finished = FALSE

-------------------------------------------------------------------------------
(* RunWebSocket. *)

Subscribe ==
  /\ socket = "dialing"
  /\ socket' = "listening"
  /\ subscribed' = TRUE
  /\ UNCHANGED <<cancelled, head, headers, moves, attempt, seen, wsEvents,
                 pollVars, finished>>

Remember(n) == seen' = seen \cup {n}

(***************************************************************************)
(* A header arrives, of a new number or of one seen before: a reorg        *)
(* announces a number again.                                               *)
(***************************************************************************)
HeaderArrives ==
  /\ socket = "listening"
  /\ headers # <<>>
  /\ headers' = Tail(headers)
  /\ LET n == Head(headers) IN
       IF n \in seen
         THEN UNCHANGED <<seen, wsEvents>>
         ELSE Remember(n) /\ wsEvents' = Append(wsEvents, n)
  /\ UNCHANGED <<cancelled, head, subscribed, moves, attempt, socket,
                 pollVars, finished>>

\* Mutant: only the error channel of the subscription ends the loop.
SocketBroken == socket = "dialing" \/ ~subscribed

(***************************************************************************)
(* What makes RunWebSocket return: dialing or subscribing fails, the       *)
(* subscription reports an error, or the context is done.                  *)
(***************************************************************************)
SocketOver == cancelled \/ socket = "dialing" \/ ~subscribed

\* RunWebSocket returns, and its deferred calls unsubscribe and close.
SocketEnds ==
  /\ socket # "ended"
  /\ SocketOver
  /\ socket' = "ended"
  /\ subscribed' = FALSE
  /\ headers' = <<>>
  /\ UNCHANGED <<cancelled, head, moves, attempt, seen, wsEvents, pollVars,
                 finished>>

-------------------------------------------------------------------------------
(* RunPolling. *)

\* Mutant: a number below the last one is not turned away.
OnlyRepeats(p, n) == n = lastSeen[p]

NothingNew(p, n) == n <= lastSeen[p]

(***************************************************************************)
(* A tick whose call is answered with the height of the head.  The first   *)
(* only sets where to start from.                                          *)
(***************************************************************************)
Answered(p) ==
  /\ p \in polling
  /\ ~cancelled
  /\ Returned(p)
  /\ LET n == Number[head] IN
       \/ /\ first[p]
          /\ first' = [first EXCEPT ![p] = FALSE]
          /\ lastSeen' = [lastSeen EXCEPT ![p] = n]
          /\ UNCHANGED events
       \/ /\ ~first[p]
          /\ ~NothingNew(p, n)
          /\ events' = [events EXCEPT ![p] = @ \o Heights(lastSeen[p] + 1, n)]
          /\ lastSeen' = [lastSeen EXCEPT ![p] = n]
          /\ UNCHANGED first
       \/ /\ ~first[p]
          /\ NothingNew(p, n)
          /\ UNCHANGED <<first, lastSeen, events>>
  /\ UNCHANGED <<cancelled, nodeVars, socketVars, polling, finished>>

\* The call of a tick fails: the loop goes on to the next tick.
TickFails(p) ==
  /\ p \in polling
  /\ GiveUp(p)
  /\ UNCHANGED <<cancelled, nodeVars, socketVars, pollVars, finished>>

Again(p) ==
  /\ p \in polling
  /\ ~cancelled
  /\ TryAgain(p)
  /\ UNCHANGED <<cancelled, nodeVars, socketVars, pollVars, finished>>

PollerEnds(p) ==
  /\ p \in polling
  /\ cancelled
  /\ polling' = polling \ {p}
  /\ UNCHANGED <<cancelled, nodeVars, attempt, socketVars, first, lastSeen,
                 events, finished>>

-------------------------------------------------------------------------------
(* Runner.Run. *)

\* Mutant: the pollers are not counted in wg.
SocketEnded == socket = "ended"

AllEnded == socket = "ended" /\ polling = {}

Finish ==
  /\ ~finished
  /\ AllEnded
  /\ finished' = TRUE
  /\ UNCHANGED <<cancelled, nodeVars, attempt, socketVars, pollVars>>

NodeStep ==
  /\ (\E b \in Block : NewHead(b)) \/ LoseConnection
  /\ UNCHANGED <<cancelled, attempt, socketVars, pollVars, finished>>

\* The benchmark's duration is over, or it is interrupted.
Deadline ==
  /\ Cancel
  /\ UNCHANGED <<nodeVars, attempt, socketVars, pollVars, finished>>

Poll(p) == Answered(p) \/ TickFails(p) \/ Again(p) \/ PollerEnds(p)

Next ==
  \/ Subscribe
  \/ HeaderArrives
  \/ SocketEnds
  \/ \E p \in Poller : Poll(p)
  \/ Finish
  \/ NodeStep
  \/ Deadline

Spec == Init /\ [][Next]_vars

(***************************************************************************)
(* select picks at random among the cases that are ready, so each loop     *)
(* eventually takes ctx.Done() once it is ready; the timeout always fires. *)
(***************************************************************************)
FairSpec ==
  /\ Spec
  /\ WF_vars(SocketEnds)
  /\ \A p \in Poller : WF_vars(PollerEnds(p))
  /\ WF_vars(Finish)
  /\ WF_vars(Deadline)

-------------------------------------------------------------------------------
(* Properties. *)

TypeOK ==
  /\ cancelled \in BOOLEAN
  /\ head \in Block
  /\ headers \in Seq(Nat)
  /\ subscribed \in BOOLEAN
  /\ moves \in 0..MaxMoves
  /\ RetryTypeOK(Poller)
  /\ socket \in {"dialing", "listening", "ended"}
  /\ seen \subseteq Nat
  /\ wsEvents \in Seq(Nat)
  /\ polling \subseteq Poller
  /\ first \in [Poller -> BOOLEAN]
  /\ lastSeen \in [Poller -> Nat]
  /\ events \in [Poller -> Seq(Nat)]
  /\ finished \in BOOLEAN

(***************************************************************************)
(* methods.go:47-50,85-96.  A reorg announces numbers again and lowers the *)
(* height, ticks fail, several blocks come between two ticks: still the    *)
(* WebSocket run records no number twice, and a poller records an unbroken *)
(* run of numbers up to the last it saw.  So events count blocks.          *)
(***************************************************************************)
EachBlockRecordedOnce ==
  /\ \A i, j \in 1..Len(wsEvents) : wsEvents[i] = wsEvents[j] => i = j
  /\ \A p \in Poller :
       /\ Len(events[p]) <= lastSeen[p]
       /\ events[p] = Heights((lastSeen[p] + 1) - Len(events[p]), lastSeen[p])

(***************************************************************************)
(* bench.go:62, report.go:58-110.  Nothing is recorded any more when the   *)
(* runs are compared.                                                      *)
(***************************************************************************)
ComparedWhenOver == [][finished => UNCHANGED <<wsEvents, events>>]_vars

(***************************************************************************)
(* bench.go:36-62.  Run returns, whether or not the WebSocket broke before *)
(* the deadline.                                                           *)
(***************************************************************************)
RunReturns == <>finished
=============================================================================
