------------------------------- MODULE RetryCall -------------------------------
(***************************************************************************)
(* The two copies of the retry loop in full: RawRPC.Call, used by the log  *)
(* and sync benchmarks, and ethClientAdapter.do, used by the bloom         *)
(* benchmark.  A call waits for the rate limiter, sends its request, and   *)
(* after an error worth a retry sleeps for a pause that doubles each time. *)
(* Limiter and pause also listen to the context.                           *)
(*                                                                         *)
(* Pauses are counted in halves of a second and without their jitter.  The *)
(* limiter is golang.org/x/time/rate: it refuses a call whose context is   *)
(* done, or would be done before its turn.  It would also refuse a call    *)
(* that costs more than its burst, which none does: minBurst is 500, like  *)
(* the dearest call (tputGetBlockReceipts), and do asks for 1 of 1 or more.*)
(***************************************************************************)
EXTENDS Integers, Context

CONSTANTS
  Caller,     \* goroutines that make calls
  CopyOf,     \* CopyOf[c] is the copy of the loop c uses: "rpc" or "eth"
  RetriesOf,  \* RetriesOf[c] is its r.retries or a.retries
  Deadline    \* TRUE: the context ends at a known time

ASSUME CallAssumption ==
  /\ CopyOf \in [Caller -> {"rpc", "eth"}]
  /\ RetriesOf \in [Caller -> Nat]
  /\ Deadline \in BOOLEAN

VARIABLES
  where,     \* where each caller is
  attempt,   \* by caller: the loop's variable
  pause,     \* by caller: base of its last pause
  panicked,  \* a caller panicked, and the program with it
  late       \* by caller: requests sent after the context was done

callVars == <<where, attempt, pause, panicked, late>>
vars == <<cancelled, callVars>>

Init ==
  /\ ContextInit
  /\ where = [c \in Caller |-> "idle"]
  /\ attempt = [c \in Caller |-> 0]
  /\ pause = [c \in Caller |-> 0]
  /\ panicked = FALSE
  /\ late = [c \in Caller |-> 0]

Goto(c, from, to) == where[c] = from /\ where' = [where EXCEPT ![c] = to]

-------------------------------------------------------------------------------
(* How long to sleep. *)

\* Mutant: the product is computed in 32 bits of milliseconds.
WrapsIn32(k) == k >= 13 /\ 500 >= 2 ^ (31 - k)

(***************************************************************************)
(* time.Duration(500*(1<<attempt)) * time.Millisecond in int64 is          *)
(* 1953125 * 2^(k+8) nanoseconds for attempt k, and 1953125 < 2^21: the    *)
(* first k at which it reaches 2^63 sets the sign bit.  Later ones do not  *)
(* matter, as no call gets there.  (Below k = 25 it is far from 2^63; the  *)
(* condition keeps the power in TLC's range.)                              *)
(***************************************************************************)
Wraps(k) == k >= 25 /\ 1953125 >= 2 ^ (55 - k)

\* The cap of 30 seconds, which a negative product slips under.
Cap == 60

Base(k) == IF Wraps(k) THEN -1 ELSE IF k >= 6 THEN Cap ELSE 2 ^ k

-------------------------------------------------------------------------------
(* Kinds of error: the provider says in words that calls come too fast;    *)
(* the bare status 429; a time limit; a connection cut; anything else.     *)

Error == {"limited", "status429", "timeout", "cut", "other"}

\* isRetryable: the two copies differ.
Retryable ==
  [rpc |-> {"limited", "timeout"},
   eth |-> {"limited", "status429", "timeout", "cut"}]

-------------------------------------------------------------------------------
(* The loop.                                                               *)

\* A call begins.  With a context that is done, it would end at the limiter.
Call(c) ==
  /\ ~cancelled
  /\ Goto(c, "idle", "limit")
  /\ UNCHANGED <<cancelled, attempt, pause, panicked, late>>

\* The call returns, with a result or an error; its variables are gone.
Return(c, from) ==
  /\ Goto(c, from, "idle")
  /\ attempt' = [attempt EXCEPT ![c] = 0]
  /\ pause' = [pause EXCEPT ![c] = 0]
  /\ UNCHANGED <<cancelled, panicked, late>>

\* The limiter's timer and ctx.Done() may both be ready: then either is taken.
LimiterAdmits(c) ==
  /\ Goto(c, "limit", "request")
  /\ late' = [late EXCEPT ![c] = IF cancelled THEN @ + 1 ELSE @]
  /\ UNCHANGED <<cancelled, attempt, pause, panicked>>

LimiterRefuses(c) == (cancelled \/ Deadline) /\ Return(c, "limit")

Answered(c) == Return(c, "request")

FailsForGood(c) ==
  /\ \E e \in Error : e \notin Retryable[CopyOf[c]]
  /\ Return(c, "request")

Pauses(c) ==
  /\ \E e \in Error : e \in Retryable[CopyOf[c]]
  /\ Base(attempt[c]) > 0
  /\ Goto(c, "request", "sleep")
  /\ pause' = [pause EXCEPT ![c] = Base(attempt[c])]
  /\ UNCHANGED <<cancelled, attempt, panicked, late>>

\* rand.Int63n does not take a bound that is not positive.
Panics(c) ==
  /\ \E e \in Error : e \in Retryable[CopyOf[c]]
  /\ Base(attempt[c]) <= 0
  /\ where[c] = "request"
  /\ panicked' = TRUE
  /\ UNCHANGED <<cancelled, where, attempt, pause, late>>

Interrupted(c) == cancelled /\ Return(c, "sleep")

\* Mutant: the loop runs once too often.
OnceMore(c) == attempt[c] <= RetriesOf[c]

MoreAttempts(c) == attempt[c] < RetriesOf[c]

\* Mutant: the limiter is waited for without the context.
GoesRoundUnchecked(c) ==
  /\ MoreAttempts(c)
  /\ Goto(c, "sleep", "limit")
  /\ attempt' = [attempt EXCEPT ![c] = @ + 1]
  /\ UNCHANGED <<cancelled, pause, panicked, late>>

\* Mutant: the attempt is not counted.
GoesRoundForEver(c) ==
  /\ ~cancelled
  /\ MoreAttempts(c)
  /\ Goto(c, "sleep", "limit")
  /\ UNCHANGED <<cancelled, attempt, pause, panicked, late>>

\* The pause is over: back to the limiter, which lets no call in that comes too late.
GoesRound(c) ==
  /\ ~cancelled
  /\ MoreAttempts(c)
  /\ Goto(c, "sleep", "limit")
  /\ attempt' = [attempt EXCEPT ![c] = @ + 1]
  /\ UNCHANGED <<cancelled, pause, panicked, late>>

\* The pause after the last attempt is slept through as well.
GivesUp(c) == ~MoreAttempts(c) /\ Return(c, "sleep")

-------------------------------------------------------------------------------
Step(c) ==
  /\ ~panicked
  /\ \/ LimiterAdmits(c)
     \/ LimiterRefuses(c)
     \/ Answered(c)
     \/ FailsForGood(c)
     \/ Pauses(c)
     \/ Panics(c)
     \/ Interrupted(c)
     \/ GoesRound(c)
     \/ GivesUp(c)

Next ==
  \/ \E c \in Caller : Step(c) \/ (~panicked /\ Call(c))
  \/ Cancel /\ UNCHANGED callVars

(***************************************************************************)
(* The limiter's turn comes, pauses end, and a request ends: RawRPC's HTTP *)
(* client has a time limit, of do it is an assumption about the node.      *)
(***************************************************************************)
Spec == Init /\ [][Next]_vars /\ \A c \in Caller : WF_vars(Step(c))

-------------------------------------------------------------------------------
(* Properties. *)

\* Requests of the call that failed, as far as another may follow.
Failed ==
  [c \in Caller |->
     IF where[c] = "sleep" /\ attempt[c] < RetriesOf[c]
       THEN attempt[c] + 1
       ELSE attempt[c]]

LoopOf(c) == INSTANCE Retry WITH Retries <- RetriesOf[c], attempt <- Failed

(***************************************************************************)
(* client.go:79-102, bloom-bench main.go:70-93.  The loop with its waits,  *)
(* refusals and interruptions is the one the benchmarks are modelled with: *)
(* attempts go up by one to the configured number, and start again from 0. *)
(***************************************************************************)
ImplementsRetry ==
  /\ \A c \in Caller : LoopOf(c)!RetryInit(Caller)
  /\ [][\E c \in Caller : LoopOf(c)!Returned(c) \/ LoopOf(c)!TryAgain(c)]_Failed

(***************************************************************************)
(* client.go:91-95.  Each pause has a base between half a second and the   *)
(* cap, and it takes 35 retries or more for the product to wrap around.    *)
(***************************************************************************)
PausesAreSound ==
  /\ \A c \in Caller : where[c] = "sleep" => pause[c] \in 1..Cap
  /\ panicked => \E c \in Caller : attempt[c] >= 35 /\ RetriesOf[c] >= 35

(***************************************************************************)
(* client.go:80,97.  When the context is done a call sends at most the one *)
(* request whose turn came at that very moment, however often it was to    *)
(* try again.                                                              *)
(***************************************************************************)
StopsWithContext == \A c \in Caller : late[c] <= 1

(***************************************************************************)
(* client.go:79-102.  Every call ends, also one that only ever fails and   *)
(* whose context never ends.                                               *)
(***************************************************************************)
EveryCallEnds == \A c \in Caller : where[c] # "idle" ~> (where[c] = "idle" \/ panicked)
=============================================================================
