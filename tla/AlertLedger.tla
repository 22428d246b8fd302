------------------------------ MODULE AlertLedger ------------------------------
(***************************************************************************)
(* What the Watcher promises about alerts, whatever the chain, the node    *)
(* and the webhooks do.  An alert is announced, and then open until it is  *)
(* either confirmed or retracted, never both.  A transaction has at most   *)
(* one open alert: a newer one takes the place of an older one, which then *)
(* gets no verdict.  When the process ends, open alerts are forgotten.     *)
(***************************************************************************)
EXTENDS Naturals

CONSTANTS
  Alert,     \* the possible alerts
  TxOf(_),   \* the transaction an alert is about
  Recheck    \* TRUE: alerts are checked again after some confirmations

VARIABLES
  open,      \* alerts announced, not judged and not replaced
  detected,  \* how often each alert was announced,
  confirmed, \* confirmed,
  reorged    \* and retracted

ledgerVars == <<open, detected, confirmed, reorged>>

Zero == [a \in Alert |-> 0]
Count(counter, a) == [counter EXCEPT ![a] = @ + 1]

Replacing(alerts, a) == {b \in alerts : TxOf(b) # TxOf(a)} \cup {a}

Init ==
  /\ open = {}
  /\ detected = Zero
  /\ confirmed = Zero
  /\ reorged = Zero

Announce(a) ==
  /\ detected' = Count(detected, a)
  /\ open' = IF Recheck THEN Replacing(open, a) ELSE open
  /\ UNCHANGED <<confirmed, reorged>>

Confirm(a) ==
  /\ a \in open
  /\ open' = open \ {a}
  /\ confirmed' = Count(confirmed, a)
  /\ UNCHANGED <<detected, reorged>>

Retract(a) ==
  /\ a \in open
  /\ open' = open \ {a}
  /\ reorged' = Count(reorged, a)
  /\ UNCHANGED <<detected, confirmed>>

Forget ==
  /\ open' = {}
  /\ UNCHANGED <<detected, confirmed, reorged>>

Next ==
  \/ \E a \in Alert : Announce(a) \/ Confirm(a) \/ Retract(a)
  \/ Forget

Spec == Init /\ [][Next]_ledgerVars

-------------------------------------------------------------------------------
\* An announcement gets at most one verdict, and an open alert none yet.
OneVerdictEach ==
  \A a \in Alert :
    confirmed[a] + reorged[a] + (IF a \in open THEN 1 ELSE 0) <= detected[a]
=============================================================================
