----------------------------- MODULE PriceService -----------------------------
(***************************************************************************)
(* What the price cache promises to the Watcher: a price, once known,      *)
(* stays available; a token that is asked for without success is wanted    *)
(* until a request that names it is sent; only answers make prices known.  *)
(***************************************************************************)
EXTENDS Context

CONSTANT Token

VARIABLES
  known,   \* tokens PriceInETH has a price for
  wanted,  \* tokens to ask the price provider for
  asked    \* tokens of the request under way

serviceVars == <<known, wanted, asked>>

ServiceInit ==
  /\ known = {}
  /\ wanted = {}
  /\ asked = {}

\* PriceInETH has no price for t.
Want(t) ==
  /\ t \notin known
  /\ wanted' = wanted \cup {t}
  /\ UNCHANGED <<known, asked>>

\* A request names wanted tokens, and known ones whose price is old.
Send ==
  /\ asked = {}
  /\ asked' \in (SUBSET (wanted \cup known)) \ {{}}
  /\ wanted' \in SUBSET wanted
  /\ wanted \subseteq wanted' \cup asked'
  /\ UNCHANGED known

\* The request ends, with prices for some or none of its tokens.
Answer ==
  /\ asked # {}
  /\ known' \in {known \cup priced : priced \in SUBSET asked}
  /\ asked' = {}
  /\ UNCHANGED wanted

\* When the service shuts down the requests still to be made are dropped.
Abandon ==
  /\ cancelled
  /\ wanted' \in SUBSET wanted
  /\ asked' = {}
  /\ UNCHANGED known

ServiceStep == Send \/ Answer \/ Abandon

ServiceNext ==
  \/ (\E t \in Token : Want(t)) /\ UNCHANGED cancelled
  \/ ServiceStep /\ UNCHANGED cancelled
  \/ Cancel /\ UNCHANGED serviceVars

ServiceSpec ==
  ContextInit /\ ServiceInit /\ [][ServiceNext]_<<cancelled, serviceVars>>
=============================================================================
