------------------------------- MODULE Context -------------------------------
(***************************************************************************)
(* The context.Context that app.Run creates and every goroutine of the     *)
(* service receives.  The signal that ends the service cancels it, once    *)
(* and for all.                                                            *)
(***************************************************************************)
VARIABLE cancelled  \* ctx.Done() is closed

ContextInit == cancelled = FALSE

(***************************************************************************)
(* SIGINT or SIGTERM: app.Run returns and its deferred cancel runs.        *)
(***************************************************************************)
Cancel ==
  /\ ~cancelled
  /\ cancelled' = TRUE
=============================================================================
