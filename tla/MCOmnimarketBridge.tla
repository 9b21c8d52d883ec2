-------------------------- MODULE MCOmnimarketBridge --------------------------
(***************************************************************************)
(* Instances of OmnimarketBridge for TLC: two calls of different limits.  *)
(***************************************************************************)
EXTENDS OmnimarketBridge, TLC

CONSTANTS ticket, ci

MCCall == {ticket, ci}
MCToolOf == ticket :> "run_ticket_pipeline" @@ ci :> "run_ci_watch"

=============================================================================
