---------------------------- MODULE MCNestedTas ----------------------------
(* Constants for model-checking the TAs that open sessions. *)
EXTENDS NestedTas, TLC

CONSTANTS h1, h2

\* One thread calls all TAs, the other one shares the single instances with it.
MCUses == (h1 :> {"sims", "miss", "rpc_test", "sdp_basic", "key"}) @@ (h2 :> {"sims", "sims_keepalive"})
=============================================================================
