------------------------------ MODULE MCLlmGuard ------------------------------
(***************************************************************************)
(* The guard on two callers: one request can fail, succeed or be limited   *)
(* while another is in flight.  Small units: a pause of two ticks, a       *)
(* Retry-After of one or three, a budget of two tokens.                    *)
(***************************************************************************)
EXTENDS LlmGuard
=============================================================================
