------------------------------ MODULE MCBroadcast ------------------------------
(***************************************************************************)
(* Two browsers, one of which can stall, close or connect during a         *)
(* broadcast to the other, and two cycles of the agent.                    *)
(***************************************************************************)
EXTENDS Broadcast
=============================================================================
