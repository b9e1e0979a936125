-------------------------- MODULE MCTerminalProxy --------------------------
(* The WebSocket proxy for TLC. *)
EXTENDS TerminalProxy
=============================================================================
