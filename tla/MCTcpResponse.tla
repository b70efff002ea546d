---------------------------- MODULE MCTcpResponse ----------------------------
(* Instance of TcpResponse for TLC. *)
EXTENDS TcpResponse
=============================================================================
