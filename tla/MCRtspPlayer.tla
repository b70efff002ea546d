----------------------------- MODULE MCRtspPlayer -----------------------------
(* Instance of RtspPlayer for TLC. *)
EXTENDS RtspPlayer

\* The client that is replaced makes the longer pipeline of calls.
CallsOfClients == <<3, 2>>
=============================================================================
