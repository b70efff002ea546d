-------------------------- MODULE MCRtspServerState --------------------------
(* Instance of RtspServerState for TLC: every request and every SETUP. *)
EXTENDS RtspServerState

AllRequests == Request
AllSetupRequests == SetupRequest
=============================================================================
