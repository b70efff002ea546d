--------------------------- MODULE MCRtspServerPool ---------------------------
(* Instance of RtspServerPool for TLC. *)
EXTENDS RtspServerPool
===============================================================================
