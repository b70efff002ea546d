----------------------------- MODULE MCRtpSender -----------------------------
(* Instance of RtpSender for TLC. *)
EXTENDS RtpSender
=============================================================================
