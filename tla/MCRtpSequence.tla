---------------------------- MODULE MCRtpSequence ----------------------------
(* Instance of RtpSequence for TLC. *)
EXTENDS RtpSequence
=============================================================================
