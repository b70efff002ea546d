------------------------------ MODULE MCRtpMedia ------------------------------
(* Instance of RtpMedia for TLC. *)
EXTENDS RtpMedia
=============================================================================
