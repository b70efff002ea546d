--------------------------- MODULE MCRtspTransport ---------------------------
(* Instance of RtspTransport for TLC: one offered specification, alone or   *)
(* behind one that the server cannot use.                                   *)
EXTENDS RtspTransport

Unusable == [rtp |-> TRUE, parameters |-> <<Other>>]
AllOffers == {<<s>> : s \in TransportSpec} \cup {<<Unusable, s>> : s \in TransportSpec}
=============================================================================
