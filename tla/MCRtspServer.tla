----------------------------- MODULE MCRtspServer -----------------------------
(* Instance of RtspServer for TLC.  The checks of a request are the subject *)
(* of MCRtspServerState; here a SETUP succeeds, fails or throws.            *)
EXTENDS RtspServer

SomeRequests ==
    {r \in Request : /\ r.cseq
                     /\ \/ r.method = "SETUP" /\ r.session = NoSession
                        \/ r.method \in {"PLAY", "TEARDOWN"} /\ r.session # NoSession
                        \/ r.method = "OPTIONS" /\ r.session = NoSession}

SomeSetupRequests ==
    {r \in SetupRequest : /\ r.require = "absent"
                          /\ r.transport \in {"ok", "portRange"}
                          /\ r.transport = "portRange" => r.found}
=============================================================================
