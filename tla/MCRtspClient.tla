----------------------------- MODULE MCRtspClient -----------------------------
(* Instance of RtspClientAny for TLC. *)
EXTENDS RtspClientAny, TLC

\* Responses without the combinations that no handler tells apart.
AnyResponses ==
    {r \in Response :
       /\ r.header # "ok" => r.cseq = 0
       /\ r.header = "absent" => r.status = "error"
       /\ \/ r.status = "ok" /\ (r.session = NoSession => r.transport = "usable")
          \/ r.session = NoSession /\ r.transport = "absent"}

Symmetry == Permutations(SessionId)
=============================================================================
