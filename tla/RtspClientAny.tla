---------------------------- MODULE RtspClientAny ----------------------------
(***************************************************************************)
(* rtsp_client against any server: requests may be answered in any order,  *)
(* more than once, with any status, with a wrong CSeq or with none, and    *)
(* the connection may end at any time.                                     *)
(***************************************************************************)
EXTENDS RtspClient

CONSTANTS
    Responses,   \* responses the server gives, of the set Response
    MaxFlight    \* bound of the model: responses on their way

ASSUME AnyServerAssumption == Responses \subseteq Response /\ MaxFlight \in Nat

\* A response to a request that was sent, whatever was answered before.
Respond(r) ==
    /\ sock = "connected" /\ Len(toClient) < MaxFlight
    /\ \/ r.header # "ok"
       \/ \E i \in DOMAIN toServer : toServer[i].cseq = r.cseq
    /\ toClient' = Append(toClient, r)
    /\ UNCHANGED <<connectionVars, readers, sessionVars, optionVars, nextCseq, reported>>

PeerCloses ==
    /\ sock = "connected"
    /\ sock' = "ended"
    /\ UNCHANGED <<resolving, opener, again, second, unsent, toServer, toClient, readers,
                   sessionVars, optionVars, nextCseq, reported>>

Next == UserStep \/ ClientStep \/ PeerCloses \/ \E r \in Responses : Respond(r)
Spec == ClientInit /\ [][Next]_clientVars

-----------------------------------------------------------------------------
(* Properties.                                                             *)

\* Loops that there were, are, or will be: a second one if a call that was made
\* before the socket was open has connected it again.
Loops == IF again \in {"accepted", "mixed"} THEN 2 ELSE 1

\* However many calls found the socket closed and open it, there is one loop
\* that reads it, or will be; there are two, and never more, if the system has
\* accepted a second connect.
FewReaders == readers + Opening <= Loops

\* The handler of a request is called at most once, whatever duplicates, 1xx
\* responses and exceptions there are; one that has thrown can be called once
\* more, by a second loop.
HandledOnce == \A c \in CSeq : called[c] <= Loops

\* A client that is not in init has a receiver, and as long as none of its
\* loops has ended, that receiver is the one of the session it names in its
\* requests.
ReceiverMatches ==
    /\ state # "init" => receiver.session # NoSession
    /\ readers + Opening = Loops => receiver.session = identifier

\* The receiver reports to the handler that was set last, before or after it
\* was created.
StatisticsFollow == receiver # NoReceiver => receiver.statistics = statistics

\* Requests leave in the order of their CSeq, also those made while another
\* call was opening the connection.
RequestsInOrder ==
    LET wire == toServer \o unsent
    IN  \A i, j \in DOMAIN wire : i < j => wire[i].cseq < wire[j].cseq
=============================================================================
