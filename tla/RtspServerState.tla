--------------------------- MODULE RtspServerState ---------------------------
(***************************************************************************)
(* rtsp_server_state (rtsp_server_internals.cpp) with the RTSP methods     *)
(* (rtsp_methods.cpp): the session table, the index of sessions by host    *)
(* and what every request and host timeout does to both.                   *)
(*                                                                         *)
(* Everything that touches the table holds sessions_mutex_, so an action   *)
(* is one call of handle_incoming_request or handle_timeout_of_host.  A    *)
(* request is reduced to what the checks of the code tell apart; the RTP   *)
(* sender to the port it bound and the host it sends to (RtpSender models  *)
(* its life).  Session identifiers are random UUIDs: "never issued before" *)
(* is an assumption about the generator.                                   *)
(***************************************************************************)
EXTENDS Naturals

CONSTANTS
    Host, SessionId, Port,
    NoSession, NoHost, NoPort,
    Requests,       \* requests that can arrive, of the set Request
    SetupRequests   \* what a SETUP can ask for, of the set SetupRequest

\* What handle_incoming_request tells apart in a request.
Request ==
    [cseq: BOOLEAN,
     method: {"OPTIONS", "DESCRIBE", "SETUP", "PLAY", "PAUSE", "TEARDOWN", "other"},
     session: SessionId \cup {NoSession}]

\* What methods::setup can tell apart in a request: the Require header with
\* the option header it calls for, the Transport header (portRange: a usable
\* one that proposes a range of server ports), whether the file exists, and
\* the server port that results from the negotiation.
SetupRequest ==
    [require: {"absent", "unparsable", "unsupported", "headerMissing",
               "headerUnparsable", "mkn"},
     transport: {"absent", "unparsable", "unacceptable", "portRange", "ok"},
     found: BOOLEAN,
     port: Port]

ASSUME ServerAssumption ==
    /\ NoSession \notin SessionId
    /\ NoHost \notin Host
    /\ NoPort \notin Port
    /\ Requests \subseteq Request
    /\ SetupRequests \subseteq SetupRequest

VARIABLES
    sessions,  \* sessions_: the record of every identifier, Absent if none
    byHost,    \* sessions__by_host_, as a set of <<host, identifier>>
    issued,    \* identifiers generated so far
    reply      \* the last response returned, NoReply if the call threw

stateVars == <<sessions, byHost, issued, reply>>

SessionState == {"absent", "init", "ready", "playing"}

\* state_, last_seen_request_address, and of rtp_session the bound port and
\* the destination host (NoPort and NoHost: rtp_session is null).
Session == [state: SessionState, addr: Host \cup {NoHost},
            port: Port \cup {NoPort}, dest: Host \cup {NoHost}]

Absent == [state |-> "absent", addr |-> NoHost, port |-> NoPort, dest |-> NoHost]
Live == {id \in SessionId : sessions[id].state # "absent"}

Status == {200, 400, 404, 454, 455, 459, 461, 501, 551}
Reply(status, id) == [status |-> status, session |-> id]
NoReply == Reply(0, NoSession)

TypeOK ==
    /\ sessions \in [SessionId -> Session]
    /\ byHost \subseteq Host \X SessionId
    /\ issued \subseteq SessionId
    /\ reply \in [status: Status \cup {0}, session: SessionId \cup {NoSession}]

Init ==
    /\ sessions = [id \in SessionId |-> Absent]
    /\ byHost = {}
    /\ issued = {}
    /\ reply = NoReply

\* The status of the first check that fails: a chain of early returns.
FirstFailure(checks, passed) ==
    LET failed == {i \in DOMAIN checks : checks[i].fails}
    IN  IF failed = {} THEN passed
        ELSE checks[CHOOSE i \in failed : \A j \in failed : i <= j].status

-----------------------------------------------------------------------------
(* The methods of rtsp_methods.cpp: the session they leave, the status.    *)

\* The early returns of methods::setup, in the order of the code.
SetupChecks(s, req) ==
    << [fails |-> req.require = "unparsable",                      status |-> 400],
       [fails |-> req.require = "unsupported",                     status |-> 551],
       [fails |-> req.require = "headerMissing",                   status |-> 400],
       [fails |-> req.require = "headerUnparsable",                status |-> 400],
       [fails |-> req.transport = "unparsable",                    status |-> 400],
       [fails |-> req.transport \in {"absent", "unacceptable"},    status |-> 461],
       [fails |-> s.state # "init",                                status |-> 455],
       [fails |-> ~req.found,                                      status |-> 404] >>

SetupStatus(s, req) == FirstFailure(SetupChecks(s, req), 200)

\* Past the checks the call can still throw: boost::get finds a range where
\* it expects one port, or the constructor of the sender cannot bind it.
BoundPorts == {sessions[id].port : id \in SessionId} \ {NoPort}
SetupThrows(req) == req.transport = "portRange" \/ req.port \in BoundPorts

\* Mutant of SetupSession: the session is ready before the sender exists.
SetupReadyFirst(s, req) ==
    IF SetupStatus(s, req) # 200 THEN s
    ELSE IF SetupThrows(req) THEN [s EXCEPT !.state = "ready"]
    ELSE [s EXCEPT !.state = "ready", !.port = req.port, !.dest = s.addr]

SetupSession(s, req) ==
    IF SetupStatus(s, req) = 200 /\ ~SetupThrows(req)
    THEN [s EXCEPT !.state = "ready", !.port = req.port, !.dest = s.addr]
    ELSE s

\* Mutant of PlaySession: a session whose SETUP failed can be played.
PlayAnything(s) == IF s.state # "playing" THEN [s EXCEPT !.state = "playing"] ELSE s

PlayStatus(s) == IF s.state \in {"playing", "ready"} THEN 200 ELSE 455
PlaySession(s) == IF s.state = "ready" THEN [s EXCEPT !.state = "playing"] ELSE s

PauseStatus(s) == IF s.state = "playing" THEN 200 ELSE 455
PauseSession(s) == IF s.state = "playing" THEN [s EXCEPT !.state = "ready"] ELSE s

\* The sender is destroyed with the session.
TeardownSession(s) == Absent

-----------------------------------------------------------------------------
(* handle_incoming_request.                                                *)

Answer(status, id) == reply' = Reply(status, id)

\* The branches that answer without looking at the table, in their order:
\* missing CSeq, OPTIONS, DESCRIBE, SETUP inside a session, any other method
\* outside one, a method that is not implemented.
RequestChecks(req) ==
    << [fails |-> ~req.cseq,                                         status |-> 400],
       [fails |-> req.method = "OPTIONS",                            status |-> 200],
       [fails |-> req.method = "DESCRIBE",                           status |-> 501],
       [fails |-> req.method = "SETUP" /\ req.session # NoSession,   status |-> 459],
       [fails |-> req.method # "SETUP" /\ req.session = NoSession,   status |-> 400],
       [fails |-> req.method = "other",                              status |-> 501] >>

UsesTable(req) == FirstFailure(RequestChecks(req), 0) = 0

AnswerEarly(req) ==
    /\ ~UsesTable(req)
    /\ Answer(FirstFailure(RequestChecks(req), 0), NoSession)
    /\ UNCHANGED <<sessions, byHost, issued>>

\* Mutant of Setup: the session is not indexed by its host.
SetupUnindexed(h, id, req) ==
    /\ id \notin issued
    /\ issued' = issued \cup {id}
    /\ UNCHANGED byHost
    /\ LET new == [Absent EXCEPT !.state = "init", !.addr = h]
       IN  /\ sessions' = [sessions EXCEPT ![id] = SetupSession(new, req)]
           /\ reply' = Reply(SetupStatus(new, req), id)

\* SETUP of a new session: it enters both tables before the checks, and stays
\* in them when a check fails or the call throws.
Setup(h, id, req) ==
    /\ id \notin issued
    /\ issued' = issued \cup {id}
    /\ byHost' = byHost \cup {<<h, id>>}
    /\ LET new == [Absent EXCEPT !.state = "init", !.addr = h]
           status == SetupStatus(new, req)
       IN  /\ sessions' = [sessions EXCEPT ![id] = SetupSession(new, req)]
           /\ reply' = IF status = 200 /\ SetupThrows(req)
                       THEN NoReply ELSE Reply(status, id)

\* PLAY, PAUSE or TEARDOWN with an identifier that is not in the table.
UnknownSession(id) ==
    /\ id \notin Live
    /\ Answer(454, NoSession)
    /\ UNCHANGED <<sessions, byHost, issued>>

\* The same with one that is: any host may use it, the last one is remembered.
AddressedBy(h, id) == [sessions[id] EXCEPT !.addr = h]
InSession(id, session, status) ==
    /\ id \in Live
    /\ sessions' = [sessions EXCEPT ![id] = session]
    /\ Answer(status, id)
    /\ UNCHANGED <<byHost, issued>>

Play(h, id) == InSession(id, PlaySession(AddressedBy(h, id)), PlayStatus(sessions[id]))
Pause(h, id) == InSession(id, PauseSession(AddressedBy(h, id)), PauseStatus(sessions[id]))
Teardown(h, id) == InSession(id, TeardownSession(AddressedBy(h, id)), 200)

-----------------------------------------------------------------------------
(* handle_timeout_of_host: every session indexed under the host goes.      *)

OfHost(h) == {id \in SessionId : <<h, id>> \in byHost}

\* Mutants of HostTimeout: the index is emptied and the table is not; only the
\* first session that is found goes.
HostTimeoutIndexOnly(h) ==
    /\ byHost' = {e \in byHost : e[1] # h}
    /\ UNCHANGED <<sessions, issued, reply>>
HostTimeoutFirst(h) ==
    /\ OfHost(h) # {}
    /\ LET first == CHOOSE id \in OfHost(h) : TRUE
       IN  /\ sessions' = [sessions EXCEPT ![first] = Absent]
           /\ byHost' = byHost \ {<<h, first>>}
    /\ UNCHANGED <<issued, reply>>

HostTimeout(h) ==
    /\ sessions' = [id \in SessionId |-> IF id \in OfHost(h) THEN Absent ELSE sessions[id]]
    /\ byHost' = {e \in byHost : e[1] # h}
    /\ UNCHANGED <<issued, reply>>

HandleRequest(h, req) ==
    \/ AnswerEarly(req)
    \/ /\ UsesTable(req)
       /\ \/ /\ req.method = "SETUP"
             /\ \E id \in SessionId, setup \in SetupRequests : Setup(h, id, setup)
          \/ req.method # "SETUP" /\ UnknownSession(req.session)
          \/ req.method = "PLAY" /\ Play(h, req.session)
          \/ req.method = "PAUSE" /\ Pause(h, req.session)
          \/ req.method = "TEARDOWN" /\ Teardown(h, req.session)

Next == \E h \in Host : HostTimeout(h) \/ \E req \in Requests : HandleRequest(h, req)

Spec == Init /\ [][Next]_stateVars

-----------------------------------------------------------------------------
(* Properties.                                                             *)

\* A session that PLAY or PAUSE would act on has its RTP sender: rtp_session
\* is never dereferenced while null, although a SETUP that failed or threw
\* leaves its session in the table.
SenderPresent ==
    \A id \in SessionId :
        sessions[id].state \in {"ready", "playing"} <=> sessions[id].port # NoPort

\* A stream goes to the host its session is indexed under, also after another
\* host has used the session: the timeout of the receiving host ends it.
StreamsIndexed ==
    \A id \in SessionId :
        sessions[id].port # NoPort => <<sessions[id].dest, id>> \in byHost

\* Every session in the table can still be reached by one host's timeout, and
\* by one only, however many other sessions have come and gone.
IndexComplete ==
    \A id \in Live : \E h \in Host : \A g \in Host : <<g, id>> \in byHost <=> g = h

\* The table implements the life cycle of RtspSession.
Phase(id) == CASE id \notin issued -> "fresh"
               [] id \in issued /\ id \notin Live -> "gone"
               [] OTHER -> sessions[id].state

Life == INSTANCE RtspSession WITH phase <- [id \in SessionId |-> Phase(id)]

\* Every session moves fresh -> (init | ready <-> playing) -> gone: a failed
\* SETUP is never repaired, and no identifier comes back.
SessionLife == Life!Spec

\* Sessions leave the table in two ways: one alone, by a TEARDOWN that names
\* it, or all that are indexed under one host together and no others.
LeaveTogether ==
    [][Live \ Live' # {} =>
         \/ \E id \in SessionId : Live \ Live' = {id} /\ reply' = Reply(200, id)
         \/ \E h \in Host : Live \ Live' = OfHost(h) \cap Live]_stateVars
=============================================================================
