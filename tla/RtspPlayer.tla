----------------------------- MODULE RtspPlayer ------------------------------
(***************************************************************************)
(* The player (jpeg_rtsp_player.cpp), its client and the server's session  *)
(* table: what the six buttons do to sessions at the other end.            *)
(*                                                                         *)
(* Setup, Option and Describe make a new client each; the old one is       *)
(* destroyed and its connection closed, without TEARDOWN.  The server's    *)
(* side of a connection is reduced to its read loop and its idle timer,    *)
(* whose races RtspServer models, and responses arrive one by one, which   *)
(* TcpResponse does not promise; a call and its run by the client's strand *)
(* are one step.                                                           *)
(***************************************************************************)
EXTENDS RtspClient, FiniteSets

CONSTANTS
    TheHost, NoHost, Port, NoPort,
    Presses,      \* buttons that are pressed, of the set Method
    MknOptions,   \* settings of the box mkn_options, a subset of BOOLEAN
    MaxClients,   \* bound of the model: clients created
    Calls         \* bound of the model: calls of each of them

ASSUME PlayerAssumption ==
    /\ NoHost # TheHost /\ NoPort \notin Port
    /\ Presses \subseteq Method /\ MknOptions \subseteq BOOLEAN
    /\ MaxClients \in Nat /\ MaxCalls # 0
    /\ Calls \in [1..MaxClients -> 0..MaxCalls]

\* What the client's SETUP is to the server: a single client port, options it
\* knows (or none, which is the same to it), a file that exists or not, and any
\* server port.
SetupRequests ==
    [require: {"mkn"}, transport: {"ok"}, found: BOOLEAN, port: Port]
Requests ==
    [cseq: {TRUE}, method: Method, session: SessionId \cup {NoSession}]

VARIABLES
    sessions, byHost, issued, reply,   \* rtsp_server_state
    serving,     \* the server reads the client's connection
    old,         \* the connection that the n-th client replaced
    mine,        \* history: sessions set up for the current client
    clients,     \* clients created
    crashed      \* a call through a null rtsp_client_

tableVars == <<sessions, byHost, issued, reply>>
playerVars == <<mine, clients, crashed>>
vars == <<clientVars, tableVars, serving, old, playerVars>>

Server == INSTANCE RtspServerState WITH Host <- {TheHost}

Live == Server!Live

\* A connection whose client is gone, at the server: "none" if there is nothing
\* left of it; "answered" once a response has been sent that the client has not
\* read, which a closed socket answers with a reset; the requests that are still
\* to be read; history: the sessions that were set up over it.
OldConnection ==
    [socket: {"none", "closed", "answered", "reset"}, requests: Seq(Request),
     sessions: SUBSET SessionId]
NoConnection == [socket |-> "none", requests |-> <<>>, sessions |-> {}]

Init ==
    /\ ClientInit /\ Server!Init
    /\ serving = FALSE /\ old = [n \in 1..MaxClients |-> NoConnection]
    /\ mine = {} /\ clients = 0 /\ crashed = FALSE

-----------------------------------------------------------------------------
(* The server.                                                             *)

\* A request whose session header is empty: TEARDOWN before any SETUP was
\* answered.  Skipping the white space of the empty value skips the end of the
\* header as well.
NoIdentifier(req) == req.method \in {"PLAY", "PAUSE", "TEARDOWN"} /\ req.session = NoSession

Refusal(header, cseq) ==
    [header |-> header, cseq |-> cseq, status |-> "error", session |-> NoSession,
     transport |-> "absent"]

\* A request handled by the session table, for the current client or not.
Handled(req) ==
    Server!HandleRequest(TheHost, [cseq |-> TRUE, method |-> req.method, session |-> req.session])

\* The response; "unusable" if the client cannot read the ssrc, or cannot bind
\* the port it had chosen.
Answered(req) ==
    \E t \in {"usable", "unusable"} :
        toClient' = Append(toClient,
            [header |-> "ok", cseq |-> req.cseq,
             status |-> IF reply'.status = 200 THEN "ok" ELSE "error",
             session |-> reply'.session,
             transport |-> IF req.method = "SETUP" /\ reply'.status = 200 THEN t ELSE "absent"])

\* header_read of the server with the client's next request.
ServerReads ==
    LET req == Head(toServer)
    IN  /\ serving /\ sock = "connected" /\ toServer # <<>>
        /\ ~NoIdentifier(req)
        /\ Handled(req)
        /\ toServer' = Tail(toServer)
        /\ mine' = mine \cup (issued' \ issued)
        /\ serving' = (reply'.status # 0)
        /\ IF reply'.status # 0 THEN Answered(req) ELSE UNCHANGED toClient
        /\ UNCHANGED <<linkVars, unsent, readers, sessionVars, optionVars, nextCseq,
                       reported, old, clients, crashed>>

\* The same without an identifier.  Alone in the buffer the request cannot be
\* parsed and is refused without a CSeq; otherwise the request line that
\* follows becomes the value of the header, and the two are one request for an
\* unknown session (or, the second being of the same kind, unparsable).
ServerReadsUnidentified(n) ==
    /\ serving /\ sock = "connected" /\ n <= Len(toServer)
    /\ NoIdentifier(Head(toServer))
    /\ toServer' = SubSeq(toServer, n + 1, Len(toServer))
    /\ toClient' = Append(toClient,
                          IF NoIdentifier(toServer[n]) THEN Refusal("absent", 0)
                          ELSE Refusal("ok", Head(toServer).cseq))
    /\ UNCHANGED <<linkVars, unsent, readers, sessionVars, optionVars, nextCseq, reported,
                   tableVars, serving, old, playerVars>>

\* Requests that were under way when their client was destroyed.  A handler that
\* throws reads no more; every response goes to a closed socket.
OldReads(n) ==
    LET c == old[n]
    IN  /\ c.requests # <<>>
        /\ \/ /\ NoIdentifier(Head(c.requests))
              /\ \E k \in DOMAIN c.requests :
                    old' = [old EXCEPT ![n] = [@ EXCEPT
                              !.requests = SubSeq(c.requests, k + 1, Len(c.requests)),
                              !.socket = "answered"]]
              /\ UNCHANGED tableVars
           \/ /\ ~NoIdentifier(Head(c.requests))
              /\ Handled(Head(c.requests))
              /\ old' = [old EXCEPT ![n] =
                    [socket |-> IF reply'.status = 0 THEN c.socket ELSE "answered",
                     requests |-> IF reply'.status = 0 THEN <<>> ELSE Tail(c.requests),
                     sessions |-> c.sessions \cup (issued' \ issued)]]
        /\ UNCHANGED <<clientVars, serving, playerVars>>

\* The reset arrives: remote_endpoint() throws from now on, so that no request
\* is handled any more, and the timer deletes nothing.
OldReset(n) ==
    /\ old[n].socket = "answered"
    /\ old' = [old EXCEPT ![n] = [@ EXCEPT !.socket = "reset", !.requests = <<>>]]
    /\ UNCHANGED <<clientVars, tableVars, serving, playerVars>>

\* Mutant of IdleTimeout: the timer is armed by the read loop.
IdleTimeoutServing ==
    /\ sock = "connected" /\ toServer = <<>> /\ serving
    /\ Server!HostTimeout(TheHost)
    /\ sock' = "ended" /\ serving' = FALSE
    /\ UNCHANGED <<resolving, opener, again, second, unsent, toServer, toClient, readers,
                   sessionVars, optionVars, nextCseq, reported, old, playerVars>>

\* The idle timer of the client's connection: no request for a whole period.
IdleTimeout ==
    /\ sock = "connected" /\ (toServer = <<>> \/ ~serving)
    /\ Server!HostTimeout(TheHost)
    /\ sock' = "ended" /\ serving' = FALSE /\ toServer' = <<>>
    /\ UNCHANGED <<resolving, opener, again, second, unsent, toClient, readers, sessionVars,
                   optionVars, nextCseq, reported, old, playerVars>>

\* Mutant of OldTimeout: a connection that the peer has closed is forgotten.
OldTimeoutForgets(n) ==
    /\ old[n].socket \in {"closed", "answered"} /\ old[n].requests = <<>>
    /\ old' = [old EXCEPT ![n].socket = "none"]
    /\ UNCHANGED <<clientVars, tableVars, serving, playerVars>>

\* The idle timer of a connection whose client is gone takes the sessions of
\* the host, the current client's too.
OldTimeout(n) ==
    /\ old[n].socket \in {"closed", "answered"} /\ old[n].requests = <<>>
    /\ old' = [old EXCEPT ![n].socket = "none"]
    /\ Server!HostTimeout(TheHost)
    /\ UNCHANGED <<clientVars, serving, playerVars>>

-----------------------------------------------------------------------------
(* The player.                                                             *)

\* Bound of the model: identifiers left for the SETUPs that are under way.
IsSetup(req) == req.method = "SETUP"
OldSetups ==
    {at \in (1..MaxClients) \X (1..MaxCalls) :
        at[2] <= Len(old[at[1]].requests) /\ IsSetup(old[at[1]].requests[at[2]])}
Setups ==
    Len(SelectSeq(toServer \o unsent, IsSetup)) + Cardinality(OldSetups)
      + Len(SelectSeq(resolving \o <<opener, second>>, LAMBDA m : m = "SETUP"))
Spare(m) == m = "SETUP" => Cardinality(issued) + Setups < Cardinality(SessionId)

\* What the destructor of the client leaves of its connection.  A response that
\* has not been read yet is answered with a reset, unless it is buffered; one
\* that is being opened may have been accepted.
LeftSocket ==
    CASE sock = "connected" /\ toClient = <<>> -> {"closed"}
      [] sock = "connected" /\ toClient # <<>> -> {"closed", "answered"}
      [] sock = "connecting"                    -> {"none", "closed"}
      [] OTHER                                  -> {"none"}

\* ~rtsp_client and the construction of the next client, whose first call m
\* finds the socket closed.
ReplaceClient(m, options) ==
    /\ clients < MaxClients
    /\ clients' = clients + 1
    /\ \E left \in LeftSocket :
          old' = [old EXCEPT ![clients'] =
                    [socket |-> left, sessions |-> mine,
                     requests |-> IF sock = "connected" /\ serving THEN toServer ELSE <<>>]]
    /\ sock' = "closed" /\ resolving' = <<m>>
    /\ opener' = NoMethod /\ again' = "refused" /\ second' = NoMethod
    /\ unsent' = <<>> /\ toServer' = <<>> /\ toClient' = <<>> /\ readers' = 0
    /\ state' = "init" /\ identifier' = NoSession /\ receiver' = NoReceiver
    /\ statistics' = TRUE /\ mkn' = options
    /\ nextCseq' = 0 /\ reported' = FALSE
    /\ outstanding' = [c \in CSeq |-> NoMethod] /\ called' = [c \in CSeq |-> 0]
    /\ serving' = FALSE /\ mine' = {}
    /\ UNCHANGED <<tableVars, crashed>>

\* The call m of the client that is there; setup gives it the options first,
\* and never takes them back.
CallCurrent(m, options) ==
    /\ nextCseq + Len(resolving) + Opening < Calls[clients]
    /\ mkn' = (mkn \/ (m = "SETUP" /\ options))
    /\ Called(m) /\ UNCHANGED <<toClient, readers, statistics>>
    /\ UNCHANGED <<tableVars, serving, old, playerVars>>

\* Setup, Option, Describe with a URL that the new client accepts.
PressNew(m, options) ==
    /\ m \in {"SETUP", "OPTIONS", "DESCRIBE"} /\ Spare(m)
    /\ ReplaceClient(m, m = "SETUP" /\ options)

\* The same with a URL that its constructor throws on: the call goes to the
\* client that is there, through a null pointer if there is none.
PressBadUrl(m, options) ==
    /\ m \in {"SETUP", "OPTIONS", "DESCRIBE"} /\ Spare(m)
    /\ IF clients = 0
       THEN /\ crashed' = TRUE
            /\ UNCHANGED <<clientVars, tableVars, serving, old, mine, clients>>
       ELSE CallCurrent(m, options)

\* Play, Pause, Teardown: nothing without a client.
PressCurrent(m) ==
    m \in {"PLAY", "PAUSE", "TEARDOWN"} /\ clients > 0 /\ CallCurrent(m, FALSE)

\* The client's own steps; a new connection is read by the server.
ClientRuns ==
    /\ ClientStep
    /\ serving' = (serving \/ (sock # "connected" /\ sock' = "connected"))
    /\ UNCHANGED <<tableVars, old, playerVars>>

ConnectionStep ==
    ServerReads \/ IdleTimeout \/ \E n \in 1..MaxCalls : ServerReadsUnidentified(n)
OldConnectionStep ==
    \E n \in 1..MaxClients : OldReads(n) \/ OldReset(n) \/ OldTimeout(n)

Next ==
    /\ ~crashed
    /\ \/ \E m \in Presses :
             \/ PressCurrent(m)
             \/ \E options \in MknOptions : PressNew(m, options) \/ PressBadUrl(m, options)
       \/ ClientRuns \/ ConnectionStep \/ OldConnectionStep

Spec == Init /\ [][Next]_vars

\* The io threads of both sides run what is due, requests that were sent arrive,
\* and idle timers expire.  Nothing makes the user press a button.
FairSpec ==
    /\ Spec
    /\ WF_vars(ClientRuns) /\ WF_vars(ConnectionStep) /\ WF_vars(OldConnectionStep)

-----------------------------------------------------------------------------
(* Properties.                                                             *)

Quiet ==
    /\ resolving = <<>> /\ opener = NoMethod /\ second = NoMethod
    /\ unsent = <<>> /\ toServer = <<>> /\ toClient = <<>>
    /\ \A c \in CSeq : outstanding[c] = NoMethod

\* When all calls are answered the client is in the state its session is in at
\* the server, however the calls were pipelined, unless it set up several
\* sessions or the session has timed out.
StatesAgree ==
    Quiet /\ mine \subseteq {identifier} /\ identifier \in Live
        => sessions[identifier].state = state

\* A session whose client was replaced is deleted in the end, also when its
\* SETUP was still under way, unless its connection was reset by a response that
\* came after the client had gone.
AbandonedReclaimed ==
    \A id \in SessionId :
        (id \in Live /\ id \notin mine)
            ~> (id \notin Live
                \/ \E n \in 1..MaxClients : id \in old[n].sessions /\ old[n].socket = "reset")

\* No loop reads what the client receives, and none will.
Deaf == resolving = <<>> /\ opener = NoMethod /\ second = NoMethod /\ readers = 0

\* A request that was sent is answered, or the client stops listening and shows
\* that, or it is replaced; also when the server's handler has thrown and reads
\* no more.  (What is sent by a client that listens no more is never answered,
\* and no further error is shown.)
NoRequestHangs ==
    \A c \in CSeq :
        outstanding[c] # NoMethod ~> (outstanding[c] = NoMethod \/ (Deaf /\ reported))
=============================================================================
