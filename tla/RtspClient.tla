----------------------------- MODULE RtspClient ------------------------------
(***************************************************************************)
(* rtsp_client (rtsp_client.cpp): the six calls, the connection they open  *)
(* on demand, the table of outstanding requests and the read loop.         *)
(*                                                                         *)
(* Every handler is bound to strand_ and every call is dispatched to it,   *)
(* so an action is one function run by the strand.  An exception leaves    *)
(* context.run() and is given to error_handler_ (io_run_loop), which goes  *)
(* on; what the function had not done yet is not done.                     *)
(*                                                                         *)
(* External: the resolver answers in the order it was asked; is_open() is  *)
(* true from async_connect on, for good; what is sent while the socket     *)
(* connects goes out as soon as it is connected, or fails with it.         *)
(* connect() fails on a socket that is connecting, and on one that is      *)
(* connected, except that on Linux the first call after a non-blocking     *)
(* connect has completed returns 0: the async_connect of another call then *)
(* succeeds as well.                                                       *)
(***************************************************************************)
EXTENDS Naturals, Sequences

CONSTANTS
    SessionId, NoSession,
    Methods,     \* methods the user calls, of the set Method
    MaxCalls     \* bound of the model: requests sent

Method == {"OPTIONS", "DESCRIBE", "SETUP", "PLAY", "PAUSE", "TEARDOWN"}
NoMethod == "none"
CSeq == 0..(MaxCalls - 1)

ASSUME ClientAssumption ==
    /\ NoSession \notin SessionId
    /\ Methods \subseteq Method
    /\ MaxCalls \in Nat

VARIABLES
    sock,         \* rtsp_socket_: "closed", "connecting", "connected", "failed"
                  \* (open, not connected), "ended" (the peer has closed)
    resolving,    \* calls whose async_resolve is pending
    opener,       \* the call whose async_connect opened the socket, until its
                  \* handler has run
    again,        \* a further connect on the connected socket: "refused",
                  \* "possible" once, "accepted"; "mixed" when that has led to
                  \* two loops that read the streambuf at the same time
    second,       \* the call whose further connect was accepted, until its
                  \* handler has run
    unsent,       \* requests given to async_send while the socket connects
    toServer, toClient,   \* the connection
    readers,      \* async_read_until operations pending
    state,        \* session_.state_
    identifier,   \* session_.session_identifier_
    receiver,     \* rtp_receiver_: its session, whether it reports statistics
    statistics,   \* rtp_statistics_handler_ is set
    mkn,          \* mkn_option_ is set
    nextCseq,     \* session_.next_cseq
    outstanding,  \* outstanding_requests_: method by CSeq
    called,       \* history: how often the handler of each CSeq was called
    reported      \* history: error_handler_ has been called

linkVars == <<sock, resolving, opener, again, second>>
connectionVars == <<linkVars, unsent, toServer>>
sessionVars == <<state, identifier, receiver, outstanding, called>>
optionVars == <<statistics, mkn>>
clientVars == <<connectionVars, toClient, readers, sessionVars, optionVars,
                nextCseq, reported>>

Request == [method: Method, cseq: CSeq, session: SessionId \cup {NoSession},
            mkn: BOOLEAN]

\* What header_read and the handlers tell apart in a response.  The CSeq header
\* is "absent" (also from bytes that are no response), "garbled" if it is no
\* number, or "ok"; the transport "absent", "unusable" (or its port is taken).
Response ==
    [header: {"absent", "garbled", "ok"}, cseq: CSeq, status: {"info", "ok", "error"},
     session: SessionId \cup {NoSession}, transport: {"absent", "unusable", "usable"}]

NoReceiver == [session |-> NoSession, statistics |-> FALSE]

ClientTypeOK ==
    /\ sock \in {"closed", "connecting", "connected", "failed", "ended"}
    /\ resolving \in Seq(Method)
    /\ opener \in Method \cup {NoMethod} /\ second \in Method \cup {NoMethod}
    /\ again \in {"refused", "possible", "accepted", "mixed"}
    /\ unsent \in Seq(Request) /\ toServer \in Seq(Request)
    /\ toClient \in Seq(Response)
    /\ readers \in Nat
    /\ state \in {"init", "ready", "playing"}
    /\ identifier \in SessionId \cup {NoSession}
    /\ receiver \in [session: SessionId \cup {NoSession}, statistics: BOOLEAN]
    /\ statistics \in BOOLEAN /\ mkn \in BOOLEAN
    /\ nextCseq \in 0..MaxCalls
    /\ outstanding \in [CSeq -> Method \cup {NoMethod}]
    /\ called \in [CSeq -> Nat]
    /\ reported \in BOOLEAN

ClientInit ==
    /\ sock = "closed" /\ resolving = <<>>
    /\ opener = NoMethod /\ again = "refused" /\ second = NoMethod
    /\ unsent = <<>> /\ toServer = <<>> /\ toClient = <<>>
    /\ readers = 0
    /\ state = "init" /\ identifier = NoSession /\ receiver = NoReceiver
    /\ statistics = FALSE /\ mkn = FALSE
    /\ nextCseq = 0
    /\ outstanding = [c \in CSeq |-> NoMethod]
    /\ called = [c \in CSeq |-> 0]
    /\ reported = FALSE

-----------------------------------------------------------------------------
(* send_request.                                                           *)

\* The request as it is built when it is sent, not when it is called for; the
\* options set in the same step are set before it.
NewRequest(m) ==
    [method |-> m, cseq |-> nextCseq,
     session |-> IF m \in {"PLAY", "PAUSE", "TEARDOWN"} THEN identifier ELSE NoSession,
     mkn |-> m = "SETUP" /\ mkn']

Registered(m) ==
    /\ nextCseq' = nextCseq + 1
    /\ outstanding' = [outstanding EXCEPT ![nextCseq] = m]
    /\ UNCHANGED <<state, identifier, receiver, called>>

\* The handler of an async_send that fails throws; the request stays
\* outstanding.  After the peer has closed a send may still succeed.
SendRequest(m) ==
    /\ Registered(m)
    /\ \/ /\ sock = "connecting"
          /\ unsent' = Append(unsent, NewRequest(m))
          /\ UNCHANGED <<toServer, reported>>
       \/ /\ sock = "connected"
          /\ toServer' = Append(toServer, NewRequest(m))
          /\ UNCHANGED <<unsent, reported>>
       \/ /\ sock \in {"failed", "ended"}
          /\ reported' = TRUE
          /\ UNCHANGED <<unsent, toServer>>
       \/ /\ sock = "ended"
          /\ UNCHANGED <<unsent, toServer, reported>>

-----------------------------------------------------------------------------
(* The calls.                                                              *)

Allowed(m) ==
    CASE m = "SETUP" -> state = "init"
      [] m = "PLAY"  -> state \in {"ready", "playing"}
      [] m = "PAUSE" -> state = "playing"
      [] OTHER       -> TRUE

\* Handlers of async_connect that have still to run.
Opening == (IF opener = NoMethod THEN 0 ELSE 1) + (IF second = NoMethod THEN 0 ELSE 1)

\* Bound of the model: requests sent and calls that wait to be sent.
Room == nextCseq + Len(resolving) + Opening < MaxCalls

\* setup, play, pause, teardown, option and describe.
Called(m) ==
    /\ Room
    /\ \/ /\ ~Allowed(m)
          /\ reported' = TRUE
          /\ UNCHANGED <<connectionVars, sessionVars, nextCseq>>
       \/ /\ Allowed(m) /\ sock = "closed"
          /\ resolving' = Append(resolving, m)
          /\ UNCHANGED <<sock, opener, again, second, unsent, toServer, sessionVars, nextCseq,
                         reported>>
       \/ /\ Allowed(m) /\ sock # "closed"
          /\ SendRequest(m)
          /\ UNCHANGED linkVars

Call(m) == UNCHANGED <<toClient, readers, optionVars>> /\ Called(m)

\* Mutant of SetStatisticsHandler: a receiver that exists is not told.
SetStatisticsHandlerLater(on) ==
    /\ statistics' = on
    /\ UNCHANGED <<connectionVars, toClient, readers, sessionVars, mkn, nextCseq, reported>>

SetStatisticsHandler(on) ==
    /\ statistics' = on
    /\ receiver' = IF receiver = NoReceiver THEN receiver
                   ELSE [receiver EXCEPT !.statistics = on]
    /\ UNCHANGED <<connectionVars, toClient, readers, state, identifier, outstanding,
                   called, mkn, nextCseq, reported>>

\* set_mkn_options is not dispatched: a SETUP that waits for its connection
\* carries the options set last.
SetMknOptions(on) ==
    /\ mkn' = on
    /\ UNCHANGED <<connectionVars, toClient, readers, sessionVars, statistics,
                   nextCseq, reported>>

-----------------------------------------------------------------------------
(* open_socket.                                                            *)

\* Mutant of Resolved: every call that was resolved opens the socket anew.
ResolvedAnew ==
    /\ resolving # <<>>
    /\ resolving' = Tail(resolving)
    /\ sock' = "connecting" /\ opener' = Head(resolving)
    /\ UNCHANGED <<again, second, unsent, toServer, toClient, readers, sessionVars,
                   optionVars, nextCseq, reported>>

\* The handler of async_resolve.  If an earlier call has opened the socket in
\* the meantime, its connect is accepted once on some systems, unless the first
\* one is still under way; after the peer has closed it may be accepted as well.
\* Otherwise the call is lost.
Resolved ==
    /\ resolving # <<>>
    /\ resolving' = Tail(resolving)
    /\ \/ /\ sock \in {"closed", "failed"}
          /\ sock' = "connecting" /\ opener' = Head(resolving)
          /\ again' \in {"refused", "possible"}
          /\ UNCHANGED <<second, reported>>
       \/ /\ sock \in {"connected", "ended"} /\ again = "possible"
          /\ again' = "accepted" /\ second' = Head(resolving)
          /\ UNCHANGED <<sock, opener, reported>>
       \/ /\ sock \in {"connecting", "ended"} \/ (sock = "connected" /\ again # "possible")
          /\ reported' = TRUE
          /\ UNCHANGED <<sock, opener, again, second>>
    /\ UNCHANGED <<unsent, toServer, toClient, readers, sessionVars, optionVars, nextCseq>>

\* An error, or no entry for the host.
ResolveFails ==
    /\ resolving # <<>>
    /\ resolving' = Tail(resolving)
    /\ reported' = TRUE
    /\ UNCHANGED <<sock, opener, again, second, unsent, toServer, toClient, readers,
                   sessionVars, optionVars, nextCseq>>

\* Mutant of Handshake: what was sent meanwhile goes out with the next request.
HandshakeKeepsUnsent ==
    /\ sock = "connecting" /\ sock' = "connected"
    /\ UNCHANGED <<unsent, toServer, resolving, opener, again, second, toClient, readers,
                   sessionVars, optionVars, nextCseq, reported>>

\* The socket is connected: what was sent meanwhile goes out, and the handler
\* of async_connect waits for the strand.
Handshake ==
    /\ sock = "connecting" /\ sock' = "connected"
    /\ toServer' = toServer \o unsent /\ unsent' = <<>>
    /\ UNCHANGED <<resolving, opener, again, second, toClient, readers, sessionVars,
                   optionVars, nextCseq, reported>>

ConnectFails ==
    /\ sock = "connecting"
    /\ sock' = "failed" /\ opener' = NoMethod /\ unsent' = <<>>
    /\ reported' = TRUE
    /\ UNCHANGED <<resolving, again, second, toServer, toClient, readers, sessionVars,
                   optionVars, nextCseq>>

\* The handler of an async_connect that succeeded: it starts a loop that reads,
\* and then() sends the request m it was called for.
Connected(m) ==
    /\ m # NoMethod
    /\ readers' = readers + 1
    /\ again' = IF readers > 0 THEN "mixed" ELSE again
    /\ UNCHANGED <<sock, resolving, toClient, optionVars>>
    /\ SendRequest(m)

OpenerConnected ==
    sock # "connecting" /\ Connected(opener) /\ opener' = NoMethod /\ UNCHANGED second
SecondConnected ==
    Connected(second) /\ second' = NoMethod /\ UNCHANGED opener

-----------------------------------------------------------------------------
(* header_read.                                                            *)

\* An unparsable number leaves cseq at 0.
CseqOf(r) == IF r.header = "garbled" THEN 0 ELSE r.cseq

\* The response handlers: what they throw on, and what they do.  Only the one
\* of SETUP looks at the status; it stores the identifier before it reads the
\* transport.
SetupThrows(r) == r.status # "ok" \/ r.session = NoSession \/ r.transport # "usable"
Throws(m, r) == m = "SETUP" /\ SetupThrows(r)

\* Mutant of Handle: the state stays "playing" after PAUSE.
HandleNoPause(m, r) ==
    /\ identifier' = IF m = "SETUP" /\ r.status = "ok" /\ r.session # NoSession
                        /\ r.transport # "absent"
                     THEN r.session ELSE identifier
    /\ receiver' = IF m = "SETUP" /\ ~SetupThrows(r)
                   THEN [session |-> r.session, statistics |-> statistics] ELSE receiver
    /\ state' = CASE m = "SETUP" -> IF SetupThrows(r) THEN state ELSE "ready"
                  [] m = "PLAY" -> "playing" [] m = "TEARDOWN" -> "init" [] OTHER -> state

Handle(m, r) ==
    /\ identifier' = IF m = "SETUP" /\ r.status = "ok" /\ r.session # NoSession
                        /\ r.transport # "absent"
                     THEN r.session ELSE identifier
    /\ receiver' = IF m = "SETUP" /\ ~SetupThrows(r)
                   THEN [session |-> r.session, statistics |-> statistics] ELSE receiver
    /\ state' = CASE m = "SETUP" -> IF SetupThrows(r) THEN state ELSE "ready"
                  [] m = "PLAY" -> "playing" [] m = "PAUSE" -> "ready"
                  [] m = "TEARDOWN" -> "init" [] OTHER -> state

\* No CSeq: at() throws outside the try block, and nobody reads on.
ReadNoCseq(r) ==
    /\ r.header = "absent"
    /\ readers' = readers - 1
    /\ reported' = TRUE
    /\ UNCHANGED sessionVars

\* A 1xx status, or no handler for the CSeq: a duplicate.
ReadNothing(r) ==
    /\ r.header # "absent"
    /\ r.status = "info" \/ outstanding[CseqOf(r)] = NoMethod
    /\ UNCHANGED <<readers, sessionVars, reported>>

\* Mutants of ReadFinal: a handler that has run stays; the loop goes on after
\* a handler has thrown.
ReadFinalKeeps(r) ==
    LET c == CseqOf(r)
        m == outstanding[c]
    IN  /\ r.header # "absent" /\ r.status # "info" /\ m # NoMethod
        /\ called' = [called EXCEPT ![c] = @ + 1]
        /\ Handle(m, r)
        /\ readers' = IF Throws(m, r) THEN readers - 1 ELSE readers
        /\ reported' = (reported \/ Throws(m, r))
        /\ UNCHANGED outstanding
ReadFinalGoesOn(r) ==
    LET c == CseqOf(r)
        m == outstanding[c]
    IN  /\ r.header # "absent" /\ r.status # "info" /\ m # NoMethod
        /\ called' = [called EXCEPT ![c] = @ + 1]
        /\ Handle(m, r)
        /\ outstanding' = [outstanding EXCEPT ![c] = NoMethod]
        /\ reported' = (reported \/ Throws(m, r))
        /\ UNCHANGED readers

\* The handler is called, and erased if it returns; if it throws it stays, and
\* nobody reads on.
ReadFinal(r) ==
    LET c == CseqOf(r)
        m == outstanding[c]
    IN  /\ r.header # "absent" /\ r.status # "info" /\ m # NoMethod
        /\ called' = [called EXCEPT ![c] = @ + 1]
        /\ Handle(m, r)
        /\ IF Throws(m, r)
           THEN readers' = readers - 1 /\ reported' = TRUE /\ UNCHANGED outstanding
           ELSE /\ outstanding' = [outstanding EXCEPT ![c] = NoMethod]
                /\ UNCHANGED <<readers, reported>>

\* Two reads at the same time have prepared the same part of the streambuf: a
\* response may come out damaged, without a CSeq that could be read, or its end
\* is never found.
ReadDamaged ==
    /\ again = "mixed"
    /\ \/ readers' = readers - 1 /\ reported' = TRUE
       \/ UNCHANGED <<readers, reported>>
    /\ UNCHANGED sessionVars

HeaderRead ==
    /\ readers > 0 /\ toClient # <<>>
    /\ toClient' = Tail(toClient)
    /\ \/ LET r == Head(toClient) IN ReadNoCseq(r) \/ ReadNothing(r) \/ ReadFinal(r)
       \/ ReadDamaged
    /\ UNCHANGED <<connectionVars, optionVars, nextCseq>>

\* header_read with an error: the peer has closed and all is read.
HeaderReadFails ==
    /\ readers > 0 /\ toClient = <<>> /\ sock = "ended"
    /\ readers' = readers - 1
    /\ reported' = TRUE
    /\ UNCHANGED <<connectionVars, toClient, sessionVars, optionVars, nextCseq>>

ClientStep ==
    \/ Resolved \/ ResolveFails \/ Handshake \/ ConnectFails
    \/ OpenerConnected \/ SecondConnected
    \/ HeaderRead \/ HeaderReadFails
UserStep ==
    \/ \E m \in Methods : Call(m)
    \/ \E on \in BOOLEAN : SetStatisticsHandler(on) \/ SetMknOptions(on)
=============================================================================
