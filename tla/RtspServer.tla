------------------------------ MODULE RtspServer ------------------------------
(***************************************************************************)
(* The server of rtsp_server.cpp around the session table: TCP connections *)
(* with their read loop and idle timer, and requests that come by UDP.     *)
(*                                                                         *)
(* The handlers of one connection run on any io thread and no strand keeps *)
(* them apart: timeout_check decides that the connection is idle, and only *)
(* then takes the mutex in handle_timeout_of_host, and closes the socket   *)
(* after that, so a request of the same connection can be handled before   *)
(* and after the sessions are deleted.  Time is a number of ticks; idle    *)
(* and timer count relative to now, so no clock has to be bounded.         *)
(* How a response gets through the socket is modelled in TcpResponse.      *)
(***************************************************************************)
EXTENDS RtspServerState, Integers

CONSTANTS
    Conn,      \* tcp_connection objects
    NoConn,
    Period,    \* timeout_period_ (240 s) in ticks
    MaxLate    \* bound of the model: ticks a due timer handler can be late

ASSUME ConnAssumption ==
    /\ NoConn \notin Conn
    /\ Period \in Nat \ {0}
    /\ MaxLate \in Nat

VARIABLES
    peer,     \* remote host of each connection
    sock,     \* "unused", "open", "eof" (peer closed), "reset", "closed" (by us)
    reading,  \* async_read_until is pending
    idle,     \* ticks since last_request_time_point_, while a check waits
    timer,    \* ticks until timeout_timer_ expires, negative when it is late
    check,    \* "waiting" for the timer, "decided" to time out, "closing" (the
              \* sessions of the host are gone, the socket is not), "off"
    via       \* connection that created each session, NoConn by UDP

connVars == <<peer, sock, reading, idle, timer, check, via>>
vars == <<sessions, byHost, issued, reply, peer, sock, reading, idle, timer,
          check, via>>

ServerTypeOK ==
    /\ TypeOK
    /\ peer \in [Conn -> Host \cup {NoHost}]
    /\ sock \in [Conn -> {"unused", "open", "eof", "reset", "closed"}]
    /\ reading \in [Conn -> BOOLEAN]
    /\ idle \in [Conn -> 0..(2 * Period + MaxLate)]
    /\ timer \in [Conn -> -MaxLate..Period]
    /\ check \in [Conn -> {"waiting", "decided", "closing", "off"}]
    /\ via \in [SessionId -> Conn \cup {NoConn}]

ServerInit ==
    /\ Init
    /\ peer = [c \in Conn |-> NoHost]
    /\ sock = [c \in Conn |-> "unused"]
    /\ reading = [c \in Conn |-> FALSE]
    /\ idle = [c \in Conn |-> 0]
    /\ timer = [c \in Conn |-> 0]
    /\ check = [c \in Conn |-> "off"]
    /\ via = [id \in SessionId |-> NoConn]

-----------------------------------------------------------------------------
(* The network.                                                            *)

PeerCloses(c) ==
    /\ sock[c] = "open"
    /\ sock' = [sock EXCEPT ![c] = "eof"]
    /\ UNCHANGED <<stateVars, peer, reading, idle, timer, check, via>>

PeerResets(c) ==
    /\ sock[c] \in {"open", "eof"}
    /\ sock' = [sock EXCEPT ![c] = "reset"]
    /\ UNCHANGED <<stateVars, peer, reading, idle, timer, check, via>>

\* Time passes for every connection that has a timer.
Tick ==
    /\ \E c \in Conn : check[c] = "waiting"
    /\ \A c \in Conn : check[c] = "waiting" => timer[c] > -MaxLate
    /\ idle' = [c \in Conn |-> IF check[c] = "waiting" THEN idle[c] + 1 ELSE idle[c]]
    /\ timer' = [c \in Conn |-> IF check[c] = "waiting" THEN timer[c] - 1 ELSE timer[c]]
    /\ UNCHANGED <<stateVars, peer, sock, reading, check, via>>

-----------------------------------------------------------------------------
(* Connections.                                                            *)

\* Mutant of Accept: the timer is armed for twice the period.
AcceptDoubled(c, h) ==
    /\ sock[c] = "unused"
    /\ peer' = [peer EXCEPT ![c] = h]
    /\ sock' = [sock EXCEPT ![c] = "open"]
    /\ reading' = [reading EXCEPT ![c] = TRUE]
    /\ idle' = [idle EXCEPT ![c] = 0]
    /\ timer' = [timer EXCEPT ![c] = 2 * Period]
    /\ check' = [check EXCEPT ![c] = "waiting"]
    /\ UNCHANGED <<stateVars, via>>

\* handle_new_tcp_connection and start().
Accept(c, h) ==
    /\ sock[c] = "unused"
    /\ peer' = [peer EXCEPT ![c] = h]
    /\ sock' = [sock EXCEPT ![c] = "open"]
    /\ reading' = [reading EXCEPT ![c] = TRUE]
    /\ idle' = [idle EXCEPT ![c] = 0]
    /\ timer' = [timer EXCEPT ![c] = Period]
    /\ check' = [check EXCEPT ![c] = "waiting"]
    /\ UNCHANGED <<stateVars, via>>

\* Sessions that the step creates are remembered with their connection.
Created(c) == via' = [id \in SessionId |-> IF id \in issued' \ issued THEN c ELSE via[id]]

\* header_read with a request: a call that throws is not answered and does not
\* read on.  (A request still buffered when the peer has closed is handled.)
HeaderRead(c, req) ==
    /\ reading[c] /\ sock[c] \in {"open", "eof"}
    /\ idle' = [idle EXCEPT ![c] = 0]
    /\ HandleRequest(peer[c], req)
    /\ Created(c)
    /\ reading' = [reading EXCEPT ![c] = reply'.status # 0]
    /\ UNCHANGED <<peer, sock, timer, check>>

\* header_read with bytes that are no request.
HeaderUnparsable(c) ==
    /\ reading[c] /\ sock[c] \in {"open", "eof"}
    /\ idle' = [idle EXCEPT ![c] = 0]
    /\ Answer(400, NoSession)
    /\ UNCHANGED <<sessions, byHost, issued, peer, sock, reading, timer, check, via>>

\* header_read with eof, connection_reset or, after our close(), an abort: in
\* each case the connection is not read again and nothing is cleaned up.
HeaderReadFails(c) ==
    /\ reading[c] /\ sock[c] \in {"eof", "reset", "closed"}
    /\ reading' = [reading EXCEPT ![c] = FALSE]
    /\ UNCHANGED <<stateVars, peer, sock, idle, timer, check, via>>

\* Mutants of TimeoutCheck: it arms the timer again whatever the idle time; it
\* checks only once.
TimeoutCheckForgiving(c) ==
    /\ check[c] = "waiting" /\ timer[c] <= 0
    /\ timer' = [timer EXCEPT ![c] = @ + Period]
    /\ UNCHANGED <<stateVars, peer, sock, reading, idle, check, via>>
TimeoutCheckOnce(c) ==
    /\ check[c] = "waiting" /\ timer[c] <= 0
    /\ check' = [check EXCEPT ![c] = IF idle[c] >= Period THEN "decided" ELSE "off"]
    /\ UNCHANGED <<stateVars, peer, sock, reading, idle, timer, via>>

\* timeout_check up to its decision.  An idle time that is Period in ticks may
\* be a little more or a little less than timeout_period_.
TimeoutCheck(c) ==
    /\ check[c] = "waiting" /\ timer[c] <= 0
    /\ \/ /\ idle[c] >= Period
          /\ check' = [check EXCEPT ![c] = "decided"]
          /\ UNCHANGED timer
       \/ /\ idle[c] <= Period
          /\ timer' = [timer EXCEPT ![c] = @ + Period]
          /\ UNCHANGED check
    /\ UNCHANGED <<stateVars, peer, sock, reading, idle, via>>

\* The rest of it: the host's sessions are deleted under the mutex, and then
\* the socket is closed.  remote_endpoint() throws on a connection that was
\* reset, and neither happens.
TimeoutActs(c) ==
    /\ check[c] = "decided"
    /\ IF sock[c] = "reset"
       THEN check' = [check EXCEPT ![c] = "off"] /\ UNCHANGED stateVars
       ELSE check' = [check EXCEPT ![c] = "closing"] /\ HostTimeout(peer[c])
    /\ UNCHANGED <<peer, sock, reading, idle, timer, via>>

TimeoutCloses(c) ==
    /\ check[c] = "closing"
    /\ check' = [check EXCEPT ![c] = "off"]
    /\ sock' = [sock EXCEPT ![c] = "closed"]
    /\ UNCHANGED <<stateVars, peer, reading, idle, timer, via>>

\* handle_new_incoming_message: a request by UDP, valid or not.
UdpRequest(h, req) ==
    /\ HandleRequest(h, req)
    /\ Created(NoConn)
    /\ UNCHANGED <<peer, sock, reading, idle, timer, check>>

UdpUnparsable ==
    /\ Answer(400, NoSession)
    /\ UNCHANGED <<sessions, byHost, issued, connVars>>

-----------------------------------------------------------------------------
ServerNext ==
    \/ Tick
    \/ UdpUnparsable
    \/ \E h \in Host, req \in Requests : UdpRequest(h, req)
    \/ \E c \in Conn :
         \/ \E h \in Host : Accept(c, h)
         \/ \E req \in Requests : HeaderRead(c, req)
         \/ HeaderUnparsable(c) \/ HeaderReadFails(c)
         \/ TimeoutCheck(c) \/ TimeoutActs(c) \/ TimeoutCloses(c)
         \/ PeerCloses(c) \/ PeerResets(c)

ServerSpec == ServerInit /\ [][ServerNext]_vars

\* Time passes and the io threads run what is due; nothing makes a peer act.
FairServerSpec ==
    /\ ServerSpec
    /\ WF_vars(Tick)
    /\ \A c \in Conn : WF_vars(TimeoutCheck(c)) /\ WF_vars(TimeoutActs(c))
                       /\ WF_vars(TimeoutCloses(c)) /\ WF_vars(HeaderReadFails(c))

-----------------------------------------------------------------------------
(* Properties.                                                             *)

\* A check that times a connection out takes every session that was set up
\* over it, also one whose SETUP came after the check had decided, and also
\* when other hosts have used the session since.
TimeoutTakesAll ==
    [][\A c \in Conn : check[c] = "decided" /\ check'[c] = "closing"
                        => \A id \in Live' : via[id] # c]_vars

\* However requests fall between two checks, a connection that goes silent is
\* found out within two periods (and the lateness of the handler).
IdleBounded ==
    \A c \in Conn : check[c] = "waiting" => idle[c] + timer[c] <= 2 * Period

\* A client that closes its connection without TEARDOWN has its sessions
\* deleted in the end, unless the closed connection is also reset.  (A SETUP
\* that is still handled once the check has decided can come too late.)
ClosedMeansReclaimed ==
    \A id \in SessionId, c \in Conn :
        (sock[c] = "eof" /\ check[c] = "waiting" /\ via[id] = c /\ id \in Live)
            ~> (id \notin Live \/ sock[c] = "reset")
==============================================================================
