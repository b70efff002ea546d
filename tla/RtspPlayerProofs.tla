-------------------------- MODULE RtspPlayerProofs ---------------------------
(***************************************************************************)
(* The player, its client and the server's session table: the table keeps  *)
(* to RtspServerState, and client and server agree on the session's state, *)
(* for any number of clients, calls and sessions.                          *)
(*                                                                         *)
(* Requests and responses are answered and handled in order, so the        *)
(* argument is about what is in flight: when the client has handled all    *)
(* responses on their way it will be in the state that its session is in   *)
(* at the server now, whatever requests the server has still to read.      *)
(***************************************************************************)
EXTENDS RtspPlayer, TLAPS

-----------------------------------------------------------------------------
(* The inductive invariant.                                                *)

PlayerTypeOK ==
    /\ ClientTypeOK
    /\ serving \in BOOLEAN /\ crashed \in BOOLEAN
    /\ old \in [1..MaxClients -> OldConnection]
    /\ clients \in 0..MaxClients

\* The table of the server: a timeout of the one host takes all of it.
TableInv ==
    /\ sessions \in [SessionId -> Server!Session]
    /\ byHost \subseteq {TheHost} \X SessionId
    /\ issued \subseteq SessionId
    /\ Live \subseteq issued
    /\ \A id \in Live : <<TheHost, id>> \in byHost

\* Only a connection that has come up carries anything, and only while it is
\* being opened requests wait for it.
SocketInv ==
    /\ sock # "connecting" => unsent = <<>>
    /\ sock \notin {"connected", "ended"} =>
         toServer = <<>> /\ toClient = <<>> /\ mine = {} /\ identifier = NoSession

\* Every call that is under way finds a CSeq that is free.
RoomInv ==
    /\ nextCseq + Len(resolving) + Opening <= MaxCalls
    /\ \A c \in CSeq : c >= nextCseq => outstanding[c] = NoMethod

\* Requests that nobody has read: out is the table of outstanding requests,
\* next the next CSeq, own the sessions of the client.
Sent(s, out, next, own) ==
    \A i \in 1..Len(s) :
        /\ s[i].cseq < next
        /\ out[s[i].cseq] = s[i].method
        /\ s[i].session \in own \cup {NoSession}
        /\ \A j \in 1..Len(s) : i < j => s[i].cseq < s[j].cseq

\* Responses on their way: they belong to requests before those in s.
Replies(tc, s, next, own) ==
    \A i \in 1..Len(tc) :
        /\ tc[i].header \in {"ok", "absent"} /\ tc[i].status \in {"ok", "error"}
        /\ tc[i].session \in own \cup {NoSession}
        /\ tc[i].header = "ok" =>
             /\ tc[i].cseq < next
             /\ \A j \in 1..Len(tc) : i < j /\ tc[j].header = "ok" => tc[i].cseq < tc[j].cseq
             /\ \A j \in 1..Len(s) : tc[i].cseq < s[j].cseq

WireInv ==
    /\ Sent(toServer, outstanding, nextCseq, mine)
    /\ Sent(unsent, outstanding, nextCseq, mine)
    /\ Replies(toClient, toServer, nextCseq, mine)

\* Requests on a connection name sessions that were set up over it, of those in all.
Owned(c, all) ==
    /\ c.sessions \subseteq all
    /\ \A i \in 1..Len(c.requests) : c.requests[i].session \in c.sessions \cup {NoSession}

\* The client knows its own sessions only; the connections of the clients before
\* have theirs, and none of its own; a timeout has taken them all.
SessionInv ==
    /\ mine \subseteq issued
    /\ identifier \in mine \cup {NoSession}
    /\ \A n \in 1..MaxClients : Owned(old[n], issued \ mine)
    /\ sock = "ended" => mine \cap Live = {}

InFlight(c, s, tc) ==
    \/ \E i \in 1..Len(s) : s[i].cseq = c
    \/ \E i \in 1..Len(tc) : tc[i].header = "ok" /\ tc[i].cseq = c

\* No answer to the call is on its way, and none will be.
Lost(c, s, tc, out) == c \in CSeq /\ out[c] # NoMethod /\ ~InFlight(c, s, tc)

\* A response without a CSeq is sent in place of one that has got lost.
LostInv ==
    \A i \in 1..Len(toClient) :
        toClient[i].header = "absent" => \E c \in CSeq : Lost(c, toServer, toClient, outstanding)

Structure ==
    PlayerTypeOK /\ TableInv /\ SocketInv /\ RoomInv /\ WireInv /\ SessionInv /\ LostInv

\* A response that ends the loop which reads it.
Doomed(r, out) == r.header = "absent" \/ (out[r.cseq] = "SETUP" /\ SetupThrows(r))

\* Every call can still be answered, by a response whose handler returns.
Clean(s, tc, out) ==
    /\ \A i \in 1..Len(tc) : ~Doomed(tc[i], out)
    /\ \A c \in CSeq : out[c] # NoMethod => InFlight(c, s, tc)

\* The state a response leaves the client in, by the method it answers.
Movers == {"SETUP", "PLAY", "PAUSE", "TEARDOWN"}
After(m) == CASE m = "PLAY" -> "playing" [] m = "TEARDOWN" -> "init" [] OTHER -> "ready"
Moves(r, out) == out[r.cseq] \in Movers

\* Having handled tc the client will be in state st, from the state now.
WillBe(tc, out, now, st) ==
    /\ \A i \in 1..Len(tc) :
         Moves(tc[i], out) /\ (\A j \in 1..Len(tc) : i < j => ~Moves(tc[j], out))
           => After(out[tc[i].cseq]) = st
    /\ (\A i \in 1..Len(tc) : ~Moves(tc[i], out)) => now = st

AgreeInv ==
    \A id \in SessionId :
        mine = {id} /\ id \in Live /\ Clean(toServer, toClient, outstanding)
          => /\ sessions[id].state \in {"ready", "playing"}
             /\ WillBe(toClient, outstanding, state, sessions[id].state)

-----------------------------------------------------------------------------
(* The server's table.                                                     *)

\* A request that names a session is looked up in the table.
LEMMA LooksUp ==
    ASSUME NEW req, req.cseq = TRUE, req.method \in {"PLAY", "PAUSE", "TEARDOWN"},
           req.session # NoSession
    PROVE  Server!UsesTable(req)
<1> DEFINE checks == Server!RequestChecks(req)
<1>1. DOMAIN checks = 1..6
  BY DEF Server!RequestChecks
<1>2. ~checks[1].fails
  BY DEF Server!RequestChecks
<1>3. ~checks[2].fails /\ ~checks[3].fails
  BY DEF Server!RequestChecks
<1>4. ~checks[4].fails
  BY DEF Server!RequestChecks
<1>5. ~checks[5].fails
  BY DEF Server!RequestChecks
<1>6. ~checks[6].fails
  BY DEF Server!RequestChecks
<1> HIDE DEF checks
<1>7. {i \in DOMAIN checks : checks[i].fails} = {}
  <2>1. \A i \in 1..6 : i = 1 \/ i = 2 \/ i = 3 \/ i = 4 \/ i = 5 \/ i = 6
    OBVIOUS
  <2>2. \A i \in 1..6 : ~checks[i].fails
    BY <1>2, <1>3, <1>4, <1>5, <1>6, <2>1, Zenon
  <2> QED
    BY <1>1, <2>2, Zenon
<1>8. Server!FirstFailure(checks, 0) = 0
  BY <1>7, Zenon DEF Server!FirstFailure
<1> QED
  BY <1>8, Zenon DEF Server!UsesTable, checks

\* A session that is not in the table has the type of one.
LEMMA AbsentSession ==
    /\ Server!Absent \in Server!Session
    /\ Server!Absent.state = "absent"
BY DEF Server!Absent, Server!Session, Server!SessionState

\* Live of the table, expanded.
LEMMA LiveDef == \A id : id \in Live <=> id \in SessionId /\ sessions[id].state # "absent"
BY DEF Live, Server!Live

\* A timeout of the host leaves no session.
LEMMA TimeoutTable ==
    ASSUME TableInv, Server!HostTimeout(TheHost)
    PROVE  TableInv' /\ Live' = {} /\ issued' = issued
<1>1. /\ sessions' = [id \in SessionId |-> IF id \in Server!OfHost(TheHost)
                                         THEN Server!Absent ELSE sessions[id]]
      /\ byHost' \subseteq byHost /\ issued' = issued
  BY DEF Server!HostTimeout
<1>2. sessions' \in [SessionId -> Server!Session]
  BY <1>1, AbsentSession DEF TableInv
<1>3. ASSUME NEW id \in SessionId PROVE sessions'[id].state = "absent"
  <2>1. CASE id \in Server!OfHost(TheHost)
    BY <1>1, <2>1, AbsentSession
  <2>2. CASE id \notin Server!OfHost(TheHost)
    <3>1. <<TheHost, id>> \notin byHost
      BY <2>2 DEF Server!OfHost
    <3>2. id \notin Live
      BY <3>1 DEF TableInv
    <3> QED
      BY <1>1, <2>2, <3>2, LiveDef
  <2> QED
    BY <2>1, <2>2
<1>4. Live' = {}
  BY <1>3 DEF Live, Server!Live
<1> QED
  BY <1>1, <1>2, <1>4 DEF TableInv

\* What the table makes of a request, as far as client and server compare it.
Outcome(req) ==
    \/ /\ req.method \in {"OPTIONS", "DESCRIBE", "SETUP"}
       /\ UNCHANGED <<sessions, issued>> /\ reply'.session = NoSession
    \/ /\ req.method = "SETUP"
       /\ \E id \in SessionId \ issued :
            /\ issued' = issued \cup {id}
            /\ reply'.session \in {id, NoSession}
            /\ reply'.status = 200 => sessions'[id].state = "ready"
    \/ /\ req.method \in {"PLAY", "PAUSE", "TEARDOWN"} /\ issued' = issued
       /\ reply'.session \in {req.session, NoSession}
       /\ req.session \in Live' =>
            /\ req.session \in Live
            /\ sessions[req.session].state \in {"ready", "playing"} =>
                 /\ sessions'[req.session].state \in {"ready", "playing"}
                 /\ sessions'[req.session].state = After(req.method)

\* Only the session that the request names or makes is touched, and none comes
\* back.
Confined(req) ==
    /\ issued \subseteq issued'
    /\ \A id \in issued : id # req.session => sessions'[id] = sessions[id]
    /\ \A id \in issued : id \in Live' => id \in Live

\* SETUP enters a new session, that is ready if the answer is 200.
LEMMA SetupTable ==
    ASSUME TableInv, NEW id \in SessionId, NEW setup \in SetupRequests,
           Server!Setup(TheHost, id, setup)
    PROVE  /\ TableInv' /\ id \notin issued /\ issued' = issued \cup {id}
           /\ \A other \in issued : sessions'[other] = sessions[other]
           /\ reply'.session \in {id, NoSession}
           /\ reply'.status = 200 => sessions'[id].state = "ready"
<1> DEFINE new == [Server!Absent EXCEPT !.state = "init", !.addr = TheHost]
           made == Server!SetupSession(new, setup)
           status == Server!SetupStatus(new, setup)
<1>1. /\ id \notin issued /\ issued' = issued \cup {id}
      /\ byHost' = byHost \cup {<<TheHost, id>>}
      /\ sessions' = [sessions EXCEPT ![id] = made]
  BY DEF Server!Setup
<1>2. /\ reply' = IF status = 200 /\ Server!SetupThrows(setup)
                  THEN Server!NoReply ELSE Server!Reply(status, id)
      /\ made = IF status = 200 /\ ~Server!SetupThrows(setup)
                THEN [new EXCEPT !.state = "ready", !.port = setup.port, !.dest = new.addr]
                ELSE new
  BY DEF Server!Setup, Server!SetupSession
<1>3. setup.port \in Port
  BY DEF SetupRequests
<1>4. new \in Server!Session /\ new.addr = TheHost
  BY DEF Server!Absent, Server!Session, Server!SessionState
<1> HIDE DEF new, status
<1>5. [new EXCEPT !.state = "ready", !.port = setup.port, !.dest = new.addr] \in Server!Session
  BY <1>3, <1>4 DEF Server!Session, Server!SessionState
<1>6. [new EXCEPT !.state = "ready", !.port = setup.port, !.dest = new.addr].state = "ready"
  BY <1>4 DEF Server!Session
<1>7. made \in Server!Session
  BY <1>2, <1>4, <1>5
<1>8. /\ Server!NoReply.status # 200 /\ Server!NoReply.session = NoSession
      /\ Server!Reply(status, id).status = status /\ Server!Reply(status, id).session = id
  BY DEF Server!NoReply, Server!Reply
<1> HIDE DEF made
<1>9. /\ sessions' \in [SessionId -> Server!Session] /\ sessions'[id] = made
      /\ \A other \in SessionId : other # id => sessions'[other] = sessions[other]
  BY <1>1, <1>7 DEF TableInv
<1>10. reply'.status = 200 => made.state = "ready"
  BY <1>2, <1>6, <1>8
<1>11. reply'.session \in {id, NoSession}
  BY <1>2, <1>8
<1>12. Live' \subseteq Live \cup {id}
  BY <1>9, LiveDef DEF Live, Server!Live
<1>13. TableInv'
  <2>1. issued' \subseteq SessionId /\ byHost' \subseteq {TheHost} \X SessionId
    BY <1>1 DEF TableInv
  <2>2. Live' \subseteq issued' /\ \A other \in Live' : <<TheHost, other>> \in byHost'
    BY <1>1, <1>12 DEF TableInv
  <2> QED
    BY <1>9, <2>1, <2>2 DEF TableInv
<1> QED
  BY <1>1, <1>9, <1>10, <1>11, <1>13 DEF TableInv

\* A method on a session changes that one only, and keeps it where it is indexed.
LEMMA InSessionTable ==
    ASSUME TableInv, NEW id, NEW made, NEW status, Server!InSession(id, made, status),
           made \in Server!Session
    PROVE  /\ TableInv' /\ issued' = issued /\ reply'.session = id /\ id \in Live
           /\ sessions'[id] = made
           /\ \A other \in SessionId : other # id => sessions'[other] = sessions[other]
           /\ Live' \subseteq Live
<1>1. /\ id \in Live /\ sessions' = [sessions EXCEPT ![id] = made]
      /\ UNCHANGED <<byHost, issued>> /\ reply' = Server!Reply(status, id)
  BY DEF Server!InSession, Server!Answer, Live
<1>2. reply'.session = id
  BY <1>1 DEF Server!Reply
<1>3. /\ id \in SessionId /\ sessions' \in [SessionId -> Server!Session]
      /\ sessions'[id] = made
      /\ \A other \in SessionId : other # id => sessions'[other] = sessions[other]
  BY <1>1, LiveDef DEF TableInv
<1>4. Live' \subseteq Live
  BY <1>1, <1>3, LiveDef DEF Live, Server!Live
<1> QED
  BY <1>1, <1>2, <1>3, <1>4 DEF TableInv

\* PLAY leaves the session playing, PAUSE leaves it ready, also where they are
\* refused; TEARDOWN leaves none.
LEMMA MethodStates ==
    ASSUME NEW s \in Server!Session, NEW t, t = [s EXCEPT !.addr = TheHost]
    PROVE  /\ Server!PlaySession(t) \in Server!Session
           /\ Server!PauseSession(t) \in Server!Session
           /\ s.state \in {"ready", "playing"} =>
                /\ Server!PlaySession(t).state = "playing"
                /\ Server!PauseSession(t).state = "ready"
           /\ Server!TeardownSession(t) = Server!Absent
<1>1. t \in Server!Session /\ t.state = s.state
  BY DEF Server!Session
<1>2. /\ [t EXCEPT !.state = "playing"] \in Server!Session
      /\ [t EXCEPT !.state = "playing"].state = "playing"
      /\ [t EXCEPT !.state = "ready"] \in Server!Session
      /\ [t EXCEPT !.state = "ready"].state = "ready"
  BY <1>1 DEF Server!Session, Server!SessionState
<1> QED
  BY <1>1, <1>2 DEF Server!PlaySession, Server!PauseSession, Server!TeardownSession

\* handle_incoming_request.
LEMMA HandledTable ==
    ASSUME TableInv, NEW req \in Request, ~NoIdentifier(req), Handled(req)
    PROVE  TableInv' /\ Confined(req) /\ Outcome(req)
<1> DEFINE in == [cseq |-> TRUE, method |-> req.method, session |-> req.session]
           id == req.session
<1>1. Server!HandleRequest(TheHost, in)
  BY DEF Handled
<1>2. /\ in.cseq = TRUE /\ in.method = req.method /\ in.session = id
      /\ req.method \in Method
  BY DEF Request
<1> HIDE DEF in
<1>3. CASE Server!AnswerEarly(in)
  <2>1. UNCHANGED <<sessions, byHost, issued>> /\ reply'.session = NoSession
    BY <1>3 DEF Server!AnswerEarly, Server!Answer, Server!Reply
  <2>2. req.method \notin {"PLAY", "PAUSE", "TEARDOWN"}
    BY <1>2, <1>3, LooksUp DEF NoIdentifier, Server!AnswerEarly
  <2>3. req.method \in {"OPTIONS", "DESCRIBE", "SETUP"}
    BY <1>2, <2>2 DEF Method
  <2>4. Live' = Live
    BY <2>1 DEF Live, Server!Live
  <2>5. TableInv'
    BY <2>1, <2>4 DEF TableInv
  <2> QED
    BY <2>1, <2>3, <2>4, <2>5 DEF Confined, Outcome
<1>4. ASSUME req.method = "SETUP", NEW new \in SessionId, NEW setup \in SetupRequests,
             Server!Setup(TheHost, new, setup)
      PROVE  TableInv' /\ Confined(req) /\ Outcome(req)
  <2>1. /\ TableInv' /\ new \notin issued /\ issued' = issued \cup {new}
        /\ \A other \in issued : sessions'[other] = sessions[other]
        /\ reply'.session \in {new, NoSession}
        /\ reply'.status = 200 => sessions'[new].state = "ready"
    BY <1>4, SetupTable
  <2>2. \A other \in issued : other \in Live' => other \in Live
    BY <2>1 DEF Live, Server!Live
  <2>3. Confined(req)
    BY <2>1, <2>2 DEF Confined
  <2>4. Outcome(req)
    BY <1>4, <2>1 DEF Outcome
  <2> QED
    BY <2>1, <2>3, <2>4
<1>5. CASE req.method # "SETUP" /\ Server!UnknownSession(id)
  <2>1. UNCHANGED <<sessions, byHost, issued>> /\ reply'.session = NoSession /\ id \notin Live
    BY <1>5 DEF Server!UnknownSession, Server!Answer, Server!Reply, Live
  <2>2. Live' = Live
    BY <2>1 DEF Live, Server!Live
  <2>3. TableInv'
    BY <2>1, <2>2 DEF TableInv
  <2> QED
    BY <1>2, <2>1, <2>2, <2>3 DEF Confined, Outcome, Method
<1>6. ASSUME req.method \in {"PLAY", "PAUSE", "TEARDOWN"}, NEW made, NEW status,
             Server!InSession(id, made, status), made \in Server!Session,
             made.state # "absent" /\ sessions[id].state \in {"ready", "playing"} =>
                made.state \in {"ready", "playing"} /\ made.state = After(req.method)
      PROVE  TableInv' /\ Confined(req) /\ Outcome(req)
  <2>1. /\ TableInv' /\ issued' = issued /\ reply'.session = id /\ id \in Live
        /\ sessions'[id] = made
        /\ \A other \in SessionId : other # id => sessions'[other] = sessions[other]
        /\ Live' \subseteq Live
    BY <1>6, InSessionTable
  <2>2. id \in Live' => made.state # "absent"
    BY <2>1 DEF Live, Server!Live
  <2> QED
    BY <1>6, <2>1, <2>2 DEF Confined, Outcome, TableInv
<1>7. CASE /\ \/ req.method = "PLAY" /\ Server!Play(TheHost, id)
              \/ req.method = "PAUSE" /\ Server!Pause(TheHost, id)
              \/ req.method = "TEARDOWN" /\ Server!Teardown(TheHost, id)
  <2> DEFINE t == Server!AddressedBy(TheHost, id)
  <2>1. id \in SessionId
    BY <1>7 DEF Server!Play, Server!Pause, Server!Teardown, Server!InSession, Server!Live
  <2>2. sessions[id] \in Server!Session /\ t = [sessions[id] EXCEPT !.addr = TheHost]
    BY <2>1 DEF TableInv, Server!AddressedBy
  <2> HIDE DEF t
  <2>3. /\ Server!PlaySession(t) \in Server!Session
        /\ Server!PauseSession(t) \in Server!Session
        /\ sessions[id].state \in {"ready", "playing"} =>
             /\ Server!PlaySession(t).state = "playing"
             /\ Server!PauseSession(t).state = "ready"
        /\ Server!TeardownSession(t) = Server!Absent
    BY <2>2, MethodStates
  <2>4. CASE req.method = "PLAY" /\ Server!Play(TheHost, id)
    BY <1>6, <2>3, <2>4 DEF Server!Play, t, After
  <2>5. CASE req.method = "PAUSE" /\ Server!Pause(TheHost, id)
    BY <1>6, <2>3, <2>5 DEF Server!Pause, t, After
  <2>6. CASE req.method = "TEARDOWN" /\ Server!Teardown(TheHost, id)
    BY <1>6, <2>3, <2>6, AbsentSession DEF Server!Teardown, t
  <2> QED
    BY <1>7, <2>4, <2>5, <2>6
<1> QED
  BY <1>1, <1>2, <1>3, <1>4, <1>5, <1>7 DEF Server!HandleRequest

-----------------------------------------------------------------------------
(* Requests and responses on their way.                                    *)

\* The parts of a request.
LEMMA RequestTypes ==
    ASSUME NEW r \in Request
    PROVE  r.cseq \in CSeq /\ r.cseq \in Nat /\ r.method \in Method /\ r.method # NoMethod
BY ClientAssumption DEF Request, CSeq, Method, NoMethod

\* The parts of a response.
LEMMA ResponseTypes ==
    ASSUME NEW r \in Response
    PROVE  /\ r.cseq \in CSeq /\ r.cseq \in Nat
           /\ r.session \in SessionId \cup {NoSession}
BY ClientAssumption DEF Response, CSeq

\* A table that still has their methods, later CSeqs and more sessions do not
\* matter to what was sent.
LEMMA SentKept ==
    ASSUME NEW s \in Seq(Request), NEW out, NEW out2, NEW next \in Nat, NEW next2 \in Nat,
           NEW own, NEW own2, Sent(s, out, next, own), next <= next2, own \subseteq own2,
           \A i \in 1..Len(s) : out2[s[i].cseq] = out[s[i].cseq]
    PROVE  Sent(s, out2, next2, own2)
<1>1. \A i \in 1..Len(s) : s[i].cseq \in Nat
  BY RequestTypes
<1> QED
  BY <1>1 DEF Sent

\* What is left when the first k requests are taken.
LEMMA SentRest ==
    ASSUME NEW s \in Seq(Request), NEW out, NEW next, NEW own, Sent(s, out, next, own),
           NEW t \in Seq(Request), NEW k \in Nat, Len(t) + k = Len(s),
           \A i \in 1..Len(t) : t[i] = s[i + k]
    PROVE  Sent(t, out, next, own)
<1>1. \A i \in 1..Len(t) : i + k \in 1..Len(s)
  OBVIOUS
<1>2. \A i, j \in 1..Len(t) : i < j => i + k < j + k
  OBVIOUS
<1> QED
  BY <1>1, <1>2 DEF Sent

\* A request with the next CSeq, entered into the table.
LEMMA SentMore ==
    ASSUME NEW s \in Seq(Request), NEW out, NEW out2, NEW next \in Nat, NEW next2, NEW own,
           next2 = next + 1, Sent(s, out, next, own), NEW e \in Request,
           e.cseq = next, out2[next] = e.method, e.session \in own \cup {NoSession},
           \A i \in 1..Len(s) : out2[s[i].cseq] = out[s[i].cseq]
    PROVE  Append(s, e) \in Seq(Request) /\ Sent(Append(s, e), out2, next2, own)
<1> DEFINE t == Append(s, e)
<1>1. /\ t \in Seq(Request) /\ Len(t) = Len(s) + 1 /\ t[Len(s) + 1] = e
      /\ \A i \in 1..Len(s) : t[i] = s[i]
      /\ Len(s) \in Nat
  OBVIOUS
<1> HIDE DEF t
<1>2. \A i \in 1..Len(s) : s[i].cseq \in Nat /\ s[i].cseq < next
  BY RequestTypes DEF Sent
<1>3. \A i \in 1..Len(t) : i \in 1..Len(s) \/ i = Len(s) + 1
  BY <1>1
<1>4. \A i \in 1..Len(t) : t[i].cseq < next + 1 /\ out2[t[i].cseq] = t[i].method
                           /\ t[i].session \in own \cup {NoSession}
  <2>1. \A i \in 1..Len(s) : s[i].cseq < next + 1
    BY <1>2
  <2>2. next < next + 1
    OBVIOUS
  <2> QED
    BY <1>1, <1>3, <2>1, <2>2 DEF Sent
<1>5. \A i, j \in 1..Len(t) : i < j => t[i].cseq < t[j].cseq
  <2> SUFFICES ASSUME NEW i \in 1..Len(t), NEW j \in 1..Len(t), i < j
               PROVE  t[i].cseq < t[j].cseq
    OBVIOUS
  <2>1. i \in 1..Len(s)
    BY <1>1
  <2> QED
    BY <1>1, <1>2, <1>3, <2>1 DEF Sent
<1> QED
  BY <1>1, <1>4, <1>5 DEF Sent, t

\* What a request with a new CSeq does to the requests before it.
LEMMA SentNext ==
    ASSUME NEW s \in Seq(Request), NEW out, NEW out2, NEW next \in Nat, NEW next2, NEW own,
           next2 = next + 1, Sent(s, out, next, own), NEW e \in Request,
           e.cseq = next, out2[next] = e.method, e.session \in own \cup {NoSession},
           \A c \in CSeq : c # next => out2[c] = out[c]
    PROVE  /\ Sent(s, out2, next2, own)
           /\ Append(s, e) \in Seq(Request) /\ Sent(Append(s, e), out2, next2, own)
<1>1. \A i \in 1..Len(s) : out2[s[i].cseq] = out[s[i].cseq]
  <2> SUFFICES ASSUME NEW i \in 1..Len(s) PROVE out2[s[i].cseq] = out[s[i].cseq]
    OBVIOUS
  <2>1. s[i].cseq \in CSeq /\ s[i].cseq < next /\ s[i].cseq \in Nat
    BY RequestTypes DEF Sent
  <2> QED
    BY <2>1
<1>2. next2 \in Nat /\ next <= next2
  OBVIOUS
<1>3. Sent(s, out2, next2, own)
  BY <1>1, <1>2, SentKept
<1>4. Append(s, e) \in Seq(Request) /\ Sent(Append(s, e), out2, next2, own)
  BY <1>1, SentMore
<1> QED
  BY <1>3, <1>4

\* Responses stay before the requests that are left and those that follow.
LEMMA RepliesKept ==
    ASSUME NEW tc \in Seq(Response), NEW s \in Seq(Request), NEW t \in Seq(Request),
           NEW next \in Nat, NEW next2 \in Nat, NEW own, NEW own2,
           Replies(tc, s, next, own), next <= next2, own \subseteq own2,
           \A j \in 1..Len(t) : (\E i \in 1..Len(s) : t[j] = s[i]) \/ t[j].cseq >= next
    PROVE  Replies(tc, t, next2, own2)
<1>1. \A i \in 1..Len(tc) : tc[i].cseq \in Nat
  BY ResponseTypes
<1>2. \A j \in 1..Len(t) : t[j].cseq \in Nat
  BY RequestTypes
<1> SUFFICES ASSUME NEW i \in 1..Len(tc), tc[i].header = "ok"
             PROVE  tc[i].cseq < next2 /\ \A j \in 1..Len(t) : tc[i].cseq < t[j].cseq
  BY DEF Replies
<1>3. tc[i].cseq < next /\ \A j \in 1..Len(s) : tc[i].cseq < s[j].cseq
  BY DEF Replies
<1>4. tc[i].cseq < next2
  BY <1>1, <1>3
<1>5. ASSUME NEW j \in 1..Len(t) PROVE tc[i].cseq < t[j].cseq
  <2>1. CASE \E k \in 1..Len(s) : t[j] = s[k]
    BY <1>3, <2>1
  <2>2. CASE t[j].cseq >= next
    BY <1>1, <1>2, <1>3, <2>2
  <2> QED
    BY <2>1, <2>2
<1> QED
  BY <1>4, <1>5

\* The first response is read.
LEMMA RepliesTail ==
    ASSUME NEW tc \in Seq(Response), tc # <<>>, NEW s, NEW next, NEW own,
           Replies(tc, s, next, own)
    PROVE  /\ Tail(tc) \in Seq(Response) /\ Replies(Tail(tc), s, next, own)
           /\ Head(tc) = tc[1] /\ 1 \in 1..Len(tc) /\ tc[1] \in Response
           /\ Len(tc) = Len(Tail(tc)) + 1 /\ Len(Tail(tc)) \in Nat
           /\ \A i \in 1..Len(Tail(tc)) : Tail(tc)[i] = tc[i + 1] /\ i + 1 \in 1..Len(tc)
<1> DEFINE t == Tail(tc)
<1>1. /\ t \in Seq(Response) /\ Len(tc) = Len(t) + 1 /\ Len(t) \in Nat
      /\ Head(tc) = tc[1] /\ 1 \in 1..Len(tc)
      /\ \A i \in 1..Len(t) : t[i] = tc[i + 1] /\ i + 1 \in 1..Len(tc)
  OBVIOUS
<1> HIDE DEF t
<1>2. \A i, j \in 1..Len(t) : i < j => i + 1 < j + 1
  OBVIOUS
<1>3. Replies(t, s, next, own)
  BY <1>1, <1>2 DEF Replies
<1>4. tc[1] \in Response
  BY <1>1
<1> QED
  BY <1>1, <1>3, <1>4 DEF t

\* The first k requests are taken, and the first of them is answered, if any.
LEMMA RepliesMore ==
    ASSUME NEW tc \in Seq(Response), NEW s \in Seq(Request), NEW out, NEW next \in Nat,
           NEW own, Replies(tc, s, next, own), Sent(s, out, next, own),
           NEW t \in Seq(Request), NEW k \in Nat \ {0}, Len(t) + k = Len(s),
           \A i \in 1..Len(t) : t[i] = s[i + k],
           NEW e \in Response, e.header = "absent" \/ (e.header = "ok" /\ e.cseq = s[1].cseq),
           e.status \in {"ok", "error"}, e.session \in own \cup {NoSession}
    PROVE  Append(tc, e) \in Seq(Response) /\ Replies(Append(tc, e), t, next, own)
<1> DEFINE d == Append(tc, e)
<1>1. /\ d \in Seq(Response) /\ Len(d) = Len(tc) + 1 /\ d[Len(tc) + 1] = e
      /\ \A i \in 1..Len(tc) : d[i] = tc[i]
      /\ Len(tc) \in Nat
  OBVIOUS
<1> HIDE DEF d
<1>2. 1 \in 1..Len(s) /\ \A j \in 1..Len(t) : j + k \in 1..Len(s) /\ 1 < j + k
  OBVIOUS
<1>3. \A i \in 1..Len(d) : i \in 1..Len(tc) \/ i = Len(tc) + 1
  BY <1>1
<1>4. s[1].cseq < next /\ \A j \in 1..Len(t) : s[1].cseq < t[j].cseq
  BY <1>2 DEF Sent
<1>5. \A i \in 1..Len(tc) : tc[i].header = "ok" =>
        /\ tc[i].cseq < next /\ tc[i].cseq < s[1].cseq
        /\ \A j \in 1..Len(t) : tc[i].cseq < t[j].cseq
        /\ \A j \in 1..Len(tc) : i < j /\ tc[j].header = "ok" => tc[i].cseq < tc[j].cseq
  BY <1>2 DEF Replies
<1>6. \A i \in 1..Len(d) : /\ d[i].header \in {"ok", "absent"} /\ d[i].status \in {"ok", "error"}
                           /\ d[i].session \in own \cup {NoSession}
  BY <1>1, <1>3 DEF Replies
<1>7. ASSUME NEW i \in 1..Len(d), d[i].header = "ok"
      PROVE  /\ d[i].cseq < next
             /\ \A j \in 1..Len(d) : i < j /\ d[j].header = "ok" => d[i].cseq < d[j].cseq
             /\ \A j \in 1..Len(t) : d[i].cseq < t[j].cseq
  <2>1. CASE i \in 1..Len(tc)
    <3>1. d[i].cseq < next /\ \A j \in 1..Len(t) : d[i].cseq < t[j].cseq
      BY <1>1, <1>5, <1>7, <2>1
    <3>2. ASSUME NEW j \in 1..Len(d), i < j, d[j].header = "ok" PROVE d[i].cseq < d[j].cseq
      <4>1. CASE j \in 1..Len(tc)
        BY <1>1, <1>5, <1>7, <2>1, <3>2, <4>1
      <4>2. CASE j = Len(tc) + 1
        BY <1>1, <1>5, <1>7, <2>1, <3>2, <4>2
      <4> QED
        BY <1>3, <4>1, <4>2
    <3> QED
      BY <3>1, <3>2
  <2>2. CASE i = Len(tc) + 1
    <3>1. d[i].cseq = s[1].cseq
      BY <1>1, <1>7, <2>2
    <3>2. \A j \in 1..Len(d) : ~(i < j)
      BY <1>1, <2>2
    <3> QED
      BY <1>4, <3>1, <3>2
  <2> QED
    BY <1>3, <2>1, <2>2
<1> QED
  BY <1>1, <1>6, <1>7 DEF Replies, d

-----------------------------------------------------------------------------
(* What the responses on their way will make of the client.                *)

\* A further request leaves what is on its way as it is.
LEMMA CleanBefore ==
    ASSUME NEW tc \in Seq(Response), NEW s \in Seq(Request), NEW s2 \in Seq(Request),
           NEW next \in Nat, NEW out, NEW out2, NEW own, Replies(tc, s, next, own),
           out[next] = NoMethod, \A c \in CSeq : c # next => out2[c] = out[c],
           \A j \in 1..Len(s2) : (\E i \in 1..Len(s) : s2[j] = s[i]) \/ s2[j].cseq = next,
           Clean(s2, tc, out2)
    PROVE  Clean(s, tc, out) /\ \A i \in 1..Len(tc) : out2[tc[i].cseq] = out[tc[i].cseq]
<1>1. ASSUME NEW i \in 1..Len(tc) PROVE out2[tc[i].cseq] = out[tc[i].cseq]
  <2>1. tc[i].header = "ok"
    BY DEF Clean, Doomed, Replies
  <2>2. tc[i].cseq < next /\ tc[i].cseq \in CSeq /\ tc[i].cseq \in Nat
    BY <2>1, ResponseTypes DEF Replies
  <2> QED
    BY <2>2
<1>2. \A i \in 1..Len(tc) : ~Doomed(tc[i], out)
  BY <1>1 DEF Clean, Doomed
<1>3. ASSUME NEW c \in CSeq, out[c] # NoMethod PROVE InFlight(c, s, tc)
  <2>1. c # next /\ InFlight(c, s2, tc)
    BY <1>3 DEF Clean
  <2> QED
    BY <2>1 DEF InFlight
<1> QED
  BY <1>1, <1>2, <1>3 DEF Clean

\* What responses will do depends on the table at their CSeqs only.
LEMMA WillBeKept ==
    ASSUME NEW tc, NEW out, NEW out2, NEW now, NEW st, WillBe(tc, out, now, st),
           \A i \in 1..Len(tc) : out2[tc[i].cseq] = out[tc[i].cseq]
    PROVE  WillBe(tc, out2, now, st)
BY DEF WillBe, Moves

\* The first response is handled by a handler that returns, or by none.
LEMMA ReadOne ==
    ASSUME NEW tc \in Seq(Response), tc # <<>>, NEW s, NEW next \in Nat, NEW own,
           Replies(tc, s, next, own), tc[1].header = "ok",
           NEW out \in [CSeq -> Method \cup {NoMethod}], NEW out2,
           out2 = [out EXCEPT ![tc[1].cseq] = NoMethod],
           ~(out[tc[1].cseq] = "SETUP" /\ SetupThrows(tc[1])),
           Clean(s, Tail(tc), out2)
    PROVE  /\ Clean(s, tc, out)
           /\ \A now, now2, st :
                /\ WillBe(tc, out, now, st)
                /\ now2 = IF Moves(tc[1], out) THEN After(out[tc[1].cseq]) ELSE now
                => WillBe(Tail(tc), out2, now2, st)
<1> DEFINE t == Tail(tc)
           c == tc[1].cseq
<1>1. /\ 1 \in 1..Len(tc) /\ tc[1] \in Response
      /\ Len(tc) = Len(t) + 1 /\ Len(t) \in Nat
      /\ \A i \in 1..Len(t) : t[i] = tc[i + 1] /\ i + 1 \in 1..Len(tc)
  BY RepliesTail
<1>2. \A i \in 1..Len(tc) : tc[i].cseq \in CSeq /\ tc[i].cseq \in Nat
  BY ResponseTypes
<1>3. \A d \in CSeq : out2[d] = IF d = c THEN NoMethod ELSE out[d]
  BY <1>1, <1>2
<1>4. Clean(s, t, out2)
  OBVIOUS
<1> HIDE DEF t, c
<1>5. \A i \in 1..Len(t) : out2[t[i].cseq] = out[tc[i + 1].cseq]
  <2> SUFFICES ASSUME NEW i \in 1..Len(t) PROVE out2[t[i].cseq] = out[tc[i + 1].cseq]
    OBVIOUS
  <2>1. t[i] = tc[i + 1] /\ i + 1 \in 1..Len(tc) /\ 1 < i + 1
    BY <1>1
  <2>2. tc[i + 1].header = "ok"
    BY <1>4, <2>1 DEF Clean, Doomed, Replies
  <2>3. c < tc[i + 1].cseq
    BY <1>1, <2>1, <2>2 DEF Replies, c
  <2>4. c # tc[i + 1].cseq
    BY <1>1, <1>2, <2>1, <2>3 DEF c
  <2> QED
    BY <1>2, <1>3, <2>1, <2>4
<1>6. \A i \in 1..Len(tc) : i = 1 \/ \E j \in 1..Len(t) : i = j + 1
  <2> SUFFICES ASSUME NEW i \in 1..Len(tc), i # 1 PROVE \E j \in 1..Len(t) : i = j + 1
    OBVIOUS
  <2>1. i - 1 \in 1..Len(t) /\ i = (i - 1) + 1
    BY <1>1
  <2> QED
    BY <2>1
<1>7. Clean(s, tc, out)
  <2>1. ASSUME NEW i \in 1..Len(tc) PROVE ~Doomed(tc[i], out)
    <3>1. CASE i = 1
      BY <3>1 DEF Doomed
    <3>2. ASSUME NEW j \in 1..Len(t), i = j + 1 PROVE ~Doomed(tc[i], out)
      <4>1. ~Doomed(t[j], out2) /\ t[j] = tc[j + 1]
        BY <1>1, <1>4 DEF Clean
      <4> QED
        BY <1>5, <3>2, <4>1 DEF Doomed
    <3> QED
      BY <1>6, <3>1, <3>2
  <2>2. ASSUME NEW d \in CSeq, out[d] # NoMethod PROVE InFlight(d, s, tc)
    <3>1. CASE d = c
      BY <1>1, <3>1 DEF InFlight, c
    <3>2. CASE d # c
      <4>1. InFlight(d, s, t)
        BY <1>3, <1>4, <2>2, <3>2 DEF Clean
      <4> QED
        BY <1>1, <4>1 DEF InFlight
    <3> QED
      BY <3>1, <3>2
  <2> QED
    BY <2>1, <2>2 DEF Clean
<1>8. ASSUME NEW now, NEW now2, NEW st, WillBe(tc, out, now, st),
             now2 = IF Moves(tc[1], out) THEN After(out[tc[1].cseq]) ELSE now
      PROVE  WillBe(t, out2, now2, st)
  <2>1. \A i \in 1..Len(t) : Moves(t[i], out2) <=> Moves(tc[i + 1], out)
    BY <1>5, Zenon DEF Moves
  <2>2. ASSUME NEW i \in 1..Len(t), Moves(t[i], out2),
               \A j \in 1..Len(t) : i < j => ~Moves(t[j], out2)
        PROVE  After(out2[t[i].cseq]) = st
    <3>1. i + 1 \in 1..Len(tc) /\ Moves(tc[i + 1], out)
      BY <1>1, <2>1, <2>2
    <3>2. ASSUME NEW k \in 1..Len(tc), i + 1 < k PROVE ~Moves(tc[k], out)
      <4>1. k # 1
        BY <3>2
      <4>2. PICK j \in 1..Len(t) : k = j + 1
        BY <1>6, <4>1
      <4>3. i < j
        BY <1>1, <3>2, <4>2
      <4> QED
        BY <2>1, <2>2, <4>2, <4>3
    <3>3. After(out[tc[i + 1].cseq]) = st
      BY <1>8, <3>1, <3>2 DEF WillBe
    <3> QED
      BY <1>5, <3>3
  <2>3. ASSUME \A i \in 1..Len(t) : ~Moves(t[i], out2) PROVE now2 = st
    <3>1. \A k \in 1..Len(tc) : k # 1 => ~Moves(tc[k], out)
      BY <1>6, <2>1, <2>3
    <3>2. CASE Moves(tc[1], out)
      <4>1. \A k \in 1..Len(tc) : 1 < k => ~Moves(tc[k], out)
        BY <3>1
      <4>2. After(out[tc[1].cseq]) = st
        BY <1>1, <1>8, <3>2, <4>1 DEF WillBe
      <4> QED
        BY <1>8, <3>2, <4>2
    <3>3. CASE ~Moves(tc[1], out)
      <4>1. \A k \in 1..Len(tc) : ~Moves(tc[k], out)
        BY <3>1, <3>3
      <4> QED
        BY <1>8, <3>3, <4>1 DEF WillBe
    <3> QED
      BY <3>2, <3>3
  <2> QED
    BY <2>2, <2>3 DEF WillBe
<1> QED
  BY <1>7, <1>8 DEF t

\* A call that has got lost can no longer be cleared.
LEMMA LostUnclean ==
    ASSUME NEW c, NEW s, NEW tc, NEW out, Lost(c, s, tc, out)
    PROVE  ~Clean(s, tc, out)
BY DEF Lost, Clean

\* It stays lost when less is on its way, or more for other calls.
LEMMA LostKept ==
    ASSUME NEW c, NEW s, NEW s2, NEW tc, NEW tc2, NEW out, NEW out2, Lost(c, s, tc, out),
           out2[c] = out[c],
           \A i \in 1..Len(s2) : (\E j \in 1..Len(s) : s2[i] = s[j]) \/ s2[i].cseq # c,
           \A i \in 1..Len(tc2) : \/ \E j \in 1..Len(tc) : tc2[i] = tc[j]
                                  \/ tc2[i].header # "ok" \/ tc2[i].cseq # c
    PROVE  Lost(c, s2, tc2, out2)
BY DEF Lost, InFlight

\* A request that is taken without an answer is lost.
LEMMA LostRequest ==
    ASSUME NEW s \in Seq(Request), NEW out, NEW next \in Nat, NEW own,
           Sent(s, out, next, own), NEW k \in Nat \ {0},
           NEW t \in Seq(Request), Len(t) + k = Len(s), \A i \in 1..Len(t) : t[i] = s[i + k],
           NEW tc \in Seq(Response),
           \A i \in 1..Len(tc) : tc[i].header = "ok" => tc[i].cseq # s[k].cseq
    PROVE  Lost(s[k].cseq, t, tc, out)
<1>1. k \in 1..Len(s) /\ \A j \in 1..Len(t) : j + k \in 1..Len(s) /\ k < j + k
  OBVIOUS
<1>2. s[k].cseq \in CSeq /\ s[k].cseq \in Nat /\ out[s[k].cseq] # NoMethod
  <2>1. s[k] \in Request
    BY <1>1
  <2> QED
    BY <1>1, <2>1, RequestTypes DEF Sent
<1>3. ASSUME NEW j \in 1..Len(t) PROVE t[j].cseq # s[k].cseq
  <2>1. s[k].cseq < s[j + k].cseq /\ t[j] = s[j + k]
    BY <1>1 DEF Sent
  <2>2. s[j + k] \in Request
    BY <1>1
  <2> QED
    BY <1>2, <2>1, <2>2, RequestTypes
<1> QED
  BY <1>2, <1>3 DEF Lost, InFlight

\* The first request is answered.
LEMMA AnswerOne ==
    ASSUME NEW tc \in Seq(Response), NEW s \in Seq(Request), s # <<>>, NEW out,
           NEW e \in Response, e.header = "ok", e.cseq = s[1].cseq,
           Clean(Tail(s), Append(tc, e), out)
    PROVE  /\ Clean(s, tc, out) /\ ~Doomed(e, out)
           /\ \A now, was, st :
                /\ WillBe(tc, out, now, was)
                /\ IF Moves(e, out) THEN After(out[e.cseq]) = st ELSE was = st
                => WillBe(Append(tc, e), out, now, st)
           /\ \A now, st : Moves(e, out) /\ After(out[e.cseq]) = st
                             => WillBe(Append(tc, e), out, now, st)
<1> DEFINE d == Append(tc, e)
           t == Tail(s)
<1>1. /\ Len(d) = Len(tc) + 1 /\ d[Len(tc) + 1] = e /\ Len(tc) \in Nat
      /\ \A i \in 1..Len(tc) : d[i] = tc[i] /\ i \in 1..Len(d)
      /\ Len(tc) + 1 \in 1..Len(d)
  OBVIOUS
<1>2. /\ 1 \in 1..Len(s)
      /\ \A i \in 1..Len(t) : t[i] = s[i + 1] /\ i + 1 \in 1..Len(s)
  OBVIOUS
<1>3. Clean(t, d, out)
  OBVIOUS
<1> HIDE DEF d, t
<1>4. \A i \in 1..Len(d) : i \in 1..Len(tc) \/ i = Len(tc) + 1
  BY <1>1
<1>5. Clean(s, tc, out)
  <2>1. \A i \in 1..Len(tc) : ~Doomed(tc[i], out)
    BY <1>1, <1>3 DEF Clean
  <2>2. ASSUME NEW c \in CSeq, out[c] # NoMethod PROVE InFlight(c, s, tc)
    <3>1. InFlight(c, t, d)
      BY <1>3, <2>2 DEF Clean
    <3>2. CASE \E i \in 1..Len(t) : t[i].cseq = c
      BY <1>2, <3>2 DEF InFlight
    <3>3. CASE \E i \in 1..Len(d) : d[i].header = "ok" /\ d[i].cseq = c
      <4>1. PICK i \in 1..Len(d) : d[i].header = "ok" /\ d[i].cseq = c
        BY <3>3
      <4>2. CASE i \in 1..Len(tc)
        BY <1>1, <4>1, <4>2 DEF InFlight
      <4>3. CASE i = Len(tc) + 1
        BY <1>1, <1>2, <4>1, <4>3 DEF InFlight
      <4> QED
        BY <1>4, <4>2, <4>3
    <3> QED
      BY <3>1, <3>2, <3>3 DEF InFlight
  <2> QED
    BY <2>1, <2>2 DEF Clean
<1>6. ~Doomed(e, out)
  BY <1>1, <1>3 DEF Clean
<1>7. ASSUME NEW now, NEW st, Moves(e, out), After(out[e.cseq]) = st
      PROVE  WillBe(d, out, now, st)
  <2>1. ASSUME NEW i \in 1..Len(d), Moves(d[i], out),
               \A j \in 1..Len(d) : i < j => ~Moves(d[j], out)
        PROVE  After(out[d[i].cseq]) = st
    <3>1. ~(i < Len(tc) + 1)
      BY <1>1, <1>7, <2>1
    <3>2. i = Len(tc) + 1
      BY <1>1, <3>1
    <3> QED
      BY <1>1, <1>7, <3>2
  <2>2. ~\A i \in 1..Len(d) : ~Moves(d[i], out)
    BY <1>1, <1>7
  <2> QED
    BY <2>1, <2>2 DEF WillBe
<1>8. ASSUME NEW now, NEW st, WillBe(tc, out, now, st), ~Moves(e, out)
      PROVE  WillBe(d, out, now, st)
  <2>1. ASSUME NEW i \in 1..Len(d), Moves(d[i], out),
               \A j \in 1..Len(d) : i < j => ~Moves(d[j], out)
        PROVE  After(out[d[i].cseq]) = st
    <3>1. i # Len(tc) + 1
      BY <1>1, <1>8, <2>1
    <3>2. i \in 1..Len(tc) /\ Moves(tc[i], out) /\ d[i] = tc[i]
      BY <1>1, <1>4, <2>1, <3>1
    <3>3. \A j \in 1..Len(tc) : i < j => ~Moves(tc[j], out)
      BY <1>1, <2>1
    <3> QED
      BY <1>8, <3>2, <3>3 DEF WillBe
  <2>2. ASSUME \A i \in 1..Len(d) : ~Moves(d[i], out) PROVE now = st
    <3>1. \A i \in 1..Len(tc) : ~Moves(tc[i], out)
      BY <1>1, <2>2
    <3> QED
      BY <1>8, <3>1 DEF WillBe
  <2> QED
    BY <2>1, <2>2 DEF WillBe
<1> QED
  BY <1>5, <1>6, <1>7, <1>8 DEF d

-----------------------------------------------------------------------------
(* Steps that leave a part of the state alone.                             *)

IInv == Structure /\ AgreeInv

\* The table is left alone.
LEMMA TableKept ==
    ASSUME TableInv, UNCHANGED <<sessions, byHost, issued>>
    PROVE  TableInv' /\ Live' = Live
<1>1. Live' = Live
  BY DEF Live, Server!Live
<1> QED
  BY <1>1 DEF TableInv

\* Nothing that the agreement is about changes.
LEMMA AgreeKept ==
    ASSUME AgreeInv,
           UNCHANGED <<sessions, mine, toServer, toClient, outstanding, state>>
    PROVE  AgreeInv'
BY DEF AgreeInv, Live, Server!Live

\* The client has no session that lives.
LEMMA AgreeVacuous == ASSUME mine' \cap Live' = {} PROVE AgreeInv'
BY DEF AgreeInv

\* The same of the client's own variables.
LEMMA SentRegistered ==
    ASSUME NEW s \in Seq(Request), NEW e \in Request, nextCseq \in Nat,
           nextCseq' = nextCseq + 1, Sent(s, outstanding, nextCseq, mine),
           e.cseq = nextCseq, outstanding'[nextCseq] = e.method,
           e.session \in mine \cup {NoSession},
           \A c \in CSeq : c # nextCseq => outstanding'[c] = outstanding[c]
    PROVE  /\ Sent(s, outstanding', nextCseq', mine)
           /\ Append(s, e) \in Seq(Request)
           /\ Sent(Append(s, e), outstanding', nextCseq', mine)
BY SentNext

\* send_request: the request gets a free CSeq, and may follow those sent.
LEMMA RegisteredWire ==
    ASSUME Structure, NEW m \in Method, nextCseq < MaxCalls, Registered(m), mkn' \in BOOLEAN
    PROVE  /\ nextCseq \in Nat /\ nextCseq' = nextCseq + 1 /\ nextCseq' \in 0..MaxCalls
           /\ outstanding' \in [CSeq -> Method \cup {NoMethod}]
           /\ \A c \in CSeq : c >= nextCseq' => outstanding'[c] = NoMethod
           /\ \A c \in CSeq : c # nextCseq => outstanding'[c] = outstanding[c]
           /\ outstanding[nextCseq] = NoMethod
           /\ NewRequest(m) \in Request /\ NewRequest(m).cseq = nextCseq
           /\ \A s \in {toServer, unsent} :
                /\ Sent(s, outstanding', nextCseq', mine)
                /\ Append(s, NewRequest(m)) \in Seq(Request)
                /\ Sent(Append(s, NewRequest(m)), outstanding', nextCseq', mine)
           /\ Replies(toClient, toServer, nextCseq', mine)
           /\ Replies(toClient, Append(toServer, NewRequest(m)), nextCseq', mine)
<1>1. nextCseq \in CSeq /\ nextCseq \in Nat /\ MaxCalls \in Nat
  BY ClientAssumption DEF Structure, PlayerTypeOK, ClientTypeOK, CSeq
<1>2. /\ outstanding \in [CSeq -> Method \cup {NoMethod}]
      /\ outstanding' = [outstanding EXCEPT ![nextCseq] = m]
      /\ nextCseq' = nextCseq + 1
  BY DEF Structure, PlayerTypeOK, ClientTypeOK, Registered
<1>3. \A c \in CSeq : c \in Nat /\ outstanding'[c] = IF c = nextCseq THEN m ELSE outstanding[c]
  BY <1>1, <1>2 DEF CSeq
<1>4. \A c \in CSeq : c >= nextCseq => outstanding[c] = NoMethod
  BY DEF Structure, RoomInv
<1>5. outstanding' \in [CSeq -> Method \cup {NoMethod}]
  BY <1>2
<1>6. \A c \in CSeq : c >= nextCseq' => outstanding'[c] = NoMethod
  BY <1>1, <1>2, <1>3, <1>4
<1>7. PICK e \in Request : /\ e = NewRequest(m) /\ e.cseq = nextCseq /\ e.method = m
                          /\ e.session \in mine \cup {NoSession}
  <2> DEFINE e == NewRequest(m)
  <2>1. identifier \in SessionId \cup {NoSession} /\ identifier \in mine \cup {NoSession}
    BY DEF Structure, PlayerTypeOK, ClientTypeOK, SessionInv
  <2>2. (m = "SETUP" /\ mkn') \in BOOLEAN
    BY Zenon
  <2>3. e.cseq = nextCseq /\ e.method = m /\ e.session \in {identifier, NoSession}
    BY DEF NewRequest
  <2>4. e \in Request
    BY <1>1, <2>1, <2>2 DEF NewRequest, Request
  <2> QED
    BY <2>1, <2>3, <2>4
<1>8. toServer \in Seq(Request) /\ unsent \in Seq(Request) /\ toClient \in Seq(Response)
  BY DEF Structure, PlayerTypeOK, ClientTypeOK
<1>9. /\ Sent(toServer, outstanding, nextCseq, mine)
      /\ Sent(unsent, outstanding, nextCseq, mine)
      /\ Replies(toClient, toServer, nextCseq, mine)
  BY DEF Structure, WireInv
<1>10. outstanding[nextCseq] = NoMethod
  BY <1>1, <1>4
<1>11. ASSUME NEW s \in Seq(Request), Sent(s, outstanding, nextCseq, mine)
       PROVE  /\ Sent(s, outstanding', nextCseq', mine)
              /\ Append(s, e) \in Seq(Request)
              /\ Sent(Append(s, e), outstanding', nextCseq', mine)
  <2>1. \A c \in CSeq : c # nextCseq => outstanding'[c] = outstanding[c]
    BY <1>3
  <2>2. outstanding'[nextCseq] = e.method
    BY <1>1, <1>3, <1>7
  <2> QED
    BY <1>1, <1>2, <1>7, <1>11, <2>1, <2>2, SentRegistered
<1>12. ASSUME NEW t \in Seq(Request),
              \A j \in 1..Len(t) : (\E i \in 1..Len(toServer) : t[j] = toServer[i])
                                   \/ t[j].cseq >= nextCseq
       PROVE  Replies(toClient, t, nextCseq', mine)
  <2>1. nextCseq' \in Nat /\ nextCseq <= nextCseq'
    BY <1>1, <1>2
  <2> QED
    BY <1>1, <1>8, <1>9, <1>12, <2>1, RepliesKept
<1>13. Replies(toClient, toServer, nextCseq', mine)
  BY <1>8, <1>12
<1>14. Replies(toClient, Append(toServer, e), nextCseq', mine)
  <2>1. /\ Append(toServer, e) \in Seq(Request)
        /\ \A j \in 1..Len(Append(toServer, e)) :
             (\E i \in 1..Len(toServer) : Append(toServer, e)[j] = toServer[i])
               \/ Append(toServer, e)[j] = e
    BY <1>7, <1>8
  <2>2. \A j \in 1..Len(Append(toServer, e)) :
           (\E i \in 1..Len(toServer) : Append(toServer, e)[j] = toServer[i])
             \/ Append(toServer, e)[j].cseq >= nextCseq
    BY <1>1, <1>7, <2>1
  <2> QED
    BY <1>12, <2>1, <2>2
<1>15. nextCseq' \in 0..MaxCalls
  BY <1>1, <1>2
<1>16. \A s \in {toServer, unsent} :
         /\ Sent(s, outstanding', nextCseq', mine)
         /\ Append(s, e) \in Seq(Request)
         /\ Sent(Append(s, e), outstanding', nextCseq', mine)
  BY <1>8, <1>9, <1>11
<1>17. \A c \in CSeq : c # nextCseq => outstanding'[c] = outstanding[c]
  BY <1>3
<1> QED
  BY <1>1, <1>2, <1>5, <1>6, <1>7, <1>10, <1>13, <1>14, <1>15, <1>16, <1>17

-----------------------------------------------------------------------------
(* The client's own steps.                                                 *)

\* Nothing is left of a connection that never was.
LEMMA NothingOld ==
    /\ NoConnection \in OldConnection
    /\ NoConnection.sessions = {} /\ NoConnection.requests = <<>>
BY DEF NoConnection, OldConnection

\* Before the first button is pressed.
LEMMA InitIInv == ASSUME Init PROVE IInv
<1>1. PlayerTypeOK
  <2>1. /\ outstanding \in [CSeq -> Method \cup {NoMethod}] /\ called \in [CSeq -> Nat]
        /\ nextCseq \in 0..MaxCalls /\ clients \in 0..MaxClients
    BY ClientAssumption, PlayerAssumption DEF Init, ClientInit
  <2>2. receiver \in [session: SessionId \cup {NoSession}, statistics: BOOLEAN]
    BY DEF Init, ClientInit, NoReceiver
  <2>3. /\ resolving \in Seq(Method) /\ unsent \in Seq(Request) /\ toServer \in Seq(Request)
        /\ toClient \in Seq(Response)
    BY DEF Init, ClientInit
  <2>4. old \in [1..MaxClients -> OldConnection]
    BY NothingOld DEF Init
  <2> QED
    BY <2>1, <2>2, <2>3, <2>4 DEF Init, ClientInit, PlayerTypeOK, ClientTypeOK
<1>2. sessions \in [SessionId -> Server!Session] /\ Live = {} /\ byHost = {} /\ issued = {}
  BY AbsentSession DEF Init, Server!Init, Live, Server!Live
<1>3. TableInv
  BY <1>2 DEF TableInv
<1>4. SocketInv
  BY DEF Init, ClientInit, SocketInv
<1>5. RoomInv
  BY ClientAssumption DEF Init, ClientInit, RoomInv, Opening
<1>6. WireInv
  BY DEF Init, ClientInit, WireInv, Sent, Replies
<1>7. SessionInv
  BY NothingOld DEF Init, ClientInit, SessionInv, Owned
<1>8. AgreeInv
  BY DEF Init, AgreeInv
<1>9. LostInv
  BY DEF Init, ClientInit, LostInv
<1> QED
  BY <1>1, <1>3, <1>4, <1>5, <1>6, <1>7, <1>8, <1>9 DEF IInv, Structure

\* What the client does for itself leaves the server alone.
ServerKept == UNCHANGED <<tableVars, old, playerVars>> /\ serving' \in BOOLEAN

\* The parts of the invariant that a step of the client leaves alone.
LEMMA ClientStepParts ==
    ASSUME Structure, ServerKept, ClientTypeOK'
    PROVE  PlayerTypeOK' /\ TableInv' /\ Live' = Live /\ UNCHANGED <<mine, issued, sessions, old>>
<1>1. /\ UNCHANGED <<sessions, byHost, issued>> /\ UNCHANGED <<mine, old, clients, crashed>>
      /\ serving' \in BOOLEAN
  BY DEF ServerKept, tableVars, playerVars
<1>2. TableInv' /\ Live' = Live
  BY <1>1, TableKept DEF Structure
<1>3. PlayerTypeOK'
  BY <1>1 DEF Structure, PlayerTypeOK
<1> QED
  BY <1>1, <1>2, <1>3

\* Nothing is sent or received.
LEMMA WireKept ==
    ASSUME WireInv, UNCHANGED <<toServer, unsent, toClient, outstanding, nextCseq, mine>>
    PROVE  WireInv'
BY DEF WireInv

\* The client's sessions stay what they are.
LEMMA SessionKept ==
    ASSUME SessionInv, UNCHANGED <<mine, issued, old, identifier>>, Live' = Live,
           sock' = "ended" => sock = "ended"
    PROVE  SessionInv'
BY DEF SessionInv

\* Taking the first call that waits for its name leaves room for the next step.
LEMMA TakeResolving ==
    ASSUME Structure, resolving # <<>>, resolving' = Tail(resolving)
    PROVE  /\ resolving' \in Seq(Method) /\ Len(resolving') + 1 = Len(resolving)
           /\ Len(resolving') \in Nat /\ Head(resolving) \in Method
BY DEF Structure, PlayerTypeOK, ClientTypeOK

\* Nothing is sent or received: only the socket, the loops and the options change.
LEMMA LinkIInv ==
    ASSUME IInv, ServerKept, ClientTypeOK', SocketInv',
           nextCseq + Len(resolving') + Opening' <= MaxCalls,
           UNCHANGED <<unsent, toServer, toClient, state, identifier, outstanding, nextCseq>>,
           sock' = "ended" => sock = "ended"
    PROVE  IInv'
<1>1. PlayerTypeOK' /\ TableInv' /\ Live' = Live /\ UNCHANGED <<mine, issued, sessions, old>>
  BY ClientStepParts DEF IInv
<1>2. RoomInv'
  BY DEF IInv, Structure, RoomInv
<1>3. WireInv'
  BY <1>1, WireKept DEF IInv, Structure
<1>4. SessionInv'
  BY <1>1, SessionKept DEF IInv, Structure
<1>5. LostInv'
  BY DEF IInv, Structure, LostInv
<1>6. AgreeInv'
  BY <1>1, AgreeKept DEF IInv
<1> QED
  BY <1>1, <1>2, <1>3, <1>4, <1>5, <1>6 DEF IInv, Structure

\* The handlers of async_connect that have still to run.
LEMMA OpeningType == Opening \in 0..2
BY DEF Opening

\* The name of the host is not resolved.
LEMMA ResolveFailsIInv ==
    ASSUME IInv, ResolveFails, ServerKept
    PROVE  IInv'
<1>1. /\ UNCHANGED <<sock, opener, again, second, unsent, toServer, toClient, readers, state,
                     identifier, receiver, outstanding, called, statistics, mkn, nextCseq>>
      /\ reported' = TRUE
  BY DEF ResolveFails, sessionVars, optionVars
<1>2. resolving' \in Seq(Method) /\ Len(resolving') + 1 = Len(resolving) /\ Len(resolving') \in Nat
  BY TakeResolving DEF ResolveFails, IInv
<1>3. ClientTypeOK'
  BY <1>1, <1>2 DEF IInv, Structure, PlayerTypeOK, ClientTypeOK
<1>4. PlayerTypeOK' /\ TableInv' /\ Live' = Live /\ UNCHANGED <<mine, issued, sessions, old>>
  BY <1>3, ClientStepParts DEF IInv
<1>5. SocketInv'
  BY <1>1, <1>4 DEF IInv, Structure, SocketInv
<1>6. nextCseq + Len(resolving') + Opening' <= MaxCalls
  <2>1. nextCseq \in Nat /\ MaxCalls \in Nat /\ Opening \in Nat /\ Opening' = Opening
    BY <1>1, ClientAssumption, OpeningType
    DEF IInv, Structure, PlayerTypeOK, ClientTypeOK, Opening
  <2> QED
    BY <1>2, <2>1 DEF IInv, Structure, RoomInv
<1> QED
  BY <1>1, <1>3, <1>5, <1>6, LinkIInv

\* The name is resolved: the call opens the socket, or connects it once more, or
\* is lost.
LEMMA ResolvedIInv ==
    ASSUME IInv, Resolved, ServerKept
    PROVE  IInv'
<1>1. /\ UNCHANGED <<unsent, toServer, toClient, readers, state, identifier,
                     receiver, outstanding, called, statistics, mkn, nextCseq>>
      /\ \/ /\ sock \in {"closed", "failed"} /\ sock' = "connecting"
            /\ opener' = Head(resolving) /\ second' = second
            /\ again' \in {"refused", "possible"} /\ reported' = reported
         \/ /\ second' = Head(resolving) /\ again' = "accepted"
            /\ UNCHANGED <<sock, opener, reported>>
         \/ UNCHANGED <<sock, opener, again, second>> /\ reported' = TRUE
  BY DEF Resolved, sessionVars, optionVars
<1>2. /\ resolving' \in Seq(Method) /\ Len(resolving') + 1 = Len(resolving)
      /\ Len(resolving') \in Nat /\ Head(resolving) \in Method
  BY TakeResolving DEF Resolved, IInv
<1>3. ClientTypeOK'
  <2>1. /\ sock' \in {"closed", "connecting", "connected", "failed", "ended"}
        /\ again' \in {"refused", "possible", "accepted", "mixed"} /\ reported' \in BOOLEAN
        /\ opener' \in Method \cup {NoMethod} /\ second' \in Method \cup {NoMethod}
    BY <1>1, <1>2 DEF IInv, Structure, PlayerTypeOK, ClientTypeOK
  <2> QED
    BY <1>1, <1>2, <2>1 DEF IInv, Structure, PlayerTypeOK, ClientTypeOK
<1>4. PlayerTypeOK' /\ TableInv' /\ Live' = Live /\ UNCHANGED <<mine, issued, sessions, old>>
  BY <1>3, ClientStepParts DEF IInv
<1>5. SocketInv'
  BY <1>1, <1>4 DEF IInv, Structure, SocketInv
<1>6. nextCseq + Len(resolving') + Opening' <= MaxCalls
  <2>1. nextCseq \in Nat /\ MaxCalls \in Nat /\ Opening \in 0..2 /\ Opening' \in 0..2
    BY <1>1, ClientAssumption, OpeningType
    DEF IInv, Structure, PlayerTypeOK, ClientTypeOK, Opening
  <2>2. Opening' <= Opening + 1
    <3>1. second' = second \/ opener' = opener
      BY <1>1
    <3> QED
      BY <3>1 DEF Opening
  <2> QED
    BY <1>2, <2>1, <2>2 DEF IInv, Structure, RoomInv
<1>7. sock' = "ended" => sock = "ended"
  BY <1>1
<1> QED
  BY <1>1, <1>3, <1>5, <1>6, <1>7, LinkIInv

\* The connection has ended and all is read.
LEMMA HeaderReadFailsIInv ==
    ASSUME IInv, HeaderReadFails, ServerKept
    PROVE  IInv'
<1>1. /\ UNCHANGED <<sock, resolving, opener, again, second, unsent, toServer, toClient, state,
                     identifier, receiver, outstanding, called, statistics, mkn, nextCseq>>
      /\ readers > 0 /\ readers' = readers - 1 /\ reported' = TRUE
  BY DEF HeaderReadFails, connectionVars, linkVars, sessionVars, optionVars
<1>2. readers' \in Nat
  BY <1>1 DEF IInv, Structure, PlayerTypeOK, ClientTypeOK
<1>3. ClientTypeOK'
  BY <1>1, <1>2 DEF IInv, Structure, PlayerTypeOK, ClientTypeOK
<1>4. PlayerTypeOK' /\ TableInv' /\ Live' = Live /\ UNCHANGED <<mine, issued, sessions, old>>
  BY <1>3, ClientStepParts DEF IInv
<1>5. SocketInv'
  BY <1>1, <1>4 DEF IInv, Structure, SocketInv
<1>6. nextCseq + Len(resolving') + Opening' <= MaxCalls
  BY <1>1 DEF IInv, Structure, RoomInv, Opening
<1> QED
  BY <1>1, <1>3, <1>5, <1>6, LinkIInv

\* The connection is refused, and what waited for it is lost.
LEMMA ConnectFailsIInv ==
    ASSUME IInv, ConnectFails, ServerKept
    PROVE  IInv'
<1>1. /\ UNCHANGED <<resolving, again, second, toServer, toClient, readers, state, identifier,
                     receiver, outstanding, called, statistics, mkn, nextCseq>>
      /\ sock = "connecting" /\ sock' = "failed" /\ opener' = NoMethod /\ unsent' = <<>>
      /\ reported' = TRUE
  BY DEF ConnectFails, sessionVars, optionVars
<1>2. ClientTypeOK'
  BY <1>1 DEF IInv, Structure, PlayerTypeOK, ClientTypeOK
<1>3. PlayerTypeOK' /\ TableInv' /\ Live' = Live /\ UNCHANGED <<mine, issued, sessions, old>>
  BY <1>2, ClientStepParts DEF IInv
<1>4. SocketInv'
  BY <1>1, <1>3 DEF IInv, Structure, SocketInv
<1>5. RoomInv'
  <2>1. /\ nextCseq \in Nat /\ MaxCalls \in Nat /\ Len(resolving) \in Nat
        /\ Opening \in 0..2 /\ Opening' \in 0..2 /\ Opening' <= Opening
    BY <1>1, ClientAssumption DEF IInv, Structure, PlayerTypeOK, ClientTypeOK, Opening
  <2>2. nextCseq + Len(resolving) + Opening' <= MaxCalls
    BY <2>1 DEF IInv, Structure, RoomInv
  <2> QED
    BY <1>1, <2>2 DEF IInv, Structure, RoomInv
<1>6. WireInv'
  <2>1. Sent(unsent', outstanding', nextCseq', mine')
    BY <1>1 DEF Sent
  <2> QED
    BY <1>1, <1>3, <2>1 DEF IInv, Structure, WireInv
<1>7. SessionInv'
  BY <1>1, <1>3, SessionKept DEF IInv, Structure
<1>8. LostInv'
  BY <1>1 DEF IInv, Structure, LostInv
<1>9. AgreeInv'
  BY <1>1, <1>3, AgreeKept DEF IInv
<1> QED
  BY <1>3, <1>4, <1>5, <1>6, <1>7, <1>8, <1>9 DEF IInv, Structure

\* The connection is up, and what waited for it is sent.
LEMMA HandshakeIInv ==
    ASSUME IInv, Handshake, ServerKept
    PROVE  IInv'
<1>1. /\ UNCHANGED <<resolving, opener, again, second, toClient, readers, state, identifier,
                     receiver, outstanding, called, statistics, mkn, nextCseq, reported>>
      /\ sock = "connecting" /\ sock' = "connected" /\ unsent' = <<>>
      /\ toServer' = toServer \o unsent
  BY DEF Handshake, sessionVars, optionVars
<1>2. toServer = <<>> /\ toClient = <<>> /\ mine = {} /\ unsent \in Seq(Request)
  BY <1>1 DEF IInv, Structure, SocketInv, PlayerTypeOK, ClientTypeOK
<1>3. toServer' = unsent
  BY <1>1, <1>2
<1>4. ClientTypeOK'
  BY <1>1, <1>2, <1>3 DEF IInv, Structure, PlayerTypeOK, ClientTypeOK
<1>5. PlayerTypeOK' /\ TableInv' /\ Live' = Live /\ UNCHANGED <<mine, issued, sessions, old>>
  BY <1>4, ClientStepParts DEF IInv
<1>6. SocketInv'
  BY <1>1 DEF SocketInv
<1>7. RoomInv'
  BY <1>1 DEF IInv, Structure, RoomInv, Opening
<1>8. WireInv'
  <2>1. Sent(unsent', outstanding', nextCseq', mine')
    BY <1>1 DEF Sent
  <2>2. Replies(toClient', toServer', nextCseq', mine')
    BY <1>1, <1>2 DEF Replies
  <2> QED
    BY <1>1, <1>3, <1>5, <2>1, <2>2 DEF IInv, Structure, WireInv
<1>9. SessionInv'
  BY <1>1, <1>5, SessionKept DEF IInv, Structure
<1>10. LostInv'
  BY <1>1, <1>2 DEF LostInv
<1>11. AgreeInv'
  BY <1>2, <1>5, AgreeVacuous
<1> QED
  BY <1>5, <1>6, <1>7, <1>8, <1>9, <1>10, <1>11 DEF IInv, Structure

\* What a new request may make of the queue and of the table.
OneMore(s2, out2) ==
    /\ s2 \in Seq(Request) /\ outstanding[nextCseq] = NoMethod
    /\ \A c \in CSeq : c # nextCseq => out2[c] = outstanding[c]
    /\ \A j \in 1..Len(s2) : (\E i \in 1..Len(toServer) : s2[j] = toServer[i])
                             \/ s2[j].cseq = nextCseq

\* CleanBefore of the client's own variables.
LEMMA CleanSent ==
    ASSUME Structure, NEW s2, NEW out2, OneMore(s2, out2), Clean(s2, toClient, out2)
    PROVE  /\ Clean(toServer, toClient, outstanding)
           /\ \A i \in 1..Len(toClient) : out2[toClient[i].cseq] = outstanding[toClient[i].cseq]
<1>1. /\ toServer \in Seq(Request) /\ toClient \in Seq(Response) /\ nextCseq \in Nat
      /\ Replies(toClient, toServer, nextCseq, mine)
  BY ClientAssumption DEF Structure, PlayerTypeOK, ClientTypeOK, WireInv
<1> QED
  BY <1>1, CleanBefore DEF OneMore

\* A request that is sent over the connection leaves the responses on their way
\* as they are; if it can be answered so can all before it.
LEMMA SentAgree ==
    ASSUME Structure, AgreeInv, NEW m \in Method, nextCseq < MaxCalls, Registered(m),
           mkn' \in BOOLEAN, toServer' = Append(toServer, NewRequest(m)),
           UNCHANGED <<toClient, mine, state, sessions>>, Live' = Live
    PROVE  AgreeInv'
<1> SUFFICES ASSUME Clean(toServer', toClient, outstanding')
             PROVE  AgreeInv'
  BY Zenon DEF AgreeInv
<1>1. /\ nextCseq \in Nat /\ outstanding[nextCseq] = NoMethod
      /\ \A c \in CSeq : c # nextCseq => outstanding'[c] = outstanding[c]
      /\ NewRequest(m).cseq = nextCseq
  BY RegisteredWire
<1>2. PICK s2 \in Seq(Request) : s2 = toServer'
  BY RegisteredWire
<1>3. PICK out2 : out2 = outstanding'
  OBVIOUS
<1>4. /\ toServer \in Seq(Request) /\ toClient \in Seq(Response)
      /\ Replies(toClient, toServer, nextCseq, mine)
  BY DEF Structure, PlayerTypeOK, ClientTypeOK, WireInv
<1>5. \A j \in 1..Len(s2) : (\E i \in 1..Len(toServer) : s2[j] = toServer[i])
                            \/ s2[j].cseq = nextCseq
  <2>1. PICK e : e = NewRequest(m)
    OBVIOUS
  <2>2. s2 = Append(toServer, e)
    BY <1>2, <2>1
  <2>3. \A j \in 1..Len(s2) : (\E i \in 1..Len(toServer) : s2[j] = toServer[i]) \/ s2[j] = e
    BY <1>4, <2>2
  <2> QED
    BY <1>1, <2>1, <2>3
<1>6. OneMore(s2, out2) /\ Clean(s2, toClient, out2)
  BY <1>1, <1>2, <1>3, <1>5 DEF OneMore
<1>7. /\ Clean(toServer, toClient, outstanding)
      /\ \A i \in 1..Len(toClient) : out2[toClient[i].cseq] = outstanding[toClient[i].cseq]
  BY <1>6, CleanSent
<1>8. ASSUME NEW id \in SessionId, mine = {id}, id \in Live
      PROVE  /\ sessions[id].state \in {"ready", "playing"}
             /\ WillBe(toClient, out2, state, sessions[id].state)
  <2>1. /\ sessions[id].state \in {"ready", "playing"}
        /\ WillBe(toClient, outstanding, state, sessions[id].state)
    BY <1>7, <1>8, Zenon DEF AgreeInv
  <2> QED
    BY <1>7, <2>1, WillBeKept
<1> QED
  BY <1>3, <1>8, Zenon DEF AgreeInv

\* A new request does not bring back a call that has got lost.
LEMMA SentLost ==
    ASSUME Structure, NEW m \in Method, nextCseq < MaxCalls, Registered(m), mkn' \in BOOLEAN,
           toServer' \in {toServer, Append(toServer, NewRequest(m))}, toClient' = toClient
    PROVE  LostInv'
<1>1. /\ outstanding[nextCseq] = NoMethod /\ NewRequest(m).cseq = nextCseq
      /\ \A c \in CSeq : c # nextCseq => outstanding'[c] = outstanding[c]
  BY RegisteredWire
<1>2. PICK e : e = NewRequest(m)
  OBVIOUS
<1>3. toServer \in Seq(Request)
  BY DEF Structure, PlayerTypeOK, ClientTypeOK
<1>4. \A j \in 1..Len(toServer') : (\E i \in 1..Len(toServer) : toServer'[j] = toServer[i])
                                    \/ toServer'[j].cseq = nextCseq
  <2>1. CASE toServer' = toServer
    BY <2>1
  <2>2. CASE toServer' = Append(toServer, e)
    <3>1. \A j \in 1..Len(toServer') :
             (\E i \in 1..Len(toServer) : toServer'[j] = toServer[i]) \/ toServer'[j] = e
      BY <1>3, <2>2
    <3> QED
      BY <1>1, <1>2, <3>1
  <2> QED
    BY <1>2, <2>1, <2>2
<1>5. ASSUME NEW c \in CSeq, Lost(c, toServer, toClient, outstanding)
      PROVE  Lost(c, toServer', toClient', outstanding')
  <2>1. c # nextCseq /\ outstanding'[c] = outstanding[c]
    BY <1>1, <1>5 DEF Lost
  <2>2. \A j \in 1..Len(toServer') : (\E i \in 1..Len(toServer) : toServer'[j] = toServer[i])
                                      \/ toServer'[j].cseq # c
    BY <1>4, <2>1
  <2> QED
    BY <1>5, <2>1, <2>2, LostKept
<1> QED
  BY <1>5 DEF Structure, LostInv

\* send_request, with whatever becomes of the handlers and the loops.
LEMMA SendIInv ==
    ASSUME IInv, NEW m \in Method, mkn' \in BOOLEAN, ServerKept, SendRequest(m),
           nextCseq + Len(resolving) + Opening' < MaxCalls,
           UNCHANGED <<sock, resolving, toClient, statistics>>,
           opener' \in {opener, NoMethod}, second' \in {second, NoMethod},
           again' \in {again, "mixed"}, readers' \in Nat
    PROVE  IInv'
<1>1. /\ nextCseq \in Nat /\ MaxCalls \in Nat /\ Len(resolving) \in Nat /\ Opening' \in Nat
      /\ nextCseq < MaxCalls /\ nextCseq + 1 + Len(resolving) + Opening' <= MaxCalls
  <2>1. nextCseq \in Nat /\ MaxCalls \in Nat /\ Len(resolving) \in Nat /\ Opening' \in Nat
    BY ClientAssumption DEF IInv, Structure, PlayerTypeOK, ClientTypeOK, Opening
  <2> QED
    BY <2>1
<1>2. Structure /\ AgreeInv /\ Registered(m)
  BY DEF IInv, SendRequest
<1>3. UNCHANGED <<state, identifier, receiver, called>>
  BY <1>2 DEF Registered
<1>4. \/ sock = "connecting" /\ unsent' = Append(unsent, NewRequest(m))
         /\ UNCHANGED <<toServer, reported>>
      \/ sock = "connected" /\ toServer' = Append(toServer, NewRequest(m))
         /\ UNCHANGED <<unsent, reported>>
      \/ sock \in {"failed", "ended"} /\ UNCHANGED <<unsent, toServer>> /\ reported' \in BOOLEAN
  BY <1>2 DEF SendRequest, Structure, PlayerTypeOK, ClientTypeOK
<1>5. /\ nextCseq' = nextCseq + 1 /\ nextCseq' \in 0..MaxCalls
      /\ outstanding' \in [CSeq -> Method \cup {NoMethod}]
      /\ \A c \in CSeq : c >= nextCseq' => outstanding'[c] = NoMethod
      /\ \A s \in {toServer, unsent} :
           /\ Sent(s, outstanding', nextCseq', mine)
           /\ Append(s, NewRequest(m)) \in Seq(Request)
           /\ Sent(Append(s, NewRequest(m)), outstanding', nextCseq', mine)
      /\ Replies(toClient, toServer, nextCseq', mine)
      /\ Replies(toClient, Append(toServer, NewRequest(m)), nextCseq', mine)
  BY <1>1, <1>2, RegisteredWire
<1>6. /\ toServer' \in Seq(Request) /\ Sent(toServer', outstanding', nextCseq', mine)
      /\ unsent' \in Seq(Request) /\ Sent(unsent', outstanding', nextCseq', mine)
      /\ Replies(toClient, toServer', nextCseq', mine)
  <2>1. toServer \in Seq(Request) /\ unsent \in Seq(Request)
    BY <1>2 DEF Structure, PlayerTypeOK, ClientTypeOK
  <2> QED
    BY <1>4, <1>5, <2>1, Zenon
<1>7. /\ reported' \in BOOLEAN
      /\ opener' \in Method \cup {NoMethod} /\ second' \in Method \cup {NoMethod}
      /\ again' \in {"refused", "possible", "accepted", "mixed"}
  BY <1>2, <1>4 DEF Structure, PlayerTypeOK, ClientTypeOK
<1>8. ClientTypeOK'
  BY <1>2, <1>3, <1>5, <1>6, <1>7 DEF Structure, PlayerTypeOK, ClientTypeOK
<1>9. PlayerTypeOK' /\ TableInv' /\ Live' = Live /\ UNCHANGED <<mine, issued, sessions, old>>
  BY <1>2, <1>8, ClientStepParts
<1>10. SocketInv'
  BY <1>2, <1>3, <1>4, <1>9 DEF Structure, SocketInv
<1>11. RoomInv'
  <2>1. nextCseq' + Len(resolving') + Opening' <= MaxCalls
    BY <1>1, <1>5
  <2> QED
    BY <1>5, <2>1 DEF RoomInv
<1>12. WireInv'
  BY <1>6, <1>9 DEF WireInv
<1>13. SessionInv'
  BY <1>2, <1>3, <1>9, SessionKept DEF Structure
<1>14. LostInv'
  <2>1. toServer' \in {toServer, Append(toServer, NewRequest(m))}
    BY <1>4
  <2> QED
    BY <1>1, <1>2, <2>1, SentLost
<1>15. AgreeInv'
  <2>1. CASE sock = "connected"
    <3>1. toServer' = Append(toServer, NewRequest(m))
      BY <1>4, <2>1
    <3> QED
      BY <1>1, <1>2, <1>3, <1>9, <3>1, SentAgree
  <2>2. CASE sock # "connected"
    <3>1. mine \cap Live = {}
      BY <1>2, <1>4, <2>2 DEF Structure, SocketInv, SessionInv
    <3> QED
      BY <1>9, <3>1, AgreeVacuous
  <2> QED
    BY <2>1, <2>2
<1> QED
  BY <1>9, <1>10, <1>11, <1>12, <1>13, <1>14, <1>15 DEF IInv, Structure

\* A handler of async_connect runs: a further loop reads, and the request that
\* the connection was opened for is sent.
LEMMA ConnectedIInv ==
    ASSUME IInv, OpenerConnected \/ SecondConnected, ServerKept
    PROVE  IInv'
<1>1. /\ nextCseq \in Nat /\ Len(resolving) \in Nat /\ MaxCalls \in Nat
      /\ nextCseq + Len(resolving) + Opening <= MaxCalls /\ readers \in Nat /\ mkn \in BOOLEAN
      /\ opener \in Method \cup {NoMethod} /\ second \in Method \cup {NoMethod}
  BY ClientAssumption DEF IInv, Structure, PlayerTypeOK, ClientTypeOK, RoomInv
<1>2. ASSUME NEW m \in Method, Connected(m), Opening' + 1 = Opening, Opening' \in Nat,
             opener' \in {opener, NoMethod}, second' \in {second, NoMethod}
      PROVE  IInv'
  <2>1. /\ UNCHANGED <<sock, resolving, toClient, statistics, mkn>> /\ SendRequest(m)
        /\ readers' = readers + 1 /\ again' \in {again, "mixed"}
    BY <1>2 DEF Connected, optionVars
  <2>2. readers' \in Nat /\ mkn' \in BOOLEAN
    BY <1>1, <2>1
  <2>3. nextCseq + Len(resolving) + Opening' < MaxCalls
    BY <1>1, <1>2
  <2> QED
    BY <1>2, <2>1, <2>2, <2>3, SendIInv
<1>3. CASE OpenerConnected
  <2>1. opener \in Method /\ opener # NoMethod /\ Connected(opener)
        /\ opener' = NoMethod /\ second' = second
    BY <1>1, <1>3 DEF OpenerConnected, Connected
  <2>2. Opening' + 1 = Opening /\ Opening' \in Nat
    BY <2>1 DEF Opening
  <2> QED
    BY <1>2, <2>1, <2>2
<1>4. CASE SecondConnected
  <2>1. second \in Method /\ second # NoMethod /\ Connected(second)
        /\ second' = NoMethod /\ opener' = opener
    BY <1>1, <1>4 DEF SecondConnected, Connected
  <2>2. Opening' + 1 = Opening /\ Opening' \in Nat
    BY <2>1 DEF Opening
  <2> QED
    BY <1>2, <2>1, <2>2
<1> QED
  BY <1>3, <1>4

\* A call whose name is still to be resolved, or that is refused.
LEMMA CallWaits ==
    ASSUME IInv, NEW m \in Method, Room, mkn' \in BOOLEAN, ServerKept,
           UNCHANGED <<sock, opener, again, second, unsent, toServer, toClient, readers, state,
                       identifier, receiver, outstanding, called, statistics, nextCseq>>,
           reported' \in BOOLEAN,
           resolving' = resolving \/ resolving' = Append(resolving, m)
    PROVE  IInv'
<1>1. /\ resolving \in Seq(Method) /\ Len(resolving) \in Nat
      /\ nextCseq \in Nat /\ MaxCalls \in Nat /\ Opening \in Nat /\ Opening' = Opening
  BY ClientAssumption, OpeningType DEF IInv, Structure, PlayerTypeOK, ClientTypeOK, Opening
<1>2. /\ resolving' \in Seq(Method) /\ Len(resolving') \in Nat
      /\ Len(resolving') <= Len(resolving) + 1
  BY <1>1
<1>3. nextCseq + Len(resolving') + Opening' <= MaxCalls
  BY <1>1, <1>2 DEF Room
<1>4. ClientTypeOK'
  BY <1>2 DEF IInv, Structure, PlayerTypeOK, ClientTypeOK
<1>5. PlayerTypeOK' /\ TableInv' /\ Live' = Live /\ UNCHANGED <<mine, issued, sessions, old>>
  BY <1>4, ClientStepParts DEF IInv
<1>6. SocketInv'
  BY <1>5 DEF IInv, Structure, SocketInv
<1> QED
  BY <1>3, <1>4, <1>6, LinkIInv

\* A call of the client that is there.
LEMMA CallCurrentIInv ==
    ASSUME IInv, NEW m \in Method, NEW options, CallCurrent(m, options)
    PROVE  IInv'
<1>1. /\ Room /\ UNCHANGED <<toClient, readers, statistics>>
      /\ ServerKept
  BY DEF CallCurrent, Called, ServerKept, IInv, Structure, PlayerTypeOK
<1>2. mkn' \in BOOLEAN
  <2>1. mkn' = (mkn \/ (m = "SETUP" /\ options))
    BY DEF CallCurrent
  <2> QED
    BY <2>1, Zenon
<1>3. CASE ~Allowed(m)
  <2>1. UNCHANGED <<sock, resolving, opener, again, second, unsent, toServer, state, identifier,
                    receiver, outstanding, called, nextCseq>> /\ reported' = TRUE
    BY <1>3 DEF CallCurrent, Called, connectionVars, linkVars, sessionVars
  <2> QED
    BY <1>1, <1>2, <2>1, CallWaits
<1>4. CASE Allowed(m) /\ sock = "closed"
  <2>1. /\ UNCHANGED <<sock, opener, again, second, unsent, toServer, state, identifier, receiver,
                       outstanding, called, nextCseq, reported>>
        /\ resolving' = Append(resolving, m)
    BY <1>4 DEF CallCurrent, Called, sessionVars
  <2>2. reported' \in BOOLEAN
    BY <2>1 DEF IInv, Structure, PlayerTypeOK, ClientTypeOK
  <2> QED
    BY <1>1, <1>2, <2>1, <2>2, CallWaits
<1>5. CASE Allowed(m) /\ sock # "closed"
  <2>1. SendRequest(m) /\ UNCHANGED <<sock, resolving, opener, again, second>>
    BY <1>5 DEF CallCurrent, Called, linkVars
  <2>2. nextCseq + Len(resolving) + Opening' < MaxCalls /\ readers' \in Nat
    BY <1>1, <2>1 DEF Room, Opening, IInv, Structure, PlayerTypeOK, ClientTypeOK
  <2> QED
    BY <1>1, <1>2, <2>1, <2>2, SendIInv
<1> QED
  BY <1>3, <1>4, <1>5

\* The first response on its way.
LEMMA FirstResponse ==
    ASSUME Structure, toClient # <<>>
    PROVE  /\ sock \in {"connected", "ended"} /\ unsent = <<>>
           /\ Head(toClient) = toClient[1] /\ toClient[1] \in Response
           /\ toClient[1].header \in {"ok", "absent"} /\ toClient[1].status \in {"ok", "error"}
           /\ toClient[1].session \in mine \cup {NoSession}
           /\ toClient[1].cseq \in CSeq /\ CseqOf(toClient[1]) = toClient[1].cseq
<1>1. toClient \in Seq(Response) /\ Replies(toClient, toServer, nextCseq, mine)
  BY DEF Structure, PlayerTypeOK, ClientTypeOK, WireInv
<1>2. Head(toClient) = toClient[1] /\ toClient[1] \in Response /\ 1 \in 1..Len(toClient)
  BY <1>1, RepliesTail
<1>3. /\ toClient[1].header \in {"ok", "absent"} /\ toClient[1].status \in {"ok", "error"}
      /\ toClient[1].session \in mine \cup {NoSession}
  BY <1>1, <1>2 DEF Replies
<1>4. sock \in {"connected", "ended"} /\ unsent = <<>>
  BY DEF Structure, SocketInv
<1>5. toClient[1].cseq \in CSeq
  BY <1>2, ResponseTypes
<1>6. CseqOf(toClient[1]) = toClient[1].cseq
  BY <1>3 DEF CseqOf
<1> QED
  BY <1>2, <1>3, <1>4, <1>5, <1>6

\* What its handler may do to the parts of the state but the last.
LEMMA ReadStructure ==
    ASSUME Structure, ServerKept, toClient # <<>>, toClient' = Tail(toClient),
           UNCHANGED <<linkVars, unsent, toServer, statistics, mkn, nextCseq>>,
           readers' \in Nat, state' \in {"init", "ready", "playing"},
           identifier' \in mine \cup {NoSession},
           receiver' \in [session: SessionId \cup {NoSession}, statistics: BOOLEAN],
           called' \in [CSeq -> Nat], reported' \in BOOLEAN,
           \/ outstanding' = outstanding
           \/ /\ toClient[1].header = "ok"
              /\ outstanding' = [outstanding EXCEPT ![toClient[1].cseq] = NoMethod]
    PROVE  Structure'
<1>1. /\ sock \in {"connected", "ended"} /\ unsent = <<>>
      /\ toClient[1] \in Response /\ toClient[1].cseq \in CSeq
      /\ UNCHANGED <<sock, resolving, opener, again, second>>
  BY FirstResponse DEF linkVars
<1>2. /\ toClient \in Seq(Response) /\ toServer \in Seq(Request) /\ nextCseq \in Nat
      /\ outstanding \in [CSeq -> Method \cup {NoMethod}] /\ mine \subseteq SessionId
  BY DEF Structure, PlayerTypeOK, ClientTypeOK, TableInv, SessionInv
<1>3. PICK c \in CSeq : c = toClient[1].cseq
  BY <1>1
<1>4. \A d \in CSeq : outstanding'[d] = outstanding[d]
                      \/ (d = c /\ outstanding'[d] = NoMethod /\ toClient[1].header = "ok")
  BY <1>2, <1>3
<1>5. outstanding' \in [CSeq -> Method \cup {NoMethod}]
  BY <1>2, <1>3
<1>6. /\ Replies(toClient, toServer, nextCseq, mine) /\ Sent(toServer, outstanding, nextCseq, mine)
  BY DEF Structure, WireInv
<1>7. toClient' \in Seq(Response) /\ Replies(toClient', toServer, nextCseq, mine)
  BY <1>2, <1>6, RepliesTail
<1>8. identifier' \in SessionId \cup {NoSession}
  BY <1>2
<1>9. ClientTypeOK'
  BY <1>1, <1>5, <1>7, <1>8 DEF Structure, PlayerTypeOK, ClientTypeOK
<1>10. PlayerTypeOK' /\ TableInv' /\ Live' = Live /\ UNCHANGED <<mine, issued, sessions, old>>
  BY <1>9, ClientStepParts
<1>11. SocketInv'
  BY <1>1, <1>10 DEF Structure, SocketInv
<1>12. RoomInv'
  <2>1. Opening' = Opening
    BY <1>1 DEF Opening
  <2> QED
    BY <1>1, <1>4, <2>1 DEF Structure, RoomInv
<1>13. WireInv'
  <2>1. \A i \in 1..Len(toServer) : outstanding'[toServer[i].cseq] = outstanding[toServer[i].cseq]
    <3> SUFFICES ASSUME NEW i \in 1..Len(toServer)
                 PROVE  outstanding'[toServer[i].cseq] = outstanding[toServer[i].cseq]
      OBVIOUS
    <3>1. toServer[i].cseq \in CSeq /\ toServer[i].cseq \in Nat
      BY <1>2, RequestTypes
    <3>2. toClient[1].header = "ok" => c < toServer[i].cseq
      BY <1>2, <1>3, <1>6 DEF Replies
    <3>3. c \in Nat
      BY ClientAssumption DEF CSeq
    <3> QED
      BY <1>4, <3>1, <3>2, <3>3
  <2>2. Sent(toServer, outstanding', nextCseq, mine)
    BY <1>6, <2>1, Zenon DEF Sent
  <2>3. Sent(unsent, outstanding', nextCseq, mine)
    BY <1>1 DEF Sent
  <2> QED
    BY <1>7, <1>10, <2>2, <2>3 DEF WireInv
<1>14. SessionInv'
  BY <1>1, <1>10 DEF Structure, SessionInv
<1>15. LostInv'
  <2>1. /\ 1 \in 1..Len(toClient)
        /\ \A i \in 1..Len(toClient') : toClient'[i] = toClient[i + 1] /\ i + 1 \in 1..Len(toClient)
    BY <1>2, <1>6, RepliesTail
  <2>2. ASSUME NEW d \in CSeq, Lost(d, toServer, toClient, outstanding)
        PROVE  Lost(d, toServer', toClient', outstanding')
    <3>1. toClient[1].header = "ok" => d # c
      BY <1>3, <2>1, <2>2 DEF Lost, InFlight
    <3>2. outstanding'[d] = outstanding[d]
      BY <1>4, <3>1
    <3>3. \A i \in 1..Len(toClient') : \E j \in 1..Len(toClient) : toClient'[i] = toClient[j]
      BY <2>1
    <3>4. PICK tc2, out2 : tc2 = toClient' /\ out2 = outstanding'
      OBVIOUS
    <3>5. /\ \A i \in 1..Len(tc2) : \E j \in 1..Len(toClient) : tc2[i] = toClient[j]
          /\ out2[d] = outstanding[d]
      BY <3>2, <3>3, <3>4
    <3>6. Lost(d, toServer, tc2, out2)
      BY <2>2, <3>5, LostKept
    <3>7. toServer' = toServer
      OBVIOUS
    <3> QED
      BY <3>4, <3>6, <3>7
  <2> QED
    BY <2>1, <2>2 DEF Structure, LostInv
<1> QED
  BY <1>10, <1>11, <1>12, <1>13, <1>14, <1>15 DEF Structure

\* A response that is read and leaves its call outstanding: the call is lost.
LEMMA ReadLost ==
    ASSUME Structure, toClient # <<>>,
           toClient[1].header = "absent" \/ outstanding[toClient[1].cseq] # NoMethod
    PROVE  ~Clean(toServer, Tail(toClient), outstanding)
<1>1. /\ toClient \in Seq(Response) /\ toServer \in Seq(Request)
      /\ Replies(toClient, toServer, nextCseq, mine)
  BY DEF Structure, PlayerTypeOK, ClientTypeOK, WireInv
<1>2. PICK t \in Seq(Response) : t = Tail(toClient)
  BY <1>1, RepliesTail
<1>3. /\ 1 \in 1..Len(toClient) /\ toClient[1] \in Response /\ Len(t) \in Nat
      /\ \A i \in 1..Len(t) : t[i] = toClient[i + 1] /\ i + 1 \in 1..Len(toClient) /\ 1 < i + 1
  BY <1>1, <1>2, RepliesTail
<1>4. CASE toClient[1].header = "absent"
  <2>1. PICK c \in CSeq : Lost(c, toServer, toClient, outstanding)
    BY <1>3, <1>4 DEF Structure, LostInv
  <2>2. Lost(c, toServer, t, outstanding)
    BY <1>3, <2>1, LostKept
  <2> QED
    BY <1>2, <2>2, LostUnclean
<1>5. CASE toClient[1].header # "absent" /\ outstanding[toClient[1].cseq] # NoMethod
  <2>1. PICK c \in CSeq : c = toClient[1].cseq
    BY <1>3, ResponseTypes
  <2>2. toClient[1].header = "ok"
    BY <1>1, <1>3, <1>5 DEF Replies
  <2>3. c \in Nat
    BY ClientAssumption DEF CSeq
  <2>4. ASSUME NEW i \in 1..Len(t), t[i].header = "ok" PROVE t[i].cseq # c
    <3>1. c < toClient[i + 1].cseq /\ toClient[i + 1].cseq \in Nat
      BY <1>1, <1>3, <2>1, <2>2, <2>4, ResponseTypes DEF Replies
    <3> QED
      BY <1>3, <2>3, <3>1
  <2>5. ASSUME NEW i \in 1..Len(toServer) PROVE toServer[i].cseq # c
    <3>1. c < toServer[i].cseq /\ toServer[i].cseq \in Nat
      BY <1>1, <1>3, <2>1, <2>2, RequestTypes DEF Replies
    <3> QED
      BY <2>3, <3>1
  <2>6. Lost(c, toServer, t, outstanding)
    BY <1>5, <2>1, <2>4, <2>5 DEF Lost, InFlight
  <2> QED
    BY <1>2, <2>6, LostUnclean
<1> QED
  BY <1>4, <1>5

\* ReadOne of the client's own variables.
LEMMA ReadAgree ==
    ASSUME Structure, AgreeInv, toClient # <<>>, toClient[1].header = "ok",
           ~(outstanding[toClient[1].cseq] = "SETUP" /\ SetupThrows(toClient[1])),
           NEW out2, out2 = [outstanding EXCEPT ![toClient[1].cseq] = NoMethod],
           NEW now2, now2 = IF Moves(toClient[1], outstanding)
                            THEN After(outstanding[toClient[1].cseq]) ELSE state,
           Clean(toServer, Tail(toClient), out2)
    PROVE  \A id \in SessionId :
               mine = {id} /\ id \in Live
                 => /\ sessions[id].state \in {"ready", "playing"}
                    /\ WillBe(Tail(toClient), out2, now2, sessions[id].state)
<1>1. /\ toClient \in Seq(Response) /\ nextCseq \in Nat
      /\ Replies(toClient, toServer, nextCseq, mine)
      /\ outstanding \in [CSeq -> Method \cup {NoMethod}]
  BY DEF Structure, PlayerTypeOK, ClientTypeOK, WireInv
<1>2. /\ Clean(toServer, toClient, outstanding)
      /\ \A st : WillBe(toClient, outstanding, state, st)
                  => WillBe(Tail(toClient), out2, now2, st)
  BY <1>1, ReadOne
<1>3. ASSUME NEW id \in SessionId, mine = {id}, id \in Live
      PROVE  /\ sessions[id].state \in {"ready", "playing"}
             /\ WillBe(Tail(toClient), out2, now2, sessions[id].state)
  <2>1. /\ sessions[id].state \in {"ready", "playing"}
        /\ WillBe(toClient, outstanding, state, sessions[id].state)
    BY <1>2, <1>3, Zenon DEF AgreeInv
  <2> QED
    BY <1>2, <2>1
<1> QED
  BY <1>3

\* A response is handled: the client moves to the state that the response
\* stands for, or the call that it answered is lost.
LEMMA HeaderReadIInv ==
    ASSUME IInv, HeaderRead, ServerKept
    PROVE  IInv'
<1> DEFINE r == toClient[1]
           m == outstanding[r.cseq]
<1>1. /\ readers > 0 /\ toClient # <<>> /\ toClient' = Tail(toClient)
      /\ UNCHANGED <<linkVars, unsent, toServer, statistics, mkn, nextCseq>>
      /\ \/ LET h == Head(toClient) IN ReadNoCseq(h) \/ ReadNothing(h) \/ ReadFinal(h)
         \/ ReadDamaged
  BY DEF HeaderRead, connectionVars, optionVars
<1>2. /\ Head(toClient) = r /\ r \in Response
      /\ r.header \in {"ok", "absent"} /\ r.status \in {"ok", "error"}
      /\ r.session \in mine \cup {NoSession} /\ r.cseq \in CSeq /\ CseqOf(r) = r.cseq
  BY <1>1, FirstResponse DEF IInv
<1>3. Structure /\ AgreeInv
  BY DEF IInv
<1>4. /\ state \in {"init", "ready", "playing"} /\ identifier \in mine \cup {NoSession}
      /\ receiver \in [session: SessionId \cup {NoSession}, statistics: BOOLEAN]
      /\ called \in [CSeq -> Nat] /\ reported \in BOOLEAN /\ statistics \in BOOLEAN
      /\ outstanding \in [CSeq -> Method \cup {NoMethod}]
      /\ mine \subseteq SessionId /\ toClient \in Seq(Response)
      /\ readers \in Nat /\ readers - 1 \in Nat
  BY <1>1, <1>3 DEF Structure, PlayerTypeOK, ClientTypeOK, TableInv, SessionInv
<1>5. UNCHANGED <<mine, sessions>> /\ Live' = Live
  <2>1. UNCHANGED <<sessions, byHost, issued>> /\ mine' = mine
    BY DEF ServerKept, tableVars, playerVars
  <2> QED
    BY <1>3, <2>1, TableKept DEF Structure
<1> HIDE DEF r, m
<1>6. ASSUME r.header = "absent" \/ m # NoMethod, readers' \in Nat,
             state' \in {"init", "ready", "playing"}, identifier' \in mine \cup {NoSession},
             receiver' \in [session: SessionId \cup {NoSession}, statistics: BOOLEAN],
             called' \in [CSeq -> Nat], reported' \in BOOLEAN, outstanding' = outstanding
      PROVE  IInv'
  <2>1. Structure'
    BY <1>1, <1>3, <1>6, ReadStructure
  <2>2. ~Clean(toServer', toClient', outstanding')
    BY <1>1, <1>3, <1>6, ReadLost DEF r, m
  <2>3. AgreeInv'
    BY <2>2, Zenon DEF AgreeInv
  <2> QED
    BY <2>1, <2>3 DEF IInv
<1>7. ASSUME r.header = "ok", readers' \in Nat,
             ~(m = "SETUP" /\ SetupThrows(r)),
             state' = IF m \in Movers THEN After(m) ELSE state,
             identifier' \in mine \cup {NoSession},
             receiver' \in [session: SessionId \cup {NoSession}, statistics: BOOLEAN],
             called' \in [CSeq -> Nat], reported' \in BOOLEAN,
             outstanding' = [outstanding EXCEPT ![r.cseq] = NoMethod]
      PROVE  IInv'
  <2>1. state' \in {"init", "ready", "playing"}
    BY <1>4, <1>7 DEF Movers, After
  <2>3. Structure'
    BY <1>1, <1>3, <1>7, <2>1, ReadStructure DEF r
  <2>4. ASSUME Clean(toServer', toClient', outstanding')
        PROVE  AgreeInv'
    <3>1. PICK out2, now2 : out2 = outstanding' /\ now2 = state'
      OBVIOUS
    <3>2. Clean(toServer, Tail(toClient), out2)
      BY <1>1, <2>4, <3>1
    <3>3. now2 = IF Moves(toClient[1], outstanding)
                 THEN After(outstanding[toClient[1].cseq]) ELSE state
      BY <1>7, <3>1 DEF Moves, r, m
    <3>4. /\ out2 = [outstanding EXCEPT ![toClient[1].cseq] = NoMethod]
          /\ toClient[1].header = "ok"
          /\ ~(outstanding[toClient[1].cseq] = "SETUP" /\ SetupThrows(toClient[1]))
      BY <1>7, <3>1 DEF r, m
    <3>5. \A id \in SessionId :
             mine = {id} /\ id \in Live
               => /\ sessions[id].state \in {"ready", "playing"}
                  /\ WillBe(Tail(toClient), out2, now2, sessions[id].state)
      BY <1>1, <1>3, <3>2, <3>3, <3>4, ReadAgree
    <3>6. toClient' = Tail(toClient)
      BY <1>1
    <3> QED
      BY <1>5, <3>1, <3>5, <3>6, Zenon DEF AgreeInv
  <2>5. AgreeInv'
    BY <2>4, Zenon DEF AgreeInv
  <2> QED
    BY <2>3, <2>5 DEF IInv
<1>8. CASE ReadNoCseq(r)
  <2>1. /\ r.header = "absent" /\ readers' = readers - 1 /\ reported' = TRUE
        /\ UNCHANGED <<state, identifier, receiver, outstanding, called>>
    BY <1>8 DEF ReadNoCseq, sessionVars
  <2>2. identifier' \in mine \cup {NoSession}
    BY <1>4, <2>1
  <2> QED
    BY <1>4, <1>6, <2>1, <2>2
<1>9. CASE ReadNothing(r)
  <2>1. /\ UNCHANGED <<readers, state, identifier, receiver, outstanding, called, reported>>
        /\ r.header = "ok" /\ m = NoMethod
    BY <1>2, <1>9 DEF ReadNothing, sessionVars, m
  <2>2. outstanding' = [outstanding EXCEPT ![r.cseq] = NoMethod]
    BY <1>2, <1>4, <2>1 DEF m
  <2>3. m \notin Movers /\ m # "SETUP"
    BY <2>1 DEF Movers, NoMethod
  <2>4. identifier' \in mine \cup {NoSession}
    BY <1>4, <2>1
  <2> QED
    BY <1>4, <1>7, <2>1, <2>2, <2>3, <2>4
<1>10. CASE ReadFinal(r)
  <2>1. /\ r.header = "ok" /\ m # NoMethod /\ Handle(m, r)
        /\ called' = [called EXCEPT ![r.cseq] = @ + 1]
        /\ IF Throws(m, r)
           THEN readers' = readers - 1 /\ reported' = TRUE /\ outstanding' = outstanding
           ELSE /\ outstanding' = [outstanding EXCEPT ![r.cseq] = NoMethod]
                /\ UNCHANGED <<readers, reported>>
    BY <1>2, <1>10 DEF ReadFinal, m
  <2>2. called' \in [CSeq -> Nat]
    BY <1>2, <1>4, <2>1
  <2>3. identifier' \in mine \cup {NoSession}
    BY <1>2, <1>4, <2>1 DEF Handle
  <2>4. receiver' \in [session: SessionId \cup {NoSession}, statistics: BOOLEAN]
    BY <1>2, <1>4, <2>1 DEF Handle
  <2>5. CASE Throws(m, r)
    <3>1. readers' \in Nat /\ reported' = TRUE /\ outstanding' = outstanding
      BY <1>4, <2>1, <2>5
    <3>2. state' = state
      BY <2>1, <2>5 DEF Handle, Throws
    <3> QED
      BY <1>4, <1>6, <2>1, <2>2, <2>3, <2>4, <3>1, <3>2
  <2>6. CASE ~Throws(m, r)
    <3>1. UNCHANGED <<readers, reported>>
          /\ outstanding' = [outstanding EXCEPT ![r.cseq] = NoMethod]
      BY <2>1, <2>6
    <3>2. ~(m = "SETUP" /\ SetupThrows(r))
      BY <2>6 DEF Throws
    <3>3. state' = IF m \in Movers THEN After(m) ELSE state
      <4>1. state' = CASE m = "SETUP" -> IF SetupThrows(r) THEN state ELSE "ready"
                       [] m = "PLAY" -> "playing" [] m = "PAUSE" -> "ready"
                       [] m = "TEARDOWN" -> "init" [] OTHER -> state
        BY <2>1 DEF Handle
      <4> QED
        BY <3>2, <4>1 DEF Movers, After
    <3> QED
      BY <1>4, <1>7, <2>1, <2>2, <2>3, <2>4, <3>1, <3>2, <3>3
  <2> QED
    BY <2>5, <2>6
<1>11. CASE ReadDamaged
  <2>1. /\ readers' \in Nat /\ reported' \in BOOLEAN
        /\ UNCHANGED <<state, identifier, receiver, outstanding, called>>
    BY <1>4, <1>11 DEF ReadDamaged, sessionVars
  <2>2. identifier' \in mine \cup {NoSession}
    BY <1>4, <2>1
  <2>3. CASE r.header = "absent" \/ m # NoMethod
    BY <1>4, <1>6, <2>1, <2>2, <2>3
  <2>4. CASE r.header = "ok" /\ m = NoMethod
    <3>1. outstanding' = [outstanding EXCEPT ![r.cseq] = NoMethod]
      BY <1>2, <1>4, <2>1, <2>4 DEF m
    <3>2. m \notin Movers /\ m # "SETUP"
      BY <2>4 DEF Movers, NoMethod
    <3> QED
      BY <1>4, <1>7, <2>1, <2>2, <2>4, <3>1, <3>2
  <2> QED
    BY <1>2, <2>3, <2>4
<1> QED
  BY <1>1, <1>2, <1>8, <1>9, <1>10, <1>11

\* Every step of the client.
LEMMA ClientRunsIInv ==
    ASSUME IInv, ClientRuns
    PROVE  IInv'
<1>1. ServerKept
  <2>1. UNCHANGED <<tableVars, old, playerVars>>
        /\ serving' = (serving \/ (sock # "connected" /\ sock' = "connected"))
    BY DEF ClientRuns
  <2>2. serving' \in BOOLEAN
    BY <2>1, Zenon
  <2> QED
    BY <2>1, <2>2 DEF ServerKept
<1> QED
  BY <1>1, ResolvedIInv, ResolveFailsIInv, HandshakeIInv, ConnectedIInv, ConnectFailsIInv,
     HeaderReadIInv, HeaderReadFailsIInv DEF ClientRuns, ClientStep

-----------------------------------------------------------------------------
(* The server's steps.                                                     *)

\* The first k requests are read, and answered or not.
Reads(t, k) ==
    /\ t \in Seq(Request) /\ k \in Nat \ {0} /\ Len(t) + k = Len(toServer)
    /\ \A i \in 1..Len(t) : t[i] = toServer[i + k]
Answers(e, own) ==
    /\ e \in Response /\ e.status \in {"ok", "error"} /\ e.session \in own \cup {NoSession}
    /\ e.header = "absent" \/ (e.header = "ok" /\ e.cseq = toServer[1].cseq)

\* The queues stay in order.
LEMMA ReadsWire ==
    ASSUME Structure, NEW t, NEW k, Reads(t, k), NEW own, mine \subseteq own,
           NEW tc, tc = toClient \/ \E e : Answers(e, own) /\ tc = Append(toClient, e)
    PROVE  /\ tc \in Seq(Response) /\ Sent(t, outstanding, nextCseq, own)
           /\ Replies(tc, t, nextCseq, own) /\ Sent(unsent, outstanding, nextCseq, own)
<1>1. /\ toServer \in Seq(Request) /\ unsent \in Seq(Request) /\ toClient \in Seq(Response)
      /\ nextCseq \in Nat
  BY DEF Structure, PlayerTypeOK, ClientTypeOK
<1>2. /\ Sent(toServer, outstanding, nextCseq, mine)
      /\ Sent(unsent, outstanding, nextCseq, mine)
      /\ Replies(toClient, toServer, nextCseq, mine)
  BY DEF Structure, WireInv
<1>3. /\ Sent(toServer, outstanding, nextCseq, own)
      /\ Sent(unsent, outstanding, nextCseq, own)
  <2>1. nextCseq <= nextCseq
    BY <1>1
  <2> QED
    BY <1>1, <1>2, <2>1, SentKept
<1>4. Replies(toClient, toServer, nextCseq, own)
  <2>1. nextCseq <= nextCseq
    BY <1>1
  <2> QED
    BY <1>1, <1>2, <2>1, RepliesKept
<1>5. Sent(t, outstanding, nextCseq, own)
  BY <1>1, <1>3, SentRest DEF Reads
<1>6. ASSUME tc = toClient
      PROVE  Replies(tc, t, nextCseq, own)
  <2>1. \A j \in 1..Len(t) : \E i \in 1..Len(toServer) : t[j] = toServer[i]
    <3> SUFFICES ASSUME NEW j \in 1..Len(t) PROVE \E i \in 1..Len(toServer) : t[j] = toServer[i]
      OBVIOUS
    <3>1. j + k \in 1..Len(toServer) /\ t[j] = toServer[j + k]
      BY <1>1 DEF Reads
    <3> QED
      BY <3>1
  <2>2. Replies(toClient, t, nextCseq, own)
    <3>1. nextCseq <= nextCseq /\ t \in Seq(Request)
      BY <1>1 DEF Reads
    <3> QED
      BY <1>1, <1>4, <2>1, <3>1, RepliesKept
  <2> QED
    BY <1>6, <2>2
<1>7. ASSUME NEW e, Answers(e, own), tc = Append(toClient, e)
      PROVE  tc \in Seq(Response) /\ Replies(tc, t, nextCseq, own)
  <2>1. Append(toClient, e) \in Seq(Response) /\ Replies(Append(toClient, e), t, nextCseq, own)
    BY <1>1, <1>3, <1>4, <1>7, RepliesMore DEF Answers, Reads
  <2> QED
    BY <1>7, <2>1
<1> QED
  BY <1>1, <1>3, <1>5, <1>6, <1>7

\* What is in a sequence that one response is added to.
LEMMA Appended ==
    ASSUME NEW tc \in Seq(Response), NEW e \in Response, NEW d, d = Append(tc, e)
    PROVE  /\ d \in Seq(Response)
           /\ \A i \in 1..Len(d) : d[i] = e \/ \E j \in 1..Len(tc) : d[i] = tc[j]
<1>1. PICK n \in Nat : n = Len(tc)
  OBVIOUS
<1>2. /\ d \in Seq(Response) /\ Len(d) = n + 1
      /\ d[n + 1] = e /\ \A i \in 1..n : d[i] = tc[i]
  BY <1>1
<1>3. \A i \in 1..(n + 1) : i \in 1..n \/ i = n + 1
  OBVIOUS
<1> QED
  BY <1>1, <1>2, <1>3

\* A request that is read without an answer to it is lost.
LEMMA ReadsLost ==
    ASSUME Structure, NEW t, NEW k, Reads(t, k), NEW own, NEW tc,
           \/ tc = toClient
           \/ \E e : /\ Answers(e, own) /\ tc = Append(toClient, e)
                     /\ k >= 2 \/ e.header = "absent"
    PROVE  toServer[k].cseq \in CSeq /\ Lost(toServer[k].cseq, t, tc, outstanding)
<1>1. /\ toServer \in Seq(Request) /\ toClient \in Seq(Response) /\ nextCseq \in Nat
      /\ Sent(toServer, outstanding, nextCseq, mine)
      /\ Replies(toClient, toServer, nextCseq, mine)
  BY DEF Structure, PlayerTypeOK, ClientTypeOK, WireInv
<1>2. k \in 1..Len(toServer) /\ 1 \in 1..Len(toServer)
  BY <1>1 DEF Reads
<1>3. \A i \in 1..Len(toServer) : toServer[i].cseq \in Nat /\ toServer[i].cseq \in CSeq
  BY <1>1, RequestTypes
<1>4. \A i \in 1..Len(toClient) : toClient[i].cseq \in Nat
  BY <1>1, ResponseTypes
<1>5. \A i \in 1..Len(toClient) :
        toClient[i].header = "ok" => toClient[i].cseq # toServer[k].cseq
  BY <1>1, <1>2, <1>3, <1>4 DEF Replies
<1>6. CASE tc = toClient
  BY <1>1, <1>2, <1>3, <1>5, <1>6, LostRequest DEF Reads
<1>7. ASSUME NEW e, Answers(e, own), tc = Append(toClient, e), k >= 2 \/ e.header = "absent"
      PROVE  Lost(toServer[k].cseq, t, tc, outstanding)
  <2>1. e \in Response /\ (e.header = "ok" => e.cseq = toServer[1].cseq)
    BY <1>7 DEF Answers
  <2>2. k >= 2 => 1 < k /\ toServer[1].cseq < toServer[k].cseq
    BY <1>1, <1>2 DEF Sent, Reads
  <2>3. /\ tc \in Seq(Response)
        /\ \A i \in 1..Len(tc) : tc[i] = e \/ \E j \in 1..Len(toClient) : tc[i] = toClient[j]
    BY <1>1, <1>7, <2>1, Appended
  <2>4. \A i \in 1..Len(tc) : tc[i].header = "ok" => tc[i].cseq # toServer[k].cseq
    <3>1. e.header = "ok" => e.cseq # toServer[k].cseq
      BY <1>2, <1>3, <1>7, <2>1, <2>2
    <3> QED
      BY <1>5, <2>3, <3>1, Zenon
  <2> QED
    BY <1>1, <2>3, <2>4, LostRequest DEF Reads
<1> QED
  BY <1>2, <1>3, <1>6, <1>7

\* A response without a CSeq stands for a lost call, also when it is a new one.
LEMMA ReadsLostInv ==
    ASSUME Structure, NEW t, NEW k, Reads(t, k), NEW own, NEW tc,
           \/ tc = toClient
           \/ \E e : Answers(e, own) /\ tc = Append(toClient, e)
    PROVE  \A i \in 1..Len(tc) :
               tc[i].header = "absent" => \E c \in CSeq : Lost(c, t, tc, outstanding)
<1>1. /\ toServer \in Seq(Request) /\ toClient \in Seq(Response) /\ t \in Seq(Request)
  BY DEF Structure, PlayerTypeOK, ClientTypeOK, Reads
<1>2. 1 \in 1..Len(toServer)
  BY <1>1 DEF Reads
<1>3. \A j \in 1..Len(t) : \E i \in 1..Len(toServer) : t[j] = toServer[i]
  <2> SUFFICES ASSUME NEW j \in 1..Len(t) PROVE \E i \in 1..Len(toServer) : t[j] = toServer[i]
    OBVIOUS
  <2>1. j + k \in 1..Len(toServer) /\ t[j] = toServer[j + k]
    BY <1>1 DEF Reads
  <2> QED
    BY <2>1
<1>4. \A i \in 1..Len(toClient) : toClient[i].header = "absent"
        => \E c \in CSeq : Lost(c, toServer, toClient, outstanding)
  BY DEF Structure, LostInv
<1>5. CASE tc = toClient
  <2>1. ASSUME NEW c \in CSeq, Lost(c, toServer, toClient, outstanding)
        PROVE  Lost(c, t, tc, outstanding)
    BY <1>3, <1>5, <2>1, LostKept
  <2> QED
    BY <1>4, <1>5, <2>1
<1>6. ASSUME NEW e, Answers(e, own), tc = Append(toClient, e)
      PROVE  \A i \in 1..Len(tc) :
                 tc[i].header = "absent" => \E c \in CSeq : Lost(c, t, tc, outstanding)
  <2>1. e \in Response /\ (e.header = "ok" => e.cseq = toServer[1].cseq)
    BY <1>6 DEF Answers
  <2>2. \A i \in 1..Len(tc) : tc[i] = e \/ \E j \in 1..Len(toClient) : tc[i] = toClient[j]
    BY <1>1, <1>6, <2>1, Appended
  <2>3. ASSUME NEW c \in CSeq, Lost(c, toServer, toClient, outstanding)
        PROVE  Lost(c, t, tc, outstanding)
    <3>1. toServer[1].cseq # c
      BY <1>2, <2>3 DEF Lost, InFlight
    <3>2. e.header # "ok" \/ e.cseq # c
      BY <2>1, <3>1
    <3>3. \A i \in 1..Len(tc) : \/ \E j \in 1..Len(toClient) : tc[i] = toClient[j]
                                \/ tc[i].header # "ok" \/ tc[i].cseq # c
      BY <2>2, <3>2
    <3> QED
      BY <1>3, <2>3, <3>3, LostKept
  <2>4. e.header = "absent"
          => toServer[k].cseq \in CSeq /\ Lost(toServer[k].cseq, t, tc, outstanding)
    BY <1>6, ReadsLost
  <2> QED
    BY <1>4, <2>2, <2>3, <2>4
<1> QED
  BY <1>5, <1>6

\* AnswerOne of the connection.
LEMMA AnswerAgree ==
    ASSUME Structure, toServer # <<>>, NEW e, Answers(e, mine \cup {e.session}), e.header = "ok",
           Clean(Tail(toServer), Append(toClient, e), outstanding)
    PROVE  /\ Clean(toServer, toClient, outstanding) /\ ~Doomed(e, outstanding)
           /\ outstanding[e.cseq] = toServer[1].method
           /\ \A st : WillBe(toClient, outstanding, state, st) /\ ~Moves(e, outstanding)
                        => WillBe(Append(toClient, e), outstanding, state, st)
           /\ \A st : Moves(e, outstanding) /\ After(outstanding[e.cseq]) = st
                        => WillBe(Append(toClient, e), outstanding, state, st)
<1>1. /\ toServer \in Seq(Request) /\ toClient \in Seq(Response)
      /\ Sent(toServer, outstanding, nextCseq, mine)
  BY DEF Structure, PlayerTypeOK, ClientTypeOK, WireInv
<1>2. e \in Response /\ e.cseq = toServer[1].cseq
  BY DEF Answers
<1>3. outstanding[e.cseq] = toServer[1].method
  <2>1. 1 \in 1..Len(toServer)
    BY <1>1
  <2> QED
    BY <1>1, <1>2, <2>1 DEF Sent
<1>4. /\ Clean(toServer, toClient, outstanding) /\ ~Doomed(e, outstanding)
      /\ \A now, was, st :
           /\ WillBe(toClient, outstanding, now, was)
           /\ IF Moves(e, outstanding) THEN After(outstanding[e.cseq]) = st ELSE was = st
           => WillBe(Append(toClient, e), outstanding, now, st)
      /\ \A now, st : Moves(e, outstanding) /\ After(outstanding[e.cseq]) = st
                        => WillBe(Append(toClient, e), outstanding, now, st)
  BY <1>1, <1>2, AnswerOne
<1> QED
  BY <1>3, <1>4

\* The request that the server reads next.
LEMMA FirstRequest ==
    ASSUME Structure, toServer # <<>>
    PROVE  /\ Head(toServer) = toServer[1] /\ toServer[1] \in Request
           /\ toServer[1].session \in mine \cup {NoSession}
           /\ Reads(Tail(toServer), 1)
<1>1. toServer \in Seq(Request) /\ Sent(toServer, outstanding, nextCseq, mine)
  BY DEF Structure, PlayerTypeOK, ClientTypeOK, WireInv
<1>2. 1 \in 1..Len(toServer) /\ Head(toServer) = toServer[1] /\ toServer[1] \in Request
  BY <1>1
<1>3. toServer[1].session \in mine \cup {NoSession}
  BY <1>1, <1>2 DEF Sent
<1>4. /\ Tail(toServer) \in Seq(Request) /\ Len(Tail(toServer)) + 1 = Len(toServer)
      /\ \A i \in 1..Len(Tail(toServer)) : Tail(toServer)[i] = toServer[i + 1]
  BY <1>1
<1> QED
  BY <1>2, <1>3, <1>4 DEF Reads

\* The table handles a request of the client: what it makes is the client's.
LEMMA HandledOwn ==
    ASSUME Structure, NEW req \in Request, req.session \in mine \cup {NoSession},
           ~NoIdentifier(req), Handled(req), mine' = mine \cup (issued' \ issued),
           UNCHANGED <<identifier, old>>, sock' # "ended"
    PROVE  /\ TableInv' /\ SessionInv' /\ Outcome(req) /\ mine \subseteq mine'
           /\ reply'.session \in mine' \cup {NoSession}
           /\ mine' \subseteq SessionId
<1>1. TableInv' /\ Confined(req) /\ Outcome(req)
  BY HandledTable DEF Structure
<1>2. issued \subseteq issued' /\ issued' \subseteq SessionId
  BY <1>1 DEF Confined, TableInv
<1>3. mine \subseteq issued /\ identifier \in mine \cup {NoSession}
      /\ \A n \in 1..MaxClients : Owned(old[n], issued \ mine)
  BY DEF Structure, SessionInv
<1>4. SessionInv'
  <2>1. mine' \subseteq issued' /\ identifier' \in mine' \cup {NoSession}
    BY <1>2, <1>3
  <2>2. \A n \in 1..MaxClients : Owned(old[n], issued' \ mine')
    BY <1>2, <1>3 DEF Owned
  <2> QED
    BY <2>1, <2>2 DEF SessionInv
<1>5. reply'.session \in mine' \cup {NoSession}
  <2>1. reply'.session = NoSession \/ reply'.session = req.session
        \/ reply'.session \in issued' \ issued
    BY <1>1 DEF Outcome
  <2> QED
    BY <2>1
<1> QED
  BY <1>1, <1>2, <1>3, <1>4, <1>5

\* What the current connection does leaves the rest of the client alone.
ConnectionKept ==
    /\ UNCHANGED <<resolving, opener, again, second, unsent, readers, sessionVars, optionVars,
                   nextCseq, reported, old, clients, crashed>>
    /\ serving' \in BOOLEAN

\* The parts of the invariant about the rest of the client.
LEMMA ConnectionParts ==
    ASSUME Structure, ConnectionKept, sock = "connected", sock' \in {"connected", "ended"},
           NEW k, Reads(toServer', k) \/ toServer' = <<>>, toClient' \in Seq(Response)
    PROVE  PlayerTypeOK' /\ SocketInv' /\ RoomInv'
<1>1. toServer' \in Seq(Request)
  <2>1. <<>> \in Seq(Request)
    OBVIOUS
  <2> QED
    BY <2>1, Zenon DEF Reads
<1>2. PlayerTypeOK'
  BY <1>1 DEF Structure, ConnectionKept, PlayerTypeOK, ClientTypeOK, sessionVars, optionVars
<1>3. SocketInv'
  BY DEF Structure, ConnectionKept, SocketInv, sessionVars
<1>4. RoomInv'
  BY DEF Structure, ConnectionKept, RoomInv, Opening, sessionVars
<1> QED
  BY <1>2, <1>3, <1>4

\* The server answers a request with 200 or another status, or throws.
LEMMA ReadsStructure ==
    ASSUME IInv, ServerReads
    PROVE  Structure' /\ Outcome(toServer[1])
<1> DEFINE req == toServer[1]
<1>1. /\ sock = "connected" /\ sock' = "connected" /\ toServer # <<>>
      /\ toServer' = Tail(toServer) /\ mine' = mine \cup (issued' \ issued)
      /\ ConnectionKept
  BY DEF ServerReads, ConnectionKept, linkVars
<1>2. Structure
  BY DEF IInv
<1>3. /\ Head(toServer) = req /\ req \in Request /\ req.session \in mine \cup {NoSession}
      /\ Reads(Tail(toServer), 1)
  BY <1>1, <1>2, FirstRequest
<1>4. ~NoIdentifier(req) /\ Handled(req)
  BY <1>3 DEF ServerReads
<1>5. IF reply'.status # 0 THEN Answered(req) ELSE toClient' = toClient
  BY <1>3 DEF ServerReads
<1> HIDE DEF req
<1>6. /\ TableInv' /\ SessionInv' /\ Outcome(req) /\ mine \subseteq mine'
      /\ reply'.session \in mine' \cup {NoSession} /\ mine' \subseteq SessionId
  BY <1>1, <1>2, <1>3, <1>4, HandledOwn DEF ConnectionKept, sessionVars
<1>7. toClient' = toClient \/ \E e : Answers(e, mine') /\ toClient' = Append(toClient, e)
  <2>1. CASE reply'.status # 0
    <3>1. PICK t \in {"usable", "unusable"} :
             toClient' = Append(toClient,
               [header |-> "ok", cseq |-> req.cseq,
                status |-> IF reply'.status = 200 THEN "ok" ELSE "error",
                session |-> reply'.session,
                transport |-> IF req.method = "SETUP" /\ reply'.status = 200 THEN t ELSE "absent"])
      BY <1>5, <2>1 DEF Answered
    <3> DEFINE e == [header |-> "ok", cseq |-> req.cseq,
                     status |-> IF reply'.status = 200 THEN "ok" ELSE "error",
                     session |-> reply'.session,
                     transport |-> IF req.method = "SETUP" /\ reply'.status = 200
                                   THEN t ELSE "absent"]
    <3>2. /\ e.header = "ok" /\ e.cseq = req.cseq /\ e.status \in {"ok", "error"}
          /\ e.session = reply'.session
      OBVIOUS
    <3>3. e \in Response
      <4>1. req.cseq \in CSeq
        BY <1>3, RequestTypes
      <4>2. reply'.session \in SessionId \cup {NoSession}
        BY <1>6
      <4> QED
        BY <4>1, <4>2 DEF Response
    <3>4. Answers(e, mine')
      BY <1>6, <3>2, <3>3 DEF Answers, req
    <3> QED
      BY <3>1, <3>4
  <2> QED
    BY <1>5, <2>1
<1>8. PICK tc, own, t : tc = toClient' /\ own = mine' /\ t = toServer'
  OBVIOUS
<1>9. /\ tc \in Seq(Response) /\ Sent(t, outstanding, nextCseq, own)
      /\ Replies(tc, t, nextCseq, own) /\ Sent(unsent, outstanding, nextCseq, own)
  BY <1>1, <1>2, <1>3, <1>6, <1>7, <1>8, ReadsWire
<1>10. PlayerTypeOK' /\ SocketInv' /\ RoomInv'
  BY <1>1, <1>2, <1>3, <1>8, <1>9, ConnectionParts
<1>11. WireInv'
  BY <1>1, <1>8, <1>9 DEF WireInv, ConnectionKept, sessionVars
<1>12. LostInv'
  <2>1. \A i \in 1..Len(tc) :
           tc[i].header = "absent" => \E c \in CSeq : Lost(c, t, tc, outstanding)
    BY <1>1, <1>2, <1>3, <1>7, <1>8, ReadsLostInv
  <2>2. outstanding' = outstanding
    BY <1>1 DEF ConnectionKept, sessionVars
  <2> QED
    BY <1>8, <2>1, <2>2 DEF LostInv
<1> QED
  BY <1>6, <1>10, <1>11, <1>12 DEF Structure, req

\* What was answered is what the session is in now, or some call is lost.
LEMMA ReadsAgree ==
    ASSUME IInv, ServerReads
    PROVE  AgreeInv'
<1> DEFINE req == toServer[1]
<1>1. /\ toServer # <<>> /\ toServer' = Tail(toServer) /\ mine' = mine \cup (issued' \ issued)
      /\ UNCHANGED <<state, outstanding>>
  BY DEF ServerReads, sessionVars
<1>2. Structure /\ AgreeInv
  BY DEF IInv
<1>3. /\ Head(toServer) = req /\ req \in Request /\ req.session \in mine \cup {NoSession}
      /\ Reads(Tail(toServer), 1)
  BY <1>1, <1>2, FirstRequest
<1>4. ~NoIdentifier(req) /\ (IF reply'.status # 0 THEN Answered(req) ELSE toClient' = toClient)
  BY <1>3 DEF ServerReads
<1>5. Outcome(req) /\ TableInv' /\ Structure' /\ mine \subseteq issued /\ mine' \subseteq SessionId
  BY <1>2, ReadsStructure DEF Structure, SessionInv, TableInv
<1> HIDE DEF req
<1> SUFFICES ASSUME NEW id \in SessionId, mine' = {id}, id \in Live',
                    Clean(toServer', toClient', outstanding')
             PROVE  /\ sessions'[id].state \in {"ready", "playing"}
                    /\ WillBe(toClient', outstanding', state', sessions'[id].state)
  BY <1>1 DEF AgreeInv
<1>6. reply'.status # 0
  <2>1. ASSUME toClient' = toClient PROVE FALSE
    <3>1. ~Clean(Tail(toServer), toClient, outstanding)
      BY <1>2, <1>3, ReadsLost, LostUnclean
    <3> QED
      BY <1>1, <2>1, <3>1
  <2> QED
    BY <1>4, <2>1
<1>7. PICK e : /\ toClient' = Append(toClient, e) /\ e \in Response /\ e.header = "ok"
               /\ e.cseq = req.cseq /\ e.session = reply'.session
               /\ e.status = IF reply'.status = 200 THEN "ok" ELSE "error"
  <2>1. PICK t \in {"usable", "unusable"} :
           toClient' = Append(toClient,
             [header |-> "ok", cseq |-> req.cseq,
              status |-> IF reply'.status = 200 THEN "ok" ELSE "error",
              session |-> reply'.session,
              transport |-> IF req.method = "SETUP" /\ reply'.status = 200 THEN t ELSE "absent"])
    BY <1>4, <1>6 DEF Answered
  <2> DEFINE e == [header |-> "ok", cseq |-> req.cseq,
                   status |-> IF reply'.status = 200 THEN "ok" ELSE "error",
                   session |-> reply'.session,
                   transport |-> IF req.method = "SETUP" /\ reply'.status = 200
                                 THEN t ELSE "absent"]
  <2>2. req.cseq \in CSeq
    BY <1>3, RequestTypes
  <2>3. reply'.session \in SessionId \cup {NoSession}
    <3>1. reply'.session = NoSession \/ reply'.session = req.session
          \/ reply'.session \in SessionId
      BY <1>5 DEF Outcome
    <3> QED
      BY <1>3, <3>1 DEF Request
  <2>4. e \in Response
    BY <2>2, <2>3 DEF Response
  <2> QED
    BY <2>1, <2>4
<1>8. PICK st : st = sessions'[id].state
  OBVIOUS
<1>9. /\ Clean(toServer, toClient, outstanding) /\ ~Doomed(e, outstanding)
      /\ outstanding[e.cseq] = req.method
      /\ \A s : WillBe(toClient, outstanding, state, s) /\ ~Moves(e, outstanding)
                   => WillBe(Append(toClient, e), outstanding, state, s)
      /\ \A s : Moves(e, outstanding) /\ After(outstanding[e.cseq]) = s
                   => WillBe(Append(toClient, e), outstanding, state, s)
  <2>1. Answers(e, mine \cup {e.session})
    BY <1>7 DEF Answers, req
  <2>2. Clean(Tail(toServer), Append(toClient, e), outstanding)
    BY <1>1, <1>7
  <2> QED
    BY <1>1, <1>2, <1>7, <2>1, <2>2, AnswerAgree DEF req
<1>10. ASSUME Moves(e, outstanding), After(req.method) = st, st \in {"ready", "playing"}
       PROVE  /\ sessions'[id].state \in {"ready", "playing"}
              /\ WillBe(toClient', outstanding', state', sessions'[id].state)
  <2>1. WillBe(Append(toClient, e), outstanding, state, st)
    BY <1>9, <1>10
  <2> QED
    BY <1>1, <1>7, <1>8, <1>10, <2>1
<1>11. CASE req.method \in {"OPTIONS", "DESCRIBE", "SETUP"} /\ UNCHANGED <<sessions, issued>>
            /\ reply'.session = NoSession
  <2>1. req.method # "SETUP"
    BY <1>7, <1>9, <1>11 DEF Doomed, SetupThrows
  <2>2. ~Moves(e, outstanding)
    BY <1>9, <1>11, <2>1 DEF Moves, Movers
  <2>3. mine = {id} /\ id \in Live /\ st = sessions[id].state
    BY <1>1, <1>8, <1>11 DEF Live, Server!Live
  <2>4. st \in {"ready", "playing"} /\ WillBe(toClient, outstanding, state, st)
    BY <1>2, <1>9, <2>3, Zenon DEF AgreeInv
  <2>5. WillBe(Append(toClient, e), outstanding, state, st)
    BY <1>9, <2>2, <2>4
  <2> QED
    BY <1>1, <1>7, <1>8, <2>4, <2>5
<1>12. ASSUME req.method = "SETUP", NEW new \in SessionId \ issued,
              issued' = issued \cup {new},
              reply'.status = 200 => sessions'[new].state = "ready"
       PROVE  /\ sessions'[id].state \in {"ready", "playing"}
              /\ WillBe(toClient', outstanding', state', sessions'[id].state)
  <2>1. new = id
    BY <1>1, <1>12
  <2>2. reply'.status = 200
    BY <1>7, <1>9, <1>12 DEF Doomed, SetupThrows
  <2>3. st = "ready"
    BY <1>8, <1>12, <2>1, <2>2
  <2>4. Moves(e, outstanding) /\ After(req.method) = "ready"
    BY <1>9, <1>12 DEF Moves, Movers, After
  <2> QED
    BY <1>10, <2>3, <2>4
<1>13. CASE /\ req.method \in {"PLAY", "PAUSE", "TEARDOWN"} /\ issued' = issued
            /\ req.session \in Live' =>
                 /\ req.session \in Live
                 /\ sessions[req.session].state \in {"ready", "playing"} =>
                      /\ sessions'[req.session].state \in {"ready", "playing"}
                      /\ sessions'[req.session].state = After(req.method)
  <2>1. mine = {id}
    BY <1>1, <1>13
  <2>2. req.session = id
    BY <1>3, <1>4, <1>13, <2>1 DEF NoIdentifier
  <2>3. id \in Live
    BY <1>13, <2>2
  <2>4. sessions[id].state \in {"ready", "playing"}
    BY <1>2, <1>9, <2>1, <2>3, Zenon DEF AgreeInv
  <2>5. st \in {"ready", "playing"} /\ st = After(req.method)
    BY <1>8, <1>13, <2>2, <2>4
  <2>6. Moves(e, outstanding)
    BY <1>9, <1>13 DEF Moves, Movers
  <2> QED
    BY <1>10, <2>5, <2>6
<1> QED
  BY <1>5, <1>11, <1>12, <1>13 DEF Outcome

\* The server reads a request of the client.
LEMMA ServerReadsIInv == ASSUME IInv, ServerReads PROVE IInv'
BY ReadsStructure, ReadsAgree DEF IInv

\* What SubSeq leaves when the first n are taken.
LEMMA Dropped ==
    ASSUME NEW s \in Seq(Request), NEW n \in Nat, n # 0, n <= Len(s)
    PROVE  /\ SubSeq(s, n + 1, Len(s)) \in Seq(Request)
           /\ Len(SubSeq(s, n + 1, Len(s))) + n = Len(s)
           /\ \A i \in 1..Len(SubSeq(s, n + 1, Len(s))) : SubSeq(s, n + 1, Len(s))[i] = s[i + n]
<1> DEFINE t == SubSeq(s, n + 1, Len(s))
<1>1. PICK l \in Nat : l = Len(s)
  OBVIOUS
<1>2. t = [i \in 1..(1 + l - (n + 1)) |-> s[i + (n + 1) - 1]]
  BY <1>1
<1>3. PICK k \in Nat : k + n = l
  <2>1. l - n \in Nat /\ (l - n) + n = l
    BY <1>1
  <2> QED
    BY <2>1
<1>4. 1 + l - (n + 1) = k /\ \A i \in 1..k : i + (n + 1) - 1 = i + n /\ i + n \in 1..l
  BY <1>3
<1>5. t = [i \in 1..k |-> s[i + n]]
  BY <1>2, <1>4
<1>6. \A i \in 1..k : s[i + n] \in Request
  BY <1>1, <1>4
<1>7. t \in Seq(Request) /\ Len(t) = k /\ \A i \in 1..k : t[i] = s[i + n]
  BY <1>5, <1>6
<1> QED
  BY <1>1, <1>3, <1>7

\* Requests without an identifier are refused so that the client cannot match
\* the answer with all of its calls.
LEMMA UnidentifiedIInv ==
    ASSUME IInv, NEW n \in 1..MaxCalls, ServerReadsUnidentified(n)
    PROVE  IInv'
<1>1. /\ sock = "connected" /\ sock' = "connected" /\ n <= Len(toServer)
      /\ NoIdentifier(Head(toServer)) /\ toServer' = SubSeq(toServer, n + 1, Len(toServer))
      /\ toClient' = Append(toClient, IF NoIdentifier(toServer[n]) THEN Refusal("absent", 0)
                                      ELSE Refusal("ok", Head(toServer).cseq))
      /\ UNCHANGED <<sessions, byHost, issued, mine, outstanding>>
      /\ serving' = serving
  BY DEF ServerReadsUnidentified, linkVars, sessionVars, tableVars, playerVars
<1>2. Structure /\ AgreeInv /\ toServer \in Seq(Request) /\ toClient \in Seq(Response)
      /\ serving \in BOOLEAN /\ n \in Nat /\ n # 0
  BY ClientAssumption DEF IInv, Structure, PlayerTypeOK, ClientTypeOK
<1>3. ConnectionKept
  <2>1. serving' \in BOOLEAN
    BY <1>1, <1>2
  <2> QED
    BY <2>1 DEF ServerReadsUnidentified, ConnectionKept, linkVars, playerVars
<1>4. toServer # <<>> /\ 1 \in 1..Len(toServer)
  BY <1>1, <1>2
<1>5. /\ Head(toServer) = toServer[1] /\ toServer[1] \in Request
  BY <1>2, <1>4, FirstRequest
<1>6. PICK t : t = SubSeq(toServer, n + 1, Len(toServer))
  OBVIOUS
<1>7. Reads(t, n)
  <2>1. /\ t \in Seq(Request) /\ Len(t) + n = Len(toServer)
        /\ \A i \in 1..Len(t) : t[i] = toServer[i + n]
    BY <1>1, <1>2, <1>6, Dropped
  <2> QED
    BY <1>2, <2>1 DEF Reads
<1>8. PICK e : /\ toClient' = Append(toClient, e) /\ Answers(e, mine)
               /\ n >= 2 \/ e.header = "absent"
  <2>1. CASE NoIdentifier(toServer[n])
    <3>1. 0 \in CSeq
      BY ClientAssumption DEF CSeq
    <3>2. Refusal("absent", 0) \in Response
      BY <3>1 DEF Refusal, Response
    <3>3. /\ Refusal("absent", 0).header = "absent" /\ Refusal("absent", 0).status = "error"
          /\ Refusal("absent", 0).session = NoSession
      BY DEF Refusal
    <3>4. Answers(Refusal("absent", 0), mine)
      BY <3>2, <3>3 DEF Answers
    <3> QED
      BY <1>1, <2>1, <3>3, <3>4
  <2>2. CASE ~NoIdentifier(toServer[n])
    <3> DEFINE e == Refusal("ok", toServer[1].cseq)
    <3>1. n >= 2
      <4>1. n # 1
        BY <1>1, <1>5, <2>2
      <4> QED
        BY <1>2, <4>1
    <3>2. toServer[1].cseq \in CSeq
      BY <1>5, RequestTypes
    <3>3. e \in Response
      BY <3>2 DEF Refusal, Response
    <3>4. /\ e.header = "ok" /\ e.status = "error" /\ e.session = NoSession
          /\ e.cseq = toServer[1].cseq
      BY DEF Refusal
    <3>5. Answers(e, mine)
      BY <3>3, <3>4 DEF Answers
    <3>6. toClient' = Append(toClient, e)
      BY <1>1, <1>5, <2>2
    <3> QED
      BY <3>1, <3>5, <3>6
  <2> QED
    BY <2>1, <2>2
<1>9. PICK tc : tc = Append(toClient, e)
  OBVIOUS
<1>10. /\ tc \in Seq(Response) /\ Sent(t, outstanding, nextCseq, mine)
       /\ Replies(tc, t, nextCseq, mine) /\ Sent(unsent, outstanding, nextCseq, mine)
  BY <1>2, <1>7, <1>8, <1>9, ReadsWire
<1>11. ~Clean(t, tc, outstanding)
  BY <1>2, <1>7, <1>8, <1>9, ReadsLost, LostUnclean
<1>12. toServer' = t /\ toClient' = tc
  BY <1>1, <1>6, <1>8, <1>9
<1>13. PlayerTypeOK' /\ SocketInv' /\ RoomInv'
  BY <1>1, <1>2, <1>3, <1>7, <1>10, <1>12, ConnectionParts
<1>14. TableInv' /\ Live' = Live
  BY <1>1, <1>2, TableKept DEF Structure
<1>15. WireInv'
  BY <1>1, <1>3, <1>10, <1>12 DEF WireInv, ConnectionKept, sessionVars
<1>16. SessionInv'
  BY <1>1, <1>2, <1>3, <1>14 DEF Structure, SessionInv, ConnectionKept, sessionVars
<1>17. AgreeInv'
  BY <1>1, <1>11, <1>12, Zenon DEF AgreeInv
<1>18. LostInv'
  <2>1. \A i \in 1..Len(tc) :
           tc[i].header = "absent" => \E c \in CSeq : Lost(c, t, tc, outstanding)
    BY <1>2, <1>7, <1>8, <1>9, ReadsLostInv
  <2> QED
    BY <1>1, <1>12, <2>1 DEF LostInv
<1> QED
  BY <1>13, <1>14, <1>15, <1>16, <1>17, <1>18 DEF IInv, Structure

\* The idle timer takes the connection and all sessions with it.
LEMMA IdleTimeoutIInv ==
    ASSUME IInv, IdleTimeout
    PROVE  IInv'
<1>1. /\ sock = "connected" /\ sock' = "ended" /\ toServer' = <<>> /\ serving' = FALSE
      /\ Server!HostTimeout(TheHost) /\ UNCHANGED <<toClient, mine, outstanding>>
  BY DEF IdleTimeout, playerVars, sessionVars
<1>2. ConnectionKept
  BY <1>1 DEF IdleTimeout, ConnectionKept, playerVars
<1>3. Structure /\ toClient' \in Seq(Response)
  BY <1>1 DEF IInv, Structure, PlayerTypeOK, ClientTypeOK
<1>4. TableInv' /\ Live' = {} /\ issued' = issued
  BY <1>1, <1>3, TimeoutTable DEF Structure
<1>5. PlayerTypeOK' /\ SocketInv' /\ RoomInv'
  BY <1>1, <1>2, <1>3, ConnectionParts
<1>6. WireInv'
  BY <1>1, <1>2, <1>3 DEF Structure, WireInv, ConnectionKept, Sent, Replies, sessionVars
<1>7. SessionInv'
  BY <1>1, <1>2, <1>3, <1>4 DEF Structure, SessionInv, ConnectionKept, sessionVars
<1>8. LostInv'
  <2>1. ASSUME NEW c \in CSeq, Lost(c, toServer, toClient, outstanding)
        PROVE  Lost(c, toServer', toClient', outstanding')
    BY <1>1, <2>1 DEF Lost, InFlight
  <2> QED
    BY <1>1, <1>3, <2>1 DEF Structure, LostInv
<1>9. AgreeInv'
  BY <1>4, AgreeVacuous
<1> QED
  BY <1>3, <1>4, <1>5, <1>6, <1>7, <1>8, <1>9 DEF IInv, Structure

-----------------------------------------------------------------------------
(* What older clients have left.                                           *)

\* More sessions may be named.
LEMMA OwnedMore ==
    ASSUME NEW c, NEW all, NEW all2, Owned(c, all), all \subseteq all2
    PROVE  Owned(c, all2)
BY DEF Owned

\* One of the connections changes.
LEMMA OldChanged ==
    ASSUME old \in [1..MaxClients -> OldConnection], NEW n \in 1..MaxClients,
           NEW c \in OldConnection, old' = [old EXCEPT ![n] = c],
           NEW all, NEW all2, all \subseteq all2, Owned(c, all2),
           \A k \in 1..MaxClients : Owned(old[k], all)
    PROVE  /\ old' \in [1..MaxClients -> OldConnection]
           /\ \A k \in 1..MaxClients : Owned(old'[k], all2)
<1>1. \A k \in 1..MaxClients : old'[k] = c \/ old'[k] = old[k]
  OBVIOUS
<1>2. \A k \in 1..MaxClients : Owned(old[k], all2)
  BY OwnedMore
<1> QED
  BY <1>1, <1>2

\* The parts of the invariant about the current client.
LEMMA ClientKeptParts ==
    ASSUME Structure, UNCHANGED <<clientVars, serving, mine, clients>>, crashed' \in BOOLEAN,
           old' \in [1..MaxClients -> OldConnection]
    PROVE  /\ PlayerTypeOK' /\ SocketInv' /\ RoomInv' /\ WireInv' /\ LostInv'
           /\ UNCHANGED <<sock, identifier, toServer, toClient, outstanding, state, mine>>
<1>1. /\ UNCHANGED <<sock, resolving, opener, again, second, unsent, toServer, toClient, readers,
                     state, identifier, receiver, outstanding, called, statistics, mkn,
                     nextCseq, reported>>
      /\ UNCHANGED <<serving, mine, clients>>
  BY DEF clientVars, connectionVars, linkVars, sessionVars, optionVars
<1>2. PlayerTypeOK'
  BY <1>1 DEF Structure, PlayerTypeOK, ClientTypeOK
<1>3. SocketInv' /\ RoomInv' /\ WireInv' /\ LostInv'
  BY <1>1 DEF Structure, SocketInv, RoomInv, Opening, WireInv, LostInv
<1> QED
  BY <1>1, <1>2, <1>3

\* A step of a connection without a client, and what it may do to the table.
LEMMA OldIInv ==
    ASSUME IInv, NEW n \in 1..MaxClients, NEW c \in OldConnection,
           UNCHANGED <<clientVars, serving, mine, clients, crashed>>,
           old' = [old EXCEPT ![n] = c],
           TableInv', issued \subseteq issued', Owned(c, issued' \ mine),
           \A id \in mine : id \in Live' => id \in Live /\ sessions'[id] = sessions[id]
    PROVE  IInv'
<1>1. /\ Structure /\ AgreeInv /\ old \in [1..MaxClients -> OldConnection]
      /\ mine \subseteq issued /\ \A k \in 1..MaxClients : Owned(old[k], issued \ mine)
      /\ crashed' \in BOOLEAN
  BY DEF IInv, Structure, PlayerTypeOK, SessionInv
<1>2. issued \ mine \subseteq issued' \ mine
  OBVIOUS
<1>3. /\ old' \in [1..MaxClients -> OldConnection]
      /\ \A k \in 1..MaxClients : Owned(old'[k], issued' \ mine)
  BY <1>1, <1>2, OldChanged
<1>4. /\ PlayerTypeOK' /\ SocketInv' /\ RoomInv' /\ WireInv' /\ LostInv'
      /\ UNCHANGED <<sock, identifier, toServer, toClient, outstanding, state, mine>>
  BY <1>1, <1>3, ClientKeptParts
<1>5. SessionInv'
  BY <1>1, <1>3, <1>4 DEF Structure, SessionInv
<1>6. AgreeInv'
  <2> SUFFICES ASSUME NEW id \in SessionId, mine = {id}, id \in Live',
                      Clean(toServer, toClient, outstanding)
               PROVE  /\ sessions'[id].state \in {"ready", "playing"}
                      /\ WillBe(toClient, outstanding, state, sessions'[id].state)
    BY <1>4, Zenon DEF AgreeInv
  <2>1. id \in Live /\ sessions'[id] = sessions[id]
    OBVIOUS
  <2>2. /\ sessions[id].state \in {"ready", "playing"}
        /\ WillBe(toClient, outstanding, state, sessions[id].state)
    BY <1>1, <2>1, Zenon DEF AgreeInv
  <2> QED
    BY <2>1, <2>2
<1> QED
  BY <1>4, <1>5, <1>6 DEF IInv, Structure

\* A connection without a client before the step.
LEMMA OldParts ==
    ASSUME IInv, NEW n \in 1..MaxClients
    PROVE  /\ old[n] \in OldConnection /\ Owned(old[n], issued \ mine)
           /\ old[n].requests \in Seq(Request) /\ old[n].sessions \subseteq SessionId
           /\ mine \subseteq issued /\ TableInv
BY DEF IInv, Structure, PlayerTypeOK, SessionInv, OldConnection

\* A request of an older client touches no session of the current one.
LEMMA OldReadsIInv ==
    ASSUME IInv, NEW n \in 1..MaxClients, OldReads(n)
    PROVE  /\ IInv' /\ \A id \in mine : sessions'[id] = sessions[id]
<1> DEFINE req == Head(old[n].requests)
<1>1. /\ old[n].requests # <<>> /\ UNCHANGED <<clientVars, serving, mine, clients, crashed>>
  BY DEF OldReads, playerVars
<1>2. /\ old[n] \in OldConnection /\ Owned(old[n], issued \ mine)
      /\ old[n].requests \in Seq(Request) /\ old[n].sessions \subseteq SessionId
      /\ mine \subseteq issued /\ TableInv
  BY OldParts
<1>3. PICK s \in Seq(Request) : s = old[n].requests
  BY <1>2
<1>4. req = s[1] /\ req \in Request /\ 1 \in 1..Len(s)
  BY <1>1, <1>3
<1>5. /\ old[n].sessions \subseteq issued \ mine
      /\ \A i \in 1..Len(s) : s[i].session \in old[n].sessions \cup {NoSession}
  BY <1>2, <1>3 DEF Owned
<1> HIDE DEF req
<1>6. CASE NoIdentifier(req) /\ UNCHANGED tableVars
           /\ \E k \in DOMAIN s :
                old' = [old EXCEPT ![n] = [@ EXCEPT !.requests = SubSeq(s, k + 1, Len(s)),
                                                    !.socket = "answered"]]
  <2>1. UNCHANGED <<sessions, byHost, issued>>
    BY <1>6 DEF tableVars
  <2>2. TableInv' /\ Live' = Live
    BY <1>2, <2>1, TableKept
  <2>3. PICK k \in 1..Len(s) :
           old' = [old EXCEPT ![n] = [@ EXCEPT !.requests = SubSeq(s, k + 1, Len(s)),
                                               !.socket = "answered"]]
    <3>1. DOMAIN s = 1..Len(s)
      BY <1>3
    <3> QED
      BY <1>6, <3>1, Zenon
  <2>4. PICK t : t = SubSeq(s, k + 1, Len(s))
    OBVIOUS
  <2>5. /\ t \in Seq(Request) /\ Len(t) + k = Len(s)
        /\ \A i \in 1..Len(t) : t[i] = s[i + k]
    BY <1>3, <2>4, Dropped
  <2>6. \A i \in 1..Len(t) : t[i].session \in old[n].sessions \cup {NoSession}
    <3>1. \A i \in 1..Len(t) : t[i] = s[i + k] /\ i + k \in 1..Len(s)
      BY <1>3, <2>5
    <3> QED
      BY <1>5, <3>1, Zenon
  <2>7. PICK c : c = [old[n] EXCEPT !.requests = t, !.socket = "answered"]
    OBVIOUS
  <2>8. c \in OldConnection /\ c.requests = t /\ c.sessions = old[n].sessions
    BY <1>2, <2>5, <2>7 DEF OldConnection
  <2>9. old' = [old EXCEPT ![n] = c]
    BY <2>3, <2>4, <2>7
  <2>10. Owned(c, issued' \ mine)
    BY <1>5, <2>1, <2>6, <2>8 DEF Owned
  <2> QED
    BY <1>1, <2>1, <2>2, <2>8, <2>9, <2>10, OldIInv
<1>7. CASE ~NoIdentifier(req) /\ Handled(req)
           /\ old' = [old EXCEPT ![n] =
                [socket |-> IF reply'.status = 0 THEN old[n].socket ELSE "answered",
                 requests |-> IF reply'.status = 0 THEN <<>> ELSE Tail(s),
                 sessions |-> old[n].sessions \cup (issued' \ issued)]]
  <2>1. TableInv' /\ Confined(req)
    BY <1>2, <1>4, <1>7, HandledTable
  <2>2. /\ issued \subseteq issued' /\ issued' \subseteq SessionId
        /\ \A id \in mine : sessions'[id] = sessions[id] /\ (id \in Live' => id \in Live)
    <3>1. \A id \in mine : id \in issued /\ id # req.session
      BY <1>2, <1>4, <1>5, ClientAssumption DEF TableInv
    <3> QED
      BY <2>1, <3>1 DEF Confined, TableInv
  <2>3. PICK t \in Seq(Request) : t = IF reply'.status = 0 THEN <<>> ELSE Tail(s)
    <3>1. <<>> \in Seq(Request) /\ Tail(s) \in Seq(Request)
      BY <1>1, <1>3
    <3> QED
      BY <3>1, Zenon
  <2>4. \A i \in 1..Len(t) : t[i].session \in old[n].sessions \cup {NoSession}
    BY <1>1, <1>3, <1>5, <2>3
  <2>5. PICK c : c = [socket |-> IF reply'.status = 0 THEN old[n].socket ELSE "answered",
                      requests |-> t, sessions |-> old[n].sessions \cup (issued' \ issued)]
    OBVIOUS
  <2>6. /\ c \in OldConnection /\ c.requests = t
        /\ c.sessions = old[n].sessions \cup (issued' \ issued)
    <3>1. old[n].socket \in {"none", "closed", "answered", "reset"}
      BY <1>2 DEF OldConnection
    <3> QED
      BY <1>2, <2>2, <2>5, <3>1 DEF OldConnection
  <2>7. old' = [old EXCEPT ![n] = c]
    BY <1>7, <2>3, <2>5
  <2>8. Owned(c, issued' \ mine)
    BY <1>2, <1>5, <2>2, <2>4, <2>6 DEF Owned
  <2> QED
    BY <1>1, <2>1, <2>2, <2>6, <2>7, <2>8, OldIInv
<1> QED
  BY <1>3, <1>6, <1>7 DEF OldReads, req

\* The peer resets the connection.
LEMMA OldResetIInv ==
    ASSUME IInv, NEW n \in 1..MaxClients, OldReset(n)
    PROVE  IInv'
<1>1. /\ old[n] \in OldConnection /\ Owned(old[n], issued \ mine)
      /\ mine \subseteq issued /\ TableInv
  BY OldParts
<1>2. PICK c : c = [old[n] EXCEPT !.socket = "reset", !.requests = <<>>]
  OBVIOUS
<1>3. c \in OldConnection /\ c.requests = <<>> /\ c.sessions = old[n].sessions
  <2>1. <<>> \in Seq(Request)
    OBVIOUS
  <2> QED
    BY <1>1, <1>2, <2>1 DEF OldConnection
<1>4. /\ old' = [old EXCEPT ![n] = c] /\ UNCHANGED <<clientVars, serving, mine, clients, crashed>>
      /\ UNCHANGED <<sessions, byHost, issued>>
  BY <1>2 DEF OldReset, tableVars, playerVars
<1>5. TableInv' /\ Live' = Live
  BY <1>1, <1>4, TableKept
<1>6. Owned(c, issued' \ mine)
  BY <1>1, <1>3, <1>4 DEF Owned
<1> QED
  BY <1>3, <1>4, <1>5, <1>6, OldIInv

\* An idle timer that an older client left takes all sessions of the host.
LEMMA OldTimeoutIInv ==
    ASSUME IInv, NEW n \in 1..MaxClients, OldTimeout(n)
    PROVE  IInv'
<1>1. /\ old[n] \in OldConnection /\ Owned(old[n], issued \ mine)
      /\ mine \subseteq issued /\ TableInv
  BY OldParts
<1>2. PICK c : c = [old[n] EXCEPT !.socket = "none"]
  OBVIOUS
<1>3. c \in OldConnection /\ c.requests = old[n].requests /\ c.sessions = old[n].sessions
  BY <1>1, <1>2 DEF OldConnection
<1>4. /\ old' = [old EXCEPT ![n] = c] /\ UNCHANGED <<clientVars, serving, mine, clients, crashed>>
      /\ Server!HostTimeout(TheHost)
  BY <1>2 DEF OldTimeout, playerVars
<1>5. TableInv' /\ Live' = {} /\ issued' = issued
  BY <1>1, <1>4, TimeoutTable
<1>6. Owned(c, issued' \ mine)
  BY <1>1, <1>3, <1>5 DEF Owned
<1> QED
  BY <1>3, <1>4, <1>5, <1>6, OldIInv

-----------------------------------------------------------------------------
(* The buttons.                                                            *)

\* A button that makes a new client: the old one's session is not its own, and
\* the requests the old one sent are left for the server to read.
LEMMA ReplaceIInv ==
    ASSUME IInv, NEW m \in Method, NEW options, ReplaceClient(m, m = "SETUP" /\ options)
    PROVE  IInv'
<1>1. /\ clients < MaxClients /\ clients' = clients + 1
      /\ \E left \in LeftSocket :
           old' = [old EXCEPT ![clients'] =
                     [socket |-> left, sessions |-> mine,
                      requests |-> IF sock = "connected" /\ serving THEN toServer ELSE <<>>]]
      /\ sock' = "closed" /\ resolving' = <<m>>
      /\ opener' = NoMethod /\ again' = "refused" /\ second' = NoMethod
      /\ unsent' = <<>> /\ toServer' = <<>> /\ toClient' = <<>> /\ readers' = 0
      /\ state' = "init" /\ identifier' = NoSession /\ receiver' = NoReceiver
      /\ statistics' = TRUE /\ nextCseq' = 0 /\ reported' = FALSE
      /\ outstanding' = [c \in CSeq |-> NoMethod] /\ called' = [c \in CSeq |-> 0]
      /\ serving' = FALSE /\ mine' = {} /\ crashed' = crashed
      /\ UNCHANGED <<sessions, byHost, issued>>
  BY DEF ReplaceClient, tableVars
<1>2. mkn' \in BOOLEAN
  <2>1. mkn' = (m = "SETUP" /\ options)
    BY DEF ReplaceClient
  <2> QED
    BY <2>1, Zenon
<1>3. /\ Structure /\ old \in [1..MaxClients -> OldConnection] /\ toServer \in Seq(Request)
      /\ clients \in 0..MaxClients /\ crashed \in BOOLEAN
      /\ mine \subseteq issued /\ issued \subseteq SessionId
      /\ \A k \in 1..MaxClients : Owned(old[k], issued \ mine)
      /\ \A i \in 1..Len(toServer) : toServer[i].session \in mine \cup {NoSession}
  BY DEF IInv, Structure, PlayerTypeOK, ClientTypeOK, TableInv, SessionInv, WireInv, Sent
<1>4. clients' \in 1..MaxClients
  BY <1>1, <1>3, PlayerAssumption
<1>5. /\ old' \in [1..MaxClients -> OldConnection]
      /\ \A k \in 1..MaxClients : Owned(old'[k], issued)
  <2>1. PICK left \in LeftSocket :
           old' = [old EXCEPT ![clients'] =
                     [socket |-> left, sessions |-> mine,
                      requests |-> IF sock = "connected" /\ serving THEN toServer ELSE <<>>]]
    BY <1>1
  <2>2. left \in {"none", "closed", "answered", "reset"}
    BY <2>1 DEF LeftSocket
  <2>3. PICK s \in Seq(Request) :
           s = IF sock = "connected" /\ serving THEN toServer ELSE <<>>
    <3>1. <<>> \in Seq(Request)
      OBVIOUS
    <3> QED
      BY <1>3, <3>1, Zenon
  <2>4. \A i \in 1..Len(s) : s[i].session \in mine \cup {NoSession}
    BY <1>3, <2>3
  <2>5. PICK c : c = [socket |-> left, sessions |-> mine, requests |-> s]
    OBVIOUS
  <2>6. c \in OldConnection /\ c.sessions = mine /\ c.requests = s
    BY <1>3, <2>2, <2>5 DEF OldConnection
  <2>7. Owned(c, issued)
    BY <1>3, <2>4, <2>6 DEF Owned
  <2>8. PICK n \in 1..MaxClients : n = clients'
    BY <1>4
  <2>9. old' = [old EXCEPT ![n] = c]
    BY <2>1, <2>3, <2>5, <2>8
  <2>10. issued \ mine \subseteq issued
    OBVIOUS
  <2> QED
    BY <1>3, <2>6, <2>7, <2>9, <2>10, OldChanged
<1>6. ClientTypeOK'
  <2>1. /\ outstanding' \in [CSeq -> Method \cup {NoMethod}] /\ called' \in [CSeq -> Nat]
        /\ nextCseq' \in 0..MaxCalls /\ readers' \in Nat
    BY <1>1, ClientAssumption
  <2>2. receiver' \in [session: SessionId \cup {NoSession}, statistics: BOOLEAN]
    BY <1>1 DEF NoReceiver
  <2>3. /\ resolving' \in Seq(Method) /\ unsent' \in Seq(Request) /\ toServer' \in Seq(Request)
        /\ toClient' \in Seq(Response)
    BY <1>1
  <2> QED
    BY <1>1, <1>2, <2>1, <2>2, <2>3 DEF ClientTypeOK
<1>7. PlayerTypeOK'
  <2>1. clients' \in 0..MaxClients
    BY <1>4, PlayerAssumption
  <2> QED
    BY <1>1, <1>3, <1>5, <1>6, <2>1, Zenon DEF PlayerTypeOK
<1>8. TableInv' /\ Live' = Live
  BY <1>1, <1>3, TableKept DEF Structure
<1>9. SocketInv'
  BY <1>1 DEF SocketInv
<1>10. RoomInv'
  <2>1. Len(resolving') = 1 /\ Opening' = 0 /\ MaxCalls \in Nat /\ MaxCalls # 0
    BY <1>1, ClientAssumption, PlayerAssumption DEF Opening
  <2>2. nextCseq' + Len(resolving') + Opening' <= MaxCalls
    BY <1>1, <2>1
  <2> QED
    BY <1>1, <2>2 DEF RoomInv
<1>11. WireInv' /\ LostInv'
  BY <1>1 DEF WireInv, Sent, Replies, LostInv
<1>12. SessionInv'
  <2>1. issued' \ mine' = issued
    BY <1>1
  <2> QED
    BY <1>1, <1>5, <2>1 DEF SessionInv
<1>13. AgreeInv'
  BY <1>1, AgreeVacuous
<1> QED
  BY <1>7, <1>8, <1>9, <1>10, <1>11, <1>12, <1>13 DEF IInv, Structure

\* The call goes through a null pointer, or nothing happens at all.
LEMMA NothingIInv ==
    ASSUME IInv, UNCHANGED <<clientVars, serving, old, mine, clients>>,
           UNCHANGED <<sessions, byHost, issued>>, crashed' \in BOOLEAN
    PROVE  IInv'
<1>1. Structure /\ AgreeInv /\ old' \in [1..MaxClients -> OldConnection]
  BY DEF IInv, Structure, PlayerTypeOK
<1>2. /\ PlayerTypeOK' /\ SocketInv' /\ RoomInv' /\ WireInv' /\ LostInv'
      /\ UNCHANGED <<sock, identifier, toServer, toClient, outstanding, state, mine>>
  BY <1>1, ClientKeptParts
<1>3. TableInv' /\ Live' = Live
  BY <1>1, TableKept DEF Structure
<1>4. SessionInv'
  BY <1>1, <1>2, <1>3 DEF Structure, SessionInv
<1>5. AgreeInv'
  BY <1>1, <1>2, AgreeKept
<1> QED
  BY <1>2, <1>3, <1>4, <1>5 DEF IInv, Structure

\* Every step of the player, its client and the server.
LEMMA NextIInv ==
    ASSUME IInv, [Next]_vars
    PROVE  IInv'
<1>1. CASE UNCHANGED vars
  <2>1. /\ UNCHANGED <<clientVars, serving, old, mine, clients>>
        /\ UNCHANGED <<sessions, byHost, issued>> /\ crashed' \in BOOLEAN
    BY <1>1 DEF vars, tableVars, playerVars, IInv, Structure, PlayerTypeOK
  <2> QED
    BY <2>1, NothingIInv
<1>2. ASSUME NEW m \in Presses, PressCurrent(m) PROVE IInv'
  BY <1>2, CallCurrentIInv, PlayerAssumption DEF PressCurrent
<1>3. ASSUME NEW m \in Presses, NEW options \in MknOptions, PressNew(m, options) PROVE IInv'
  BY <1>3, ReplaceIInv, PlayerAssumption DEF PressNew
<1>4. ASSUME NEW m \in Presses, NEW options \in MknOptions, PressBadUrl(m, options) PROVE IInv'
  <2>1. CASE clients = 0
    <3>1. /\ UNCHANGED <<clientVars, serving, old, mine, clients>>
          /\ UNCHANGED <<sessions, byHost, issued>> /\ crashed' \in BOOLEAN
      BY <1>4, <2>1 DEF PressBadUrl, tableVars
    <3> QED
      BY <3>1, NothingIInv
  <2>2. CASE clients # 0
    BY <1>4, <2>2, CallCurrentIInv, PlayerAssumption DEF PressBadUrl
  <2> QED
    BY <2>1, <2>2
<1>5. CASE ClientRuns
  BY <1>5, ClientRunsIInv
<1>6. CASE ConnectionStep
  BY <1>6, ServerReadsIInv, IdleTimeoutIInv, UnidentifiedIInv DEF ConnectionStep
<1>7. CASE OldConnectionStep
  BY <1>7, OldReadsIInv, OldResetIInv, OldTimeoutIInv DEF OldConnectionStep
<1> QED
  BY <1>1, <1>2, <1>3, <1>4, <1>5, <1>6, <1>7 DEF Next

\* The inductive invariant holds in every state of the player and its server.
LEMMA Invariance == Spec => []IInv
<1>1. Init => IInv
  BY InitIInv
<1>2. IInv /\ [Next]_vars => IInv'
  BY NextIInv
<1> QED
  BY <1>1, <1>2, PTL DEF Spec

-----------------------------------------------------------------------------
(* The theorems.                                                           *)

\* Every variable of the player, its client and the table keeps its type: no
\* more requests are numbered than there are, and no handler decrements the
\* loops that read below zero.
THEOREM PlayerTypeCorrect == Spec => []PlayerTypeOK
<1>1. IInv => PlayerTypeOK
  BY DEF IInv, Structure
<1> QED
  BY <1>1, Invariance, PTL

\* StatesAgree: when all calls are answered the client is in the state its
\* session is in at the server, also after two loops have read at the same time.
THEOREM PlayerStatesAgree == Spec => []StatesAgree
<1>1. ASSUME IInv PROVE StatesAgree
  <2> SUFFICES ASSUME Quiet, mine \subseteq {identifier}, identifier \in Live
               PROVE  sessions[identifier].state = state
    BY DEF StatesAgree
  <2>1. identifier \in SessionId /\ mine = {identifier}
    BY <1>1, LiveDef, ClientAssumption DEF IInv, Structure, SessionInv
  <2>2. toServer = <<>> /\ toClient = <<>> /\ \A c \in CSeq : outstanding[c] = NoMethod
    BY DEF Quiet
  <2>3. Clean(toServer, toClient, outstanding)
    BY <2>2 DEF Clean
  <2>4. WillBe(toClient, outstanding, state, sessions[identifier].state)
    BY <1>1, <2>1, <2>3, Zenon DEF IInv, AgreeInv
  <2> QED
    BY <2>2, <2>4 DEF WillBe
<1> QED
  BY <1>1, Invariance, PTL

\* A client never takes over a session that was set up for another one; what the
\* clients before have sent names sessions of theirs only; and when the server
\* has closed the client's connection none of its sessions is left.
THEOREM PlayerSessionsOwn == Spec => []SessionInv
<1>1. IInv => SessionInv
  BY DEF IInv, Structure
<1> QED
  BY <1>1, Invariance, PTL

\* A request that an older client has left in its connection changes no session
\* of the current one, whenever the server reads it.
THEOREM PlayerStrayHarmless ==
    Spec => [][\A n \in 1..MaxClients :
                 OldReads(n) => \A id \in mine : sessions'[id] = sessions[id]]_vars
<1>1. IInv /\ [Next]_vars
        => [\A n \in 1..MaxClients :
              OldReads(n) => \A id \in mine : sessions'[id] = sessions[id]]_vars
  BY OldReadsIInv
<1> QED
  BY <1>1, Invariance, PTL DEF Spec

\* What the server's table does in a step of the player is a step of
\* RtspServerState, or none.
LEMMA StepOfTable ==
    ASSUME IInv, [Next]_vars
    PROVE  [Server!Next]_(Server!stateVars)
<1>1. UNCHANGED tableVars => UNCHANGED Server!stateVars
  BY DEF Server!stateVars, tableVars
<1>2. ASSUME NEW req \in Request, Handled(req) PROVE Server!Next
  <2>1. [cseq |-> TRUE, method |-> req.method, session |-> req.session] \in Requests
    BY DEF Request, Requests
  <2> QED
    BY <1>2, <2>1 DEF Server!Next, Handled
<1>3. ASSUME Server!HostTimeout(TheHost) PROVE Server!Next
  BY <1>3 DEF Server!Next
<1>4. CASE UNCHANGED tableVars
  BY <1>1, <1>4
<1>5. CASE ServerReads
  <2>1. Head(toServer) \in Request
    BY <1>5, FirstRequest DEF ServerReads, IInv
  <2> QED
    BY <1>2, <1>5, <2>1 DEF ServerReads
<1>6. CASE IdleTimeout \/ \E n \in 1..MaxClients : OldTimeout(n)
  BY <1>3, <1>6 DEF IdleTimeout, OldTimeout
<1>7. ASSUME NEW n \in 1..MaxClients, OldReads(n)
      PROVE  [Server!Next]_(Server!stateVars)
  <2>1. Head(old[n].requests) \in Request
    <3>1. PICK s \in Seq(Request) : s = old[n].requests
      BY OldParts
    <3>2. s # <<>>
      BY <1>7, <3>1 DEF OldReads
    <3>3. Head(s) \in Request
      BY <3>2
    <3> QED
      BY <3>1, <3>3
  <2> QED
    BY <1>2, <1>4, <1>7, <2>1 DEF OldReads
<1>14. ASSUME NEW n \in 1..MaxClients, OldReset(n) PROVE UNCHANGED tableVars
  BY <1>14 DEF OldReset
<1>8. CASE ClientRuns
  BY <1>4, <1>8 DEF ClientRuns
<1>9. ASSUME NEW n \in 1..MaxCalls, ServerReadsUnidentified(n) PROVE UNCHANGED tableVars
  BY <1>9 DEF ServerReadsUnidentified
<1>10. ASSUME NEW m \in Presses, PressCurrent(m) PROVE UNCHANGED tableVars
  BY <1>10 DEF PressCurrent, CallCurrent
<1>11. ASSUME NEW m \in Presses, NEW options \in MknOptions, PressNew(m, options)
       PROVE  UNCHANGED tableVars
  BY <1>11 DEF PressNew, ReplaceClient
<1>12. ASSUME NEW m \in Presses, NEW options \in MknOptions, PressBadUrl(m, options)
       PROVE  UNCHANGED tableVars
  BY <1>12 DEF PressBadUrl, CallCurrent
<1>13. CASE UNCHANGED vars
  BY <1>4, <1>13 DEF vars
<1> QED
  BY <1>4, <1>5, <1>6, <1>7, <1>8, <1>9, <1>10, <1>11, <1>12, <1>13, <1>14
  DEF Next, ConnectionStep, OldConnectionStep

\* Whatever the buttons do, the server's table behaves as RtspServerState
\* allows: what is proved of the table holds of the composed system.
THEOREM PlayerKeepsTable == Spec => Server!Spec
<1>1. Init => Server!Init
  BY DEF Init
<1>2. IInv /\ [Next]_vars => [Server!Next]_(Server!stateVars)
  BY StepOfTable
<1> QED
  BY <1>1, <1>2, Invariance, PTL DEF Spec, Server!Spec
=============================================================================
