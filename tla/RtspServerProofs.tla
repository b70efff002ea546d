--------------------------- MODULE RtspServerProofs ---------------------------
(***************************************************************************)
(* The server, for any number of hosts, connections, sessions and ports.   *)
(* First its session table by itself (RtspServerState): the invariants,    *)
(* and that it implements the life cycle of RtspSession.  Then the         *)
(* connections with their timers around it (RtspServer): the timer         *)
(* arithmetic, which sessions a timeout takes, and that the table keeps    *)
(* its promises when the handlers of all connections interleave.  Last the *)
(* string that a connection sends its responses from (TcpResponse).        *)
(***************************************************************************)
EXTENDS RtspServer, TcpResponse, TLAPS

-----------------------------------------------------------------------------
(* A chain of early returns answers with one of its own statuses.          *)

LEMMA LeastOfEight ==
    ASSUME NEW S \in SUBSET (1..8), S # {}
    PROVE  \E i \in S : \A j \in S : i <= j
<1>1. CASE 1 \in S
  BY <1>1
<1>2. CASE 1 \notin S /\ 2 \in S
  BY <1>2
<1>3. CASE 1 \notin S /\ 2 \notin S /\ 3 \in S
  BY <1>3
<1>4. CASE 1 \notin S /\ 2 \notin S /\ 3 \notin S /\ 4 \in S
  BY <1>4
<1>5. CASE S \subseteq 5..8
  <2>1. CASE 5 \in S
    BY <1>5, <2>1
  <2>2. CASE 5 \notin S /\ 6 \in S
    BY <1>5, <2>2
  <2>3. CASE 5 \notin S /\ 6 \notin S /\ 7 \in S
    BY <1>5, <2>3
  <2>4. CASE 5 \notin S /\ 6 \notin S /\ 7 \notin S
    <3>1. \A j \in S : j = 8
      BY <1>5, <2>4
    <3>2. PICK i \in S : TRUE
      OBVIOUS
    <3>3. \A j \in S : i <= j
      BY <3>1
    <3> QED
      BY <3>3
  <2> QED
    BY <1>5, <2>1, <2>2, <2>3, <2>4
<1> QED
  BY <1>1, <1>2, <1>3, <1>4, <1>5

LEMMA FailureStatus ==
    ASSUME NEW checks, NEW passed, DOMAIN checks \subseteq 1..8,
           \A i \in DOMAIN checks : checks[i].status \in Status
    PROVE  FirstFailure(checks, passed) \in Status \cup {passed}
<1> DEFINE failed == {i \in DOMAIN checks : checks[i].fails}
<1>1. CASE failed = {}
  BY <1>1 DEF FirstFailure
<1>2. CASE failed # {}
  <2>1. \E i \in failed : \A j \in failed : i <= j
    BY <1>2, LeastOfEight
  <2>2. (CHOOSE i \in failed : \A j \in failed : i <= j) \in failed
    BY <2>1
  <2> QED
    BY <1>2, <2>2 DEF FirstFailure
<1> QED
  BY <1>1, <1>2

LEMMA RequestStatus ==
    ASSUME NEW req
    PROVE  FirstFailure(RequestChecks(req), 0) \in Status \cup {0}
<1>1. /\ DOMAIN RequestChecks(req) \subseteq 1..8
      /\ \A i \in DOMAIN RequestChecks(req) : RequestChecks(req)[i].status \in Status
  BY DEF RequestChecks, Status
<1> QED
  BY <1>1, FailureStatus

LEMMA SetupStatusType ==
    ASSUME NEW s, NEW req
    PROVE  SetupStatus(s, req) \in Status
<1>1. /\ DOMAIN SetupChecks(s, req) \subseteq 1..8
      /\ \A i \in DOMAIN SetupChecks(s, req) : SetupChecks(s, req)[i].status \in Status
  BY DEF SetupChecks, Status
<1>2. FirstFailure(SetupChecks(s, req), 200) \in Status \cup {200}
  BY <1>1, FailureStatus
<1> QED
  BY <1>2 DEF SetupStatus, Status

-----------------------------------------------------------------------------
(* The methods on one session.                                             *)

Fresh(h) == [Absent EXCEPT !.state = "init", !.addr = h]

\* SETUP leaves an init session without a sender, or a ready one that sends to
\* the host that asked.
LEMMA SetupFacts ==
    ASSUME NEW h \in Host, NEW req \in SetupRequests, NEW s,
           s = SetupSession(Fresh(h), req)
    PROVE  /\ s \in Session
           /\ s.state \in {"init", "ready"}
           /\ s.state = "ready" <=> s.port # NoPort
           /\ s.port # NoPort => s.dest = h
<1> USE ServerAssumption
<1>1. req.port \in Port
  BY DEF SetupRequest
<1>2. /\ Fresh(h) \in Session /\ Fresh(h).state = "init" /\ Fresh(h).addr = h
      /\ Fresh(h).port = NoPort
  BY DEF Fresh, Absent, Session, SessionState
<1>3. CASE s = Fresh(h)
  BY <1>2, <1>3
<1>4. CASE s = [Fresh(h) EXCEPT !.state = "ready", !.port = req.port, !.dest = Fresh(h).addr]
  <2>1. /\ s.state = "ready" /\ s.port = req.port /\ s.dest = h
    BY <1>2, <1>4 DEF Session
  <2>2. s \in Session
    BY <1>1, <1>2, <1>4 DEF Session, SessionState
  <2> QED
    BY <1>1, <2>1, <2>2
<1> QED
  BY <1>3, <1>4 DEF SetupSession

\* What PLAY and PAUSE can make of a session.
Kept(s, r) ==
    /\ r \in Session
    /\ r.port = s.port /\ r.dest = s.dest
    /\ \/ r.state = s.state
       \/ s.state = "ready" /\ r.state = "playing"
       \/ s.state = "playing" /\ r.state = "ready"

LEMMA MethodFacts ==
    ASSUME NEW s \in Session, NEW h \in Host, NEW t, t = [s EXCEPT !.addr = h]
    PROVE  /\ Kept(s, PlaySession(t))
           /\ Kept(s, PauseSession(t))
           /\ TeardownSession(t) = Absent
<1>1. /\ t \in Session /\ t.state = s.state /\ t.port = s.port /\ t.dest = s.dest
  BY DEF Session
<1>2. /\ [t EXCEPT !.state = "playing"] \in Session /\ [t EXCEPT !.state = "ready"] \in Session
      /\ [t EXCEPT !.state = "playing"].state = "playing"
      /\ [t EXCEPT !.state = "ready"].state = "ready"
      /\ [t EXCEPT !.state = "playing"].port = t.port /\ [t EXCEPT !.state = "ready"].port = t.port
      /\ [t EXCEPT !.state = "playing"].dest = t.dest /\ [t EXCEPT !.state = "ready"].dest = t.dest
  BY <1>1 DEF Session, SessionState
<1> QED
  BY <1>1, <1>2 DEF PlaySession, PauseSession, TeardownSession, Kept

LEMMA AbsentFacts ==
    /\ Absent \in Session /\ Absent.state = "absent"
    /\ Absent.port = NoPort /\ Absent.dest = NoHost
BY DEF Absent, Session, SessionState

-----------------------------------------------------------------------------
(* The inductive invariant.  The properties alone are not inductive: SETUP  *)
(* must find an identifier that no table knows yet.                         *)

IssuedFirst ==
    /\ \A id \in SessionId : id \notin issued => sessions[id].state = "absent"
    /\ \A h \in Host, id \in SessionId : <<h, id>> \in byHost => id \in issued

IInv == TypeOK /\ SenderPresent /\ StreamsIndexed /\ IndexComplete /\ IssuedFirst

LEMMA InitOK == Init => IInv
<1> SUFFICES ASSUME Init PROVE IInv
  OBVIOUS
<1>1. \A id \in SessionId : sessions[id] = Absent
  BY DEF Init
<1>2. TypeOK
  BY AbsentFacts DEF Init, TypeOK, NoReply, Reply
<1>3. SenderPresent /\ StreamsIndexed /\ IndexComplete
  BY <1>1, AbsentFacts DEF SenderPresent, StreamsIndexed, IndexComplete, Live
<1>4. IssuedFirst
  BY <1>1, AbsentFacts DEF Init, IssuedFirst
<1> QED
  BY <1>2, <1>3, <1>4 DEF IInv

LEMMA SetupOK ==
    ASSUME IInv, NEW h \in Host, NEW id \in SessionId, NEW req \in SetupRequests,
           Setup(h, id, req)
    PROVE  IInv'
<1> DEFINE s == SetupSession(Fresh(h), req)
<1>1. /\ s \in Session /\ s.state \in {"init", "ready"}
      /\ s.state = "ready" <=> s.port # NoPort
      /\ s.port # NoPort => s.dest = h
  BY SetupFacts
<1>2. /\ sessions \in [SessionId -> Session]
      /\ id \notin issued /\ issued' = issued \cup {id}
      /\ byHost' = byHost \cup {<<h, id>>}
      /\ sessions' = [sessions EXCEPT ![id] = s]
  BY DEF IInv, TypeOK, Setup, Fresh
<1> HIDE DEF s
<1>3. sessions'[id] = s /\ \A i \in SessionId : i # id => sessions'[i] = sessions[i]
  BY <1>2
<1>4. TypeOK'
  <2>1. reply' \in [status: Status \cup {0}, session: SessionId \cup {NoSession}]
    BY SetupStatusType DEF Setup, Reply, NoReply
  <2> QED
    BY <1>1, <1>2, <2>1 DEF IInv, TypeOK
<1>5. SenderPresent'
  BY <1>1, <1>3 DEF IInv, SenderPresent
<1>6. StreamsIndexed'
  BY <1>1, <1>2, <1>3 DEF IInv, StreamsIndexed
\* No host is indexed with the identifier before.
<1>7. IndexComplete'
  <2>1. \A g \in Host : <<g, id>> \in byHost' <=> g = h
    BY <1>2 DEF IInv, IssuedFirst
  <2>2. \A g \in Host, i \in SessionId : i # id => (<<g, i>> \in byHost' <=> <<g, i>> \in byHost)
    BY <1>2
  <2>3. \A i \in SessionId : i # id => (i \in Live' <=> i \in Live)
    BY <1>3 DEF Live
  <2>4. ASSUME NEW i \in Live'
        PROVE  \E f \in Host : \A g \in Host : <<g, i>> \in byHost' <=> g = f
    <3>1. i \in SessionId
      BY <2>4 DEF Live
    <3>2. CASE i = id
      BY <2>1, <3>2
    <3>3. CASE i # id
      <4>1. PICK f \in Host : \A g \in Host : <<g, i>> \in byHost <=> g = f
        BY <2>3, <2>4, <3>1, <3>3 DEF IInv, IndexComplete
      <4> QED
        BY <2>2, <3>1, <3>3, <4>1
    <3> QED
      BY <3>2, <3>3
  <2> QED
    BY <2>4 DEF IndexComplete
<1>8. IssuedFirst'
  BY <1>2, <1>3 DEF IInv, IssuedFirst
<1> QED
  BY <1>4, <1>5, <1>6, <1>7, <1>8 DEF IInv

\* A session that is replaced by one that is gone, or that kept its sender.
LEMMA ReplaceOK ==
    ASSUME IInv, NEW id \in Live, NEW r,
           r = Absent \/ Kept(sessions[id], r),
           sessions' = [sessions EXCEPT ![id] = r],
           reply' \in [status: Status \cup {0}, session: SessionId \cup {NoSession}],
           UNCHANGED <<byHost, issued>>
    PROVE  IInv'
<1>1. /\ sessions \in [SessionId -> Session] /\ id \in SessionId
      /\ sessions[id] \in Session /\ sessions[id].state # "absent"
  BY DEF IInv, TypeOK, Live
<1>2. sessions'[id] = r /\ \A i \in SessionId : i # id => sessions'[i] = sessions[i]
  BY <1>1
<1>3. r \in Session
  BY AbsentFacts DEF Kept
<1>4. TypeOK'
  BY <1>1, <1>3 DEF IInv, TypeOK
<1>5. SenderPresent'
  <2>1. sessions[id].state \in {"ready", "playing"} <=> sessions[id].port # NoPort
    BY <1>1 DEF IInv, SenderPresent
  <2>2. r.state \in {"ready", "playing"} <=> r.port # NoPort
    BY <2>1, AbsentFacts DEF Kept
  <2> QED
    BY <1>2, <2>2 DEF IInv, SenderPresent
<1>6. StreamsIndexed'
  BY <1>1, <1>2, AbsentFacts DEF IInv, StreamsIndexed, Kept
<1>7. IndexComplete'
  <2>1. Live' \subseteq Live
    BY <1>2 DEF Live
  <2> QED
    BY <2>1 DEF IInv, IndexComplete
<1>8. IssuedFirst'
  BY <1>1, <1>2 DEF IInv, IssuedFirst
<1> QED
  BY <1>4, <1>5, <1>6, <1>7, <1>8 DEF IInv

LEMMA InSessionOK ==
    ASSUME IInv, NEW h \in Host, NEW id,
           Play(h, id) \/ Pause(h, id) \/ Teardown(h, id)
    PROVE  IInv'
<1>1. id \in Live /\ id \in SessionId /\ sessions[id] \in Session
  BY DEF Play, Pause, Teardown, AddressedBy, InSession, Live, IInv, TypeOK
<1>2. UNCHANGED <<byHost, issued>>
  BY DEF Play, Pause, Teardown, AddressedBy, InSession
<1>3. reply' \in [status: Status \cup {0}, session: SessionId \cup {NoSession}]
  BY <1>1 DEF Play, Pause, Teardown, AddressedBy, InSession, Answer, Reply, PlayStatus, PauseStatus, Status
<1> DEFINE t == [sessions[id] EXCEPT !.addr = h]
<1>4. \E r : /\ r = Absent \/ Kept(sessions[id], r)
             /\ sessions' = [sessions EXCEPT ![id] = r]
  <2>1. \/ sessions' = [sessions EXCEPT ![id] = PlaySession(t)]
        \/ sessions' = [sessions EXCEPT ![id] = PauseSession(t)]
        \/ sessions' = [sessions EXCEPT ![id] = TeardownSession(t)]
    BY DEF Play, Pause, Teardown, AddressedBy, InSession
  <2>2. /\ Kept(sessions[id], PlaySession(t)) /\ Kept(sessions[id], PauseSession(t))
        /\ TeardownSession(t) = Absent
    BY <1>1, MethodFacts
  <2> QED
    BY <2>1, <2>2
<1> QED
  BY <1>1, <1>2, <1>3, <1>4, ReplaceOK

LEMMA HostTimeoutOK ==
    ASSUME IInv, NEW h \in Host, HostTimeout(h)
    PROVE  IInv'
<1>1. /\ sessions \in [SessionId -> Session]
      /\ sessions' = [id \in SessionId |-> IF id \in OfHost(h) THEN Absent ELSE sessions[id]]
      /\ byHost' = {e \in byHost : e[1] # h}
      /\ UNCHANGED <<issued, reply>>
  BY DEF IInv, TypeOK, HostTimeout
<1>2. \A id \in SessionId :
          \/ sessions'[id] = Absent
          \/ sessions'[id] = sessions[id] /\ <<h, id>> \notin byHost
  BY <1>1 DEF OfHost
<1>3. \A g \in Host, id \in SessionId :
          <<g, id>> \in byHost' <=> <<g, id>> \in byHost /\ g # h
  BY <1>1
<1>4. TypeOK'
  <2>1. sessions' \in [SessionId -> Session]
    BY <1>1, AbsentFacts
  <2> QED
    BY <1>1, <2>1 DEF IInv, TypeOK
<1>5. SenderPresent'
  BY <1>2, AbsentFacts DEF IInv, SenderPresent
<1>6. StreamsIndexed'
  <2> SUFFICES ASSUME NEW id \in SessionId, sessions'[id].port # NoPort
               PROVE  <<sessions'[id].dest, id>> \in byHost'
    BY DEF StreamsIndexed
  <2>1. sessions'[id] = sessions[id] /\ <<h, id>> \notin byHost
    BY <1>2, AbsentFacts
  <2>2. <<sessions[id].dest, id>> \in byHost
    BY <2>1 DEF IInv, StreamsIndexed
  <2>3. sessions[id].dest \in Host
    BY <2>2 DEF IInv, TypeOK
  <2> QED
    BY <1>3, <2>1, <2>2, <2>3
<1>7. IndexComplete'
  <2> SUFFICES ASSUME NEW id \in Live'
               PROVE  \E f \in Host : \A g \in Host : <<g, id>> \in byHost' <=> g = f
    BY DEF IndexComplete
  <2>1. id \in SessionId /\ sessions'[id] = sessions[id] /\ <<h, id>> \notin byHost /\ id \in Live
    BY <1>2, AbsentFacts DEF Live
  <2>2. PICK f \in Host : \A g \in Host : <<g, id>> \in byHost <=> g = f
    BY <2>1 DEF IInv, IndexComplete
  <2> QED
    BY <1>3, <2>1, <2>2
<1>8. IssuedFirst'
  BY <1>1, <1>2, <1>3, AbsentFacts DEF IInv, IssuedFirst
<1> QED
  BY <1>4, <1>5, <1>6, <1>7, <1>8 DEF IInv

LEMMA UntouchedOK ==
    ASSUME IInv, UNCHANGED <<sessions, byHost, issued>>,
           reply' \in [status: Status \cup {0}, session: SessionId \cup {NoSession}]
    PROVE  IInv'
BY DEF IInv, TypeOK, SenderPresent, StreamsIndexed, IndexComplete, IssuedFirst, Live

LEMMA StepOK == IInv /\ [Next]_stateVars => IInv'
<1> SUFFICES ASSUME IInv, [Next]_stateVars PROVE IInv'
  OBVIOUS
<1>1. CASE UNCHANGED stateVars
  BY <1>1, UntouchedOK DEF stateVars, IInv, TypeOK
<1>2. ASSUME NEW h \in Host, HostTimeout(h) PROVE IInv'
  BY <1>2, HostTimeoutOK
<1>3. ASSUME NEW h \in Host, NEW req \in Requests, HandleRequest(h, req) PROVE IInv'
  <2>1. CASE AnswerEarly(req)
    <3>1. reply' \in [status: Status \cup {0}, session: SessionId \cup {NoSession}]
      BY <2>1, RequestStatus DEF AnswerEarly, Answer, Reply
    <3> QED
      BY <2>1, <3>1, UntouchedOK DEF AnswerEarly
  <2>2. ASSUME NEW id \in SessionId, NEW setup \in SetupRequests, Setup(h, id, setup)
        PROVE  IInv'
    BY <2>2, SetupOK
  <2>3. CASE UnknownSession(req.session)
    <3>1. reply' \in [status: Status \cup {0}, session: SessionId \cup {NoSession}]
      BY <2>3 DEF UnknownSession, Answer, Reply, Status
    <3> QED
      BY <2>3, <3>1, UntouchedOK DEF UnknownSession
  <2>4. CASE Play(h, req.session) \/ Pause(h, req.session) \/ Teardown(h, req.session)
    BY <2>4, InSessionOK
  <2> QED
    BY <1>3, <2>1, <2>2, <2>3, <2>4 DEF HandleRequest
<1> QED
  BY <1>1, <1>2, <1>3 DEF Next

LEMMA Invariance == Spec => []IInv
BY InitOK, StepOK, PTL DEF Spec

-----------------------------------------------------------------------------
(* The invariants of the table.                                            *)

\* The tables keep their types under every request and host timeout.
THEOREM TableTypeCorrect == Spec => []TypeOK
<1>1. IInv => TypeOK
  BY DEF IInv
<1> QED
  BY Invariance, <1>1, PTL

\* methods::play and methods::pause never dereference a null rtp_session.
THEOREM TableSenderPresent == Spec => []SenderPresent
<1>1. IInv => SenderPresent
  BY DEF IInv
<1> QED
  BY Invariance, <1>1, PTL

\* The timeout of the host that receives a stream ends the stream.
THEOREM TableStreamsIndexed == Spec => []StreamsIndexed
<1>1. IInv => StreamsIndexed
  BY DEF IInv
<1> QED
  BY Invariance, <1>1, PTL

\* Every session of sessions_ is in sessions__by_host_ under exactly one host.
THEOREM TableIndexComplete == Spec => []IndexComplete
<1>1. IInv => IndexComplete
  BY DEF IInv
<1> QED
  BY Invariance, <1>1, PTL

-----------------------------------------------------------------------------
(* The table implements RtspSession.                                       *)

phaseBar == [id \in SessionId |-> Phase(id)]

LEMMA PhaseCases ==
    ASSUME IInv, NEW id \in SessionId
    PROVE  /\ id \notin issued => Phase(id) = "fresh" /\ sessions[id].state = "absent"
           /\ id \in issued /\ sessions[id].state = "absent" => Phase(id) = "gone"
           /\ sessions[id].state # "absent" => /\ id \in issued
                                               /\ Phase(id) = sessions[id].state
                                               /\ Phase(id) \in Life!Open
<1>1. sessions[id].state \in SessionState
  BY DEF IInv, TypeOK, Session
<1> QED
  BY <1>1 DEF IInv, IssuedFirst, Phase, Live, Life!Open, SessionState

\* The session of one identifier changes, the others keep their phase.
LEMMA OneMoves ==
    ASSUME IInv, IInv', NEW id \in SessionId,
           \A i \in SessionId : i # id => sessions'[i] = sessions[i],
           \A i \in SessionId : i # id => (i \in issued' <=> i \in issued),
           Phase(id)' = Phase(id) \/ <<Phase(id), Phase(id)'>> \in Life!Moves
    PROVE  Life!Next \/ UNCHANGED phaseBar
<1>1. \A i \in SessionId : i # id => Phase(i)' = Phase(i)
  BY DEF Phase, Live
<1>2. CASE Phase(id)' = Phase(id)
  BY <1>1, <1>2 DEF phaseBar
<1>3. CASE <<Phase(id), Phase(id)'>> \in Life!Moves
  <2>1. Phase(id)' \in Life!Phases
    BY <1>3 DEF Life!Moves, Life!Phases, Life!Open
  <2>2. phaseBar' = [phaseBar EXCEPT ![id] = Phase(id)']
    BY <1>1 DEF phaseBar
  <2>3. Life!Request(id)
    BY <1>3, <2>1, <2>2 DEF Life!Request, phaseBar
  <2> QED
    BY <2>3 DEF Life!Next
<1> QED
  BY <1>2, <1>3

LEMMA StepRefines ==
    ASSUME IInv, IInv', [Next]_stateVars
    PROVE  Life!Next \/ UNCHANGED phaseBar
<1>1. CASE UNCHANGED <<sessions, issued>>
  BY <1>1 DEF phaseBar, Phase, Live
<1>2. ASSUME NEW h \in Host, HostTimeout(h) PROVE Life!Next
  <2> DEFINE ids == OfHost(h) \cap Live
  <2>1. ids \subseteq SessionId /\ issued' = issued
    BY <1>2 DEF OfHost, HostTimeout
  <2>2. \A id \in ids : phaseBar[id] \in Life!Open
    BY <2>1, PhaseCases DEF phaseBar, Live
  <2>3. \A id \in SessionId : sessions'[id] = IF id \in OfHost(h) THEN Absent ELSE sessions[id]
    BY <1>2 DEF HostTimeout
  <2>4. \A id \in ids : Phase(id)' = "gone"
    <3> SUFFICES ASSUME NEW id \in ids PROVE Phase(id)' = "gone"
      OBVIOUS
    <3>1. id \in SessionId /\ id \in issued /\ sessions'[id].state = "absent"
      BY <2>1, <2>3, PhaseCases, AbsentFacts DEF Live
    <3> QED
      BY <2>1, <3>1 DEF Phase, Live
  <2>5. \A id \in SessionId \ ids : Phase(id)' = Phase(id)
    <3> SUFFICES ASSUME NEW id \in SessionId \ ids PROVE Phase(id)' = Phase(id)
      OBVIOUS
    <3>1. sessions'[id].state = sessions[id].state
      BY <2>3, AbsentFacts DEF Live
    <3> QED
      BY <2>1, <3>1 DEF Phase, Live
  <2>6. Life!Expire(ids)
    BY <2>1, <2>2, <2>4, <2>5 DEF Life!Expire, phaseBar
  <2> QED
    BY <2>1, <2>6 DEF Life!Next
<1>3. ASSUME NEW h \in Host, NEW id \in SessionId, NEW req \in SetupRequests, Setup(h, id, req)
      PROVE  Life!Next \/ UNCHANGED phaseBar
  <2> DEFINE s == SetupSession(Fresh(h), req)
  <2>1. s.state \in {"init", "ready"}
    BY SetupFacts
  <2>2. /\ sessions \in [SessionId -> Session] /\ sessions' = [sessions EXCEPT ![id] = s]
        /\ id \notin issued /\ issued' = issued \cup {id}
    BY <1>3 DEF Setup, Fresh, IInv, TypeOK
  <2> HIDE DEF s
  <2>3. sessions'[id] = s /\ \A i \in SessionId : i # id => sessions'[i] = sessions[i]
    BY <2>2
  <2>4. Phase(id) = "fresh"
    BY <2>2 DEF Phase
  <2>5. Phase(id)' = s.state
    BY <2>1, <2>2, <2>3 DEF Phase, Live
  <2>6. <<Phase(id), Phase(id)'>> \in Life!Moves
    BY <2>1, <2>4, <2>5 DEF Life!Moves
  <2> QED
    BY <2>2, <2>3, <2>6, OneMoves
<1>4. ASSUME NEW h \in Host, NEW id,
             Play(h, id) \/ Pause(h, id) \/ Teardown(h, id)
      PROVE  Life!Next \/ UNCHANGED phaseBar
  <2> DEFINE t == [sessions[id] EXCEPT !.addr = h]
  <2>1. /\ id \in SessionId /\ sessions[id].state # "absent" /\ sessions[id] \in Session
        /\ sessions \in [SessionId -> Session]
        /\ issued' = issued
    BY <1>4 DEF Play, Pause, Teardown, AddressedBy, InSession, Live, IInv, TypeOK
  <2>2. \/ sessions' = [sessions EXCEPT ![id] = PlaySession(t)]
        \/ sessions' = [sessions EXCEPT ![id] = PauseSession(t)]
        \/ sessions' = [sessions EXCEPT ![id] = TeardownSession(t)]
    BY <1>4 DEF Play, Pause, Teardown, AddressedBy, InSession
  <2>3. /\ Kept(sessions[id], PlaySession(t)) /\ Kept(sessions[id], PauseSession(t))
        /\ TeardownSession(t) = Absent
    BY <2>1, MethodFacts
  <2>4. /\ \A i \in SessionId : i # id => sessions'[i] = sessions[i]
        /\ sessions'[id] = Absent \/ Kept(sessions[id], sessions'[id])
    BY <2>1, <2>2, <2>3
  <2>5. id \in issued /\ Phase(id) = sessions[id].state /\ Phase(id) \in Life!Open
    BY <2>1, PhaseCases
  <2>6. Phase(id)' = IF sessions'[id].state = "absent" THEN "gone" ELSE sessions'[id].state
    BY <2>1, <2>5 DEF Phase, Live
  <2>7. Phase(id)' = Phase(id) \/ <<Phase(id), Phase(id)'>> \in Life!Moves
    <3>1. CASE sessions'[id] = Absent
      BY <2>5, <2>6, <3>1, AbsentFacts DEF Life!Moves
    <3>2. CASE Kept(sessions[id], sessions'[id])
      BY <2>1, <2>5, <2>6, <3>2 DEF Kept, Life!Moves
    <3> QED
      BY <2>4, <3>1, <3>2
  <2> QED
    BY <2>1, <2>4, <2>7, OneMoves
<1>5. ASSUME NEW h \in Host, NEW req \in Requests, HandleRequest(h, req)
      PROVE  Life!Next \/ UNCHANGED phaseBar
  <2>1. CASE AnswerEarly(req)
    BY <1>1, <2>1 DEF AnswerEarly
  <2>2. CASE UnknownSession(req.session)
    BY <1>1, <2>2 DEF UnknownSession
  <2> QED
    BY <1>3, <1>4, <1>5, <2>1, <2>2 DEF HandleRequest
<1>6. CASE UNCHANGED stateVars
  BY <1>1, <1>6 DEF stateVars
<1> QED
  BY <1>2, <1>5, <1>6 DEF Next

\* Whatever the requests and timeouts, every identifier goes through the life
\* cycle of RtspSession once: the refinement the run checks on two sessions.
THEOREM TableImplementsLife == Spec => SessionLife
<1>1. Init => Life!Init
  BY DEF Init, Life!Init, Phase
<1>2. IInv /\ IInv' /\ [Next]_stateVars => [Life!Next]_phaseBar
  BY StepRefines
<1>3. IInv /\ IInv' /\ [Next]_stateVars => [Life!Next]_([id \in SessionId |-> Phase(id)])
  BY <1>2 DEF phaseBar
<1> QED
  BY <1>1, <1>3, Invariance, PTL DEF Spec, SessionLife, Life!Spec

-----------------------------------------------------------------------------

\* A TEARDOWN removes its own session and no other, a host timeout exactly the
\* sessions indexed under the host.
THEOREM TableLeaveTogether == Spec => LeaveTogether
<1> DEFINE Allowed == Live \ Live' # {} =>
        \/ \E id \in SessionId : Live \ Live' = {id} /\ reply' = Reply(200, id)
        \/ \E h \in Host : Live \ Live' = OfHost(h) \cap Live
<1>1. ASSUME IInv, NEW h \in Host, HostTimeout(h) PROVE Allowed
  <2>1. \A i \in SessionId : sessions'[i] = IF i \in OfHost(h) THEN Absent ELSE sessions[i]
    BY <1>1 DEF HostTimeout
  <2>2. Live \ Live' = OfHost(h) \cap Live
    BY <2>1, AbsentFacts DEF Live
  <2> QED
    BY <2>2
<1>2. ASSUME IInv, NEW h \in Host, NEW id \in SessionId, NEW setup \in SetupRequests,
             Setup(h, id, setup)
      PROVE  Allowed
  <2>1. id \notin Live /\ sessions \in [SessionId -> Session]
    BY <1>2 DEF Setup, IInv, IssuedFirst, Live, TypeOK
  <2>2. \A i \in SessionId : i # id => sessions'[i] = sessions[i]
    BY <1>2, <2>1 DEF Setup
  <2> QED
    BY <2>1, <2>2 DEF Live
<1>3. ASSUME IInv, NEW h \in Host, NEW id, Play(h, id) \/ Pause(h, id) \/ Teardown(h, id)
      PROVE  Allowed
  <2> DEFINE t == [sessions[id] EXCEPT !.addr = h]
  <2>1. id \in SessionId /\ id \in Live /\ sessions[id] \in Session
        /\ sessions \in [SessionId -> Session]
    BY <1>3 DEF Play, Pause, Teardown, AddressedBy, InSession, Live, IInv, TypeOK
  <2>2. \A i \in SessionId : i # id => sessions'[i] = sessions[i]
    BY <1>3, <2>1 DEF Play, Pause, Teardown, AddressedBy, InSession
  <2>3. Live \ Live' \subseteq {id}
    BY <2>2 DEF Live
  <2>4. CASE Teardown(h, id)
    <3>1. reply' = Reply(200, id)
      BY <2>4 DEF Teardown, AddressedBy, InSession, Answer
    <3> QED
      BY <2>1, <2>3, <3>1
  <2>5. CASE Play(h, id) \/ Pause(h, id)
    <3>1. Kept(sessions[id], PlaySession(t)) /\ Kept(sessions[id], PauseSession(t))
      BY <2>1, MethodFacts
    <3>2. sessions'[id] = PlaySession(t) \/ sessions'[id] = PauseSession(t)
      BY <2>1, <2>5 DEF Play, Pause, AddressedBy, InSession
    <3>3. id \in Live'
      BY <2>1, <3>1, <3>2 DEF Kept, Live
    <3> QED
      BY <2>3, <3>3
  <2> QED
    BY <1>3, <2>4, <2>5
<1>4. ASSUME IInv, NEW h \in Host, NEW req \in Requests, HandleRequest(h, req) PROVE Allowed
  <2>1. CASE AnswerEarly(req) \/ UnknownSession(req.session)
    BY <2>1 DEF AnswerEarly, UnknownSession, Live
  <2> QED
    BY <1>2, <1>3, <1>4, <2>1 DEF HandleRequest
<1>5. IInv /\ [Next]_stateVars => [Allowed]_stateVars
  BY <1>1, <1>4 DEF Next
<1> QED
  BY Invariance, <1>5, PTL DEF Spec, LeaveTogether

-----------------------------------------------------------------------------
(* The server around the table.  The inductive invariant adds to the       *)
(* table's what the handlers rely on: a connection whose handlers can run  *)
(* has a host, and a session is indexed under the host of the connection   *)
(* that created it.                                                        *)

ConnTypeOK ==
    /\ peer \in [Conn -> Host \cup {NoHost}]
    /\ sock \in [Conn -> {"unused", "open", "eof", "reset", "closed"}]
    /\ reading \in [Conn -> BOOLEAN]
    /\ idle \in [Conn -> 0..(2 * Period + MaxLate)]
    /\ timer \in [Conn -> -MaxLate..Period]
    /\ check \in [Conn -> {"waiting", "decided", "closing", "off"}]
    /\ via \in [SessionId -> Conn \cup {NoConn}]

Opened ==
    \A c \in Conn : \/ sock[c] = "unused" /\ reading[c] = FALSE /\ check[c] = "off"
                    \/ sock[c] # "unused" /\ peer[c] \in Host

Origin ==
    \A c \in Conn, id \in SessionId :
        via[id] = c => /\ sock[c] # "unused"
                       /\ id \in issued
                       /\ id \in Live => <<peer[c], id>> \in byHost

ServerInv == IInv /\ ConnTypeOK /\ Opened /\ IdleBounded /\ Origin

LEMMA ServerInitOK == ServerInit => ServerInv
<1> SUFFICES ASSUME ServerInit PROVE ServerInv
  OBVIOUS
<1>1. IInv
  BY InitOK DEF ServerInit
<1>2. ConnTypeOK
  BY ConnAssumption DEF ServerInit, ConnTypeOK
<1>3. Opened /\ IdleBounded
  BY DEF ServerInit, Opened, IdleBounded
<1>4. Origin
  BY ConnAssumption DEF ServerInit, Origin
<1> QED
  BY <1>1, <1>2, <1>3, <1>4 DEF ServerInv

-----------------------------------------------------------------------------
(* What a step of the server does to the table.                            *)

LEMMA UnparsableOK ==
    ASSUME IInv, UNCHANGED <<sessions, byHost, issued>>, Answer(400, NoSession)
    PROVE  IInv'
<1>1. reply' \in [status: Status \cup {0}, session: SessionId \cup {NoSession}]
  BY DEF Answer, Reply, Status
<1> QED
  BY <1>1, UntouchedOK

\* Every step of the server is a step of the table, leaves it alone, or answers
\* 400 to something that is no request.
LEMMA StepOnTable ==
    ASSUME ServerInv, ServerNext
    PROVE  \/ [Next]_stateVars
           \/ UNCHANGED <<sessions, byHost, issued>> /\ Answer(400, NoSession)
<1>1. CASE Tick \/ UdpUnparsable
  BY <1>1 DEF Tick, UdpUnparsable
<1>2. ASSUME NEW h \in Host, NEW req \in Requests, UdpRequest(h, req)
      PROVE  Next
  BY <1>2 DEF UdpRequest, Next
<1>3. ASSUME NEW c \in Conn, NEW h \in Host, Accept(c, h)
      PROVE  UNCHANGED stateVars
  BY <1>3 DEF Accept
<1>4. ASSUME NEW c \in Conn, NEW req \in Requests, HeaderRead(c, req)
      PROVE  Next
  <2>1. peer[c] \in Host
    BY <1>4 DEF HeaderRead, ServerInv, Opened
  <2> QED
    BY <1>4, <2>1 DEF HeaderRead, Next
<1>5. ASSUME NEW c \in Conn, HeaderUnparsable(c)
      PROVE  UNCHANGED <<sessions, byHost, issued>> /\ Answer(400, NoSession)
  BY <1>5 DEF HeaderUnparsable
<1>6. ASSUME NEW c \in Conn, TimeoutActs(c)
      PROVE  [Next]_stateVars
  <2>1. peer[c] \in Host
    BY <1>6 DEF TimeoutActs, ServerInv, Opened
  <2> QED
    BY <1>6, <2>1 DEF TimeoutActs, Next
<1>7. ASSUME NEW c \in Conn,
             \/ HeaderReadFails(c) \/ TimeoutCheck(c) \/ TimeoutCloses(c)
             \/ PeerCloses(c) \/ PeerResets(c)
      PROVE  UNCHANGED stateVars
  BY <1>7 DEF HeaderReadFails, TimeoutCheck, TimeoutCloses, PeerCloses, PeerResets
<1> QED
  BY <1>1, <1>2, <1>3, <1>4, <1>5, <1>6, <1>7 DEF ServerNext

LEMMA TableKept == ServerInv /\ [ServerNext]_vars => IInv'
<1> SUFFICES ASSUME ServerInv, [ServerNext]_vars PROVE IInv'
  OBVIOUS
<1>1. CASE UNCHANGED vars
  <2>1. UNCHANGED stateVars
    BY <1>1 DEF vars, stateVars
  <2> QED
    BY <2>1, StepOK DEF ServerInv
<1>2. CASE ServerNext
  BY <1>2, StepOnTable, StepOK, UnparsableOK DEF ServerInv
<1> QED
  BY <1>1, <1>2

\* A request removes nothing from the index, and indexes what it creates under
\* the host it came from; no session comes to life without being created.
LEMMA RequestFacts ==
    ASSUME IInv, NEW h \in Host, NEW req, HandleRequest(h, req)
    PROVE  /\ issued \subseteq issued' /\ byHost \subseteq byHost'
           /\ \A id \in SessionId : id \in issued' \ issued => <<h, id>> \in byHost'
           /\ \A id \in SessionId : id \in Live' => id \in Live \/ id \in issued' \ issued
<1>1. CASE AnswerEarly(req) \/ UnknownSession(req.session)
  BY <1>1 DEF AnswerEarly, UnknownSession, Live
<1>2. ASSUME NEW i \in SessionId, NEW setup \in SetupRequests, Setup(h, i, setup)
      PROVE  /\ issued \subseteq issued' /\ byHost \subseteq byHost'
             /\ \A id \in SessionId : id \in issued' \ issued => <<h, id>> \in byHost'
             /\ \A id \in SessionId : id \in Live' => id \in Live \/ id \in issued' \ issued
  <2>1. /\ i \notin issued /\ issued' = issued \cup {i} /\ byHost' = byHost \cup {<<h, i>>}
        /\ \A id \in SessionId : id # i => sessions'[id] = sessions[id]
    BY <1>2 DEF Setup, IInv, TypeOK
  <2> QED
    BY <2>1 DEF Live
<1>3. ASSUME Play(h, req.session) \/ Pause(h, req.session) \/ Teardown(h, req.session)
      PROVE  /\ issued' = issued /\ byHost' = byHost
             /\ \A id \in SessionId : id \in Live' => id \in Live
  <2>1. /\ issued' = issued /\ byHost' = byHost /\ req.session \in Live
        /\ \A id \in SessionId : id # req.session => sessions'[id] = sessions[id]
    BY <1>3 DEF Play, Pause, Teardown, InSession, IInv, TypeOK, Live
  <2> QED
    BY <2>1 DEF Live
<1> QED
  BY <1>1, <1>2, <1>3 DEF HandleRequest

LEMMA RequestOrigin ==
    ASSUME ServerInv, NEW h \in Host, NEW req, HandleRequest(h, req),
           NEW c \in Conn \cup {NoConn}, Created(c),
           c \in Conn => peer[c] = h /\ sock[c] # "unused",
           UNCHANGED <<peer, sock>>
    PROVE  via' \in [SessionId -> Conn \cup {NoConn}] /\ Origin'
<1>1. \A id \in SessionId : via'[id] = IF id \in issued' \ issued THEN c ELSE via[id]
  BY DEF Created
<1>2. via' \in [SessionId -> Conn \cup {NoConn}]
  BY DEF Created, ServerInv, ConnTypeOK
<1>3. /\ issued \subseteq issued' /\ byHost \subseteq byHost'
      /\ \A id \in SessionId : id \in issued' \ issued => <<h, id>> \in byHost'
      /\ \A id \in SessionId : id \in Live' => id \in Live \/ id \in issued' \ issued
  BY RequestFacts DEF ServerInv
<1>4. ASSUME NEW d \in Conn, NEW id \in SessionId, via'[id] = d
      PROVE  sock[d] # "unused" /\ id \in issued' /\ (id \in Live' => <<peer[d], id>> \in byHost')
  <2>1. CASE id \in issued' \ issued
    BY <1>1, <1>3, <1>4, <2>1
  <2>2. CASE id \notin issued' \ issued
    BY <1>1, <1>3, <1>4, <2>2 DEF ServerInv, Origin
  <2> QED
    BY <2>1, <2>2
<1> QED
  BY <1>2, <1>4 DEF Origin

LEMMA TimeoutOrigin ==
    ASSUME ServerInv, NEW h \in Host, HostTimeout(h), UNCHANGED <<peer, sock, via>>
    PROVE  Origin'
<1>1. /\ \A id \in SessionId : id \in Live' => id \in Live /\ <<h, id>> \notin byHost
      /\ issued' = issued
  BY AbsentFacts DEF HostTimeout, OfHost, Live
<1>2. \A g \in Host, id \in SessionId : <<g, id>> \in byHost /\ g # h => <<g, id>> \in byHost'
  BY DEF HostTimeout
<1>3. ASSUME NEW c \in Conn, NEW id \in SessionId, via[id] = c
      PROVE  sock[c] # "unused" /\ id \in issued /\ (id \in Live' => <<peer[c], id>> \in byHost')
  <2>1. sock[c] # "unused" /\ id \in issued /\ peer[c] \in Host
    BY <1>3 DEF ServerInv, Origin, Opened
  <2>2. id \in Live => <<peer[c], id>> \in byHost
    BY <1>3 DEF ServerInv, Origin
  <2> QED
    BY <1>1, <1>2, <2>1, <2>2
<1> QED
  BY <1>1, <1>3 DEF Origin

-----------------------------------------------------------------------------
(* One lemma per kind of step.                                             *)

\* Steps that leave the table, the hosts and the origin of sessions alone, and
\* never take a connection back to "unused".
LEMMA OriginKept ==
    ASSUME ServerInv, UNCHANGED <<sessions, byHost, issued, peer, via>>,
           \A c \in Conn : sock[c] # "unused" => sock'[c] # "unused"
    PROVE  Origin'
BY DEF ServerInv, Origin, Live

LEMMA TickOK ==
    ASSUME ServerInv, Tick
    PROVE  ConnTypeOK' /\ Opened' /\ IdleBounded' /\ Origin'
<1> USE ConnAssumption
<1>1. UNCHANGED <<sessions, byHost, issued, peer, sock, reading, check, via>>
  BY DEF Tick, stateVars
<1>2. /\ idle \in [Conn -> 0..(2 * Period + MaxLate)] /\ timer \in [Conn -> -MaxLate..Period]
      /\ \A c \in Conn : check[c] = "waiting" => idle[c] + timer[c] <= 2 * Period
  BY DEF ServerInv, ConnTypeOK, IdleBounded
<1>3. \A c \in Conn : check[c] = "waiting" =>
          timer[c] > -MaxLate /\ idle'[c] = idle[c] + 1 /\ timer'[c] = timer[c] - 1
  BY DEF Tick
<1>4. \A c \in Conn : check[c] # "waiting" => idle'[c] = idle[c] /\ timer'[c] = timer[c]
  BY DEF Tick
<1>5. \A c \in Conn : idle'[c] \in 0..(2 * Period + MaxLate) /\ timer'[c] \in -MaxLate..Period
  <2> SUFFICES ASSUME NEW c \in Conn
               PROVE  idle'[c] \in 0..(2 * Period + MaxLate) /\ timer'[c] \in -MaxLate..Period
    OBVIOUS
  <2>1. idle[c] \in 0..(2 * Period + MaxLate) /\ timer[c] \in -MaxLate..Period
    BY <1>2
  <2>2. CASE check[c] = "waiting"
    <3>1. idle[c] + timer[c] <= 2 * Period /\ timer[c] > -MaxLate
      BY <1>2, <1>3, <2>2
    <3> QED
      BY <1>3, <2>1, <2>2, <3>1
  <2>3. CASE check[c] # "waiting"
    BY <1>4, <2>1, <2>3
  <2> QED
    BY <2>2, <2>3
<1>6. idle' = [c \in Conn |-> idle'[c]] /\ timer' = [c \in Conn |-> timer'[c]]
  BY DEF Tick
<1>7. ConnTypeOK'
  BY <1>1, <1>5, <1>6 DEF ServerInv, ConnTypeOK
<1>8. IdleBounded'
  BY <1>1, <1>2, <1>3 DEF IdleBounded
<1>9. Opened' /\ Origin'
  BY <1>1, OriginKept DEF ServerInv, Opened
<1> QED
  BY <1>7, <1>8, <1>9

LEMMA AcceptOK ==
    ASSUME ServerInv, NEW c \in Conn, NEW h \in Host, Accept(c, h)
    PROVE  ConnTypeOK' /\ Opened' /\ IdleBounded' /\ Origin'
<1> USE ConnAssumption
<1>1. /\ UNCHANGED <<sessions, byHost, issued, via>> /\ sock[c] = "unused"
      /\ peer' = [peer EXCEPT ![c] = h] /\ sock' = [sock EXCEPT ![c] = "open"]
      /\ reading' = [reading EXCEPT ![c] = TRUE] /\ idle' = [idle EXCEPT ![c] = 0]
      /\ timer' = [timer EXCEPT ![c] = Period] /\ check' = [check EXCEPT ![c] = "waiting"]
  BY DEF Accept, stateVars
<1>2. ConnTypeOK'
  BY <1>1 DEF ServerInv, ConnTypeOK
<1>3. Opened'
  BY <1>1 DEF ServerInv, ConnTypeOK, Opened
<1>4. IdleBounded'
  BY <1>1 DEF ServerInv, ConnTypeOK, IdleBounded
<1>5. Origin'
  BY <1>1 DEF ServerInv, ConnTypeOK, Origin, Live
<1> QED
  BY <1>2, <1>3, <1>4, <1>5

LEMMA HeaderReadOK ==
    ASSUME ServerInv, NEW c \in Conn, NEW req \in Requests, HeaderRead(c, req)
    PROVE  ConnTypeOK' /\ Opened' /\ IdleBounded' /\ Origin'
<1> USE ConnAssumption
<1>1. /\ UNCHANGED <<peer, sock, timer, check>> /\ reading[c] /\ sock[c] \in {"open", "eof"}
      /\ idle' = [idle EXCEPT ![c] = 0] /\ HandleRequest(peer[c], req) /\ Created(c)
      /\ reading' = [reading EXCEPT ![c] = reply'.status # 0]
  BY DEF HeaderRead
<1>2. peer[c] \in Host
  BY <1>1 DEF ServerInv, Opened
<1>3. via' \in [SessionId -> Conn \cup {NoConn}] /\ Origin'
  BY <1>1, <1>2, RequestOrigin
<1>4. reading' \in [Conn -> BOOLEAN] /\ idle' \in [Conn -> 0..(2 * Period + MaxLate)]
  <2>1. reading' \in [Conn -> BOOLEAN]
    BY <1>1, Zenon DEF ServerInv, ConnTypeOK
  <2>2. idle' \in [Conn -> 0..(2 * Period + MaxLate)]
    BY <1>1 DEF ServerInv, ConnTypeOK
  <2> QED
    BY <2>1, <2>2
<1>5. ConnTypeOK'
  BY <1>1, <1>3, <1>4 DEF ServerInv, ConnTypeOK
<1>6. Opened'
  BY <1>1 DEF ServerInv, ConnTypeOK, Opened
<1>7. IdleBounded'
  BY <1>1 DEF ServerInv, ConnTypeOK, IdleBounded
<1> QED
  BY <1>3, <1>5, <1>6, <1>7

LEMMA HeaderOtherOK ==
    ASSUME ServerInv, NEW c \in Conn, HeaderUnparsable(c) \/ HeaderReadFails(c)
    PROVE  ConnTypeOK' /\ Opened' /\ IdleBounded' /\ Origin'
<1> USE ConnAssumption
<1>1. /\ UNCHANGED <<sessions, byHost, issued, peer, sock, timer, check, via>>
      /\ \/ idle' = [idle EXCEPT ![c] = 0] /\ UNCHANGED reading
         \/ reading' = [reading EXCEPT ![c] = FALSE] /\ UNCHANGED idle
  BY DEF HeaderUnparsable, HeaderReadFails, stateVars
<1>2. ConnTypeOK'
  <2>1. reading' \in [Conn -> BOOLEAN]
    BY <1>1, Zenon DEF ServerInv, ConnTypeOK
  <2>2. idle' \in [Conn -> 0..(2 * Period + MaxLate)]
    BY <1>1 DEF ServerInv, ConnTypeOK
  <2> QED
    BY <1>1, <2>1, <2>2 DEF ServerInv, ConnTypeOK
<1>3. Opened' /\ IdleBounded'
  BY <1>1 DEF ServerInv, ConnTypeOK, Opened, IdleBounded
<1>4. Origin'
  BY <1>1, OriginKept
<1> QED
  BY <1>2, <1>3, <1>4

\* The timer that is armed again is not past its period, and the idle time then
\* is not above one period.
LEMMA TimeoutCheckOK ==
    ASSUME ServerInv, NEW c \in Conn, TimeoutCheck(c)
    PROVE  ConnTypeOK' /\ Opened' /\ IdleBounded' /\ Origin'
<1> USE ConnAssumption
<1>1. /\ UNCHANGED <<sessions, byHost, issued, peer, sock, reading, idle, via>>
      /\ check[c] = "waiting" /\ timer[c] <= 0
      /\ \/ check' = [check EXCEPT ![c] = "decided"] /\ UNCHANGED timer
         \/ idle[c] <= Period /\ timer' = [timer EXCEPT ![c] = @ + Period] /\ UNCHANGED check
  BY DEF TimeoutCheck, stateVars
<1>2. timer[c] \in -MaxLate..Period /\ idle[c] \in Nat
  BY DEF ServerInv, ConnTypeOK
<1>3. timer[c] + Period \in -MaxLate..Period
  BY <1>1, <1>2
<1>4. ConnTypeOK'
  BY <1>1, <1>3 DEF ServerInv, ConnTypeOK
<1>5. Opened'
  BY <1>1 DEF ServerInv, ConnTypeOK, Opened
<1>6. IdleBounded'
  <2>1. CASE check' = [check EXCEPT ![c] = "decided"] /\ UNCHANGED timer
    BY <1>1, <2>1 DEF ServerInv, ConnTypeOK, IdleBounded
  <2>2. CASE idle[c] <= Period /\ timer' = [timer EXCEPT ![c] = @ + Period] /\ UNCHANGED check
    <3>1. timer'[c] = timer[c] + Period /\ \A d \in Conn : d # c => timer'[d] = timer[d]
      BY <2>2 DEF ServerInv, ConnTypeOK
    <3>2. idle[c] + timer'[c] <= 2 * Period
      BY <1>1, <1>2, <2>2, <3>1
    <3> QED
      BY <1>1, <2>2, <3>1, <3>2 DEF ServerInv, IdleBounded
  <2> QED
    BY <1>1, <2>1, <2>2
<1>7. Origin'
  BY <1>1, OriginKept
<1> QED
  BY <1>4, <1>5, <1>6, <1>7

LEMMA TimeoutActsOK ==
    ASSUME ServerInv, NEW c \in Conn, TimeoutActs(c)
    PROVE  ConnTypeOK' /\ Opened' /\ IdleBounded' /\ Origin'
<1>1. /\ UNCHANGED <<peer, sock, reading, idle, timer, via>> /\ check[c] = "decided"
      /\ \/ check' = [check EXCEPT ![c] = "off"] /\ UNCHANGED <<sessions, byHost, issued>>
         \/ check' = [check EXCEPT ![c] = "closing"] /\ HostTimeout(peer[c])
  BY DEF TimeoutActs, stateVars
<1>2. ConnTypeOK'
  BY <1>1 DEF ServerInv, ConnTypeOK
<1>3. Opened' /\ IdleBounded'
  BY <1>1 DEF ServerInv, ConnTypeOK, Opened, IdleBounded
<1>4. peer[c] \in Host
  BY <1>1 DEF ServerInv, Opened
<1>5. Origin'
  BY <1>1, <1>4, OriginKept, TimeoutOrigin
<1> QED
  BY <1>2, <1>3, <1>5

LEMMA SocketOK ==
    ASSUME ServerInv, NEW c \in Conn, TimeoutCloses(c) \/ PeerCloses(c) \/ PeerResets(c)
    PROVE  ConnTypeOK' /\ Opened' /\ IdleBounded' /\ Origin'
<1>1. /\ UNCHANGED <<sessions, byHost, issued, peer, reading, idle, timer, via>>
      /\ sock[c] # "unused"
      /\ \/ sock' = [sock EXCEPT ![c] = "eof"]
         \/ sock' = [sock EXCEPT ![c] = "reset"]
         \/ sock' = [sock EXCEPT ![c] = "closed"]
      /\ UNCHANGED check \/ check' = [check EXCEPT ![c] = "off"]
  BY DEF TimeoutCloses, PeerCloses, PeerResets, stateVars, ServerInv, Opened
<1>2. ConnTypeOK'
  BY <1>1 DEF ServerInv, ConnTypeOK
<1>3. Opened' /\ IdleBounded'
  BY <1>1 DEF ServerInv, ConnTypeOK, Opened, IdleBounded
<1>4. \A d \in Conn : sock[d] # "unused" => sock'[d] # "unused"
  BY <1>1 DEF ServerInv, ConnTypeOK
<1>5. Origin'
  BY <1>1, <1>4, OriginKept
<1> QED
  BY <1>2, <1>3, <1>5

LEMMA UdpOK ==
    ASSUME ServerInv,
           \/ UdpUnparsable
           \/ \E h \in Host, req \in Requests : UdpRequest(h, req)
    PROVE  ConnTypeOK' /\ Opened' /\ IdleBounded' /\ Origin'
<1>1. UNCHANGED <<peer, sock, reading, idle, timer, check>>
  BY DEF UdpUnparsable, UdpRequest, connVars
<1>2. via' \in [SessionId -> Conn \cup {NoConn}] /\ Origin'
  <2>1. CASE UdpUnparsable
    BY <2>1, OriginKept DEF UdpUnparsable, connVars, ServerInv, ConnTypeOK
  <2>2. ASSUME NEW h \in Host, NEW req \in Requests, UdpRequest(h, req)
        PROVE  via' \in [SessionId -> Conn \cup {NoConn}] /\ Origin'
    BY <2>2, RequestOrigin, ConnAssumption DEF UdpRequest
  <2> QED
    BY <2>1, <2>2
<1> QED
  BY <1>1, <1>2 DEF ServerInv, ConnTypeOK, Opened, IdleBounded

LEMMA ServerStepOK == ServerInv /\ [ServerNext]_vars => ServerInv'
<1> SUFFICES ASSUME ServerInv, [ServerNext]_vars PROVE ServerInv'
  OBVIOUS
<1>1. IInv'
  BY TableKept
<1>2. CASE UNCHANGED vars
  BY <1>1, <1>2 DEF vars, ServerInv, ConnTypeOK, Opened, IdleBounded, Origin, Live
<1>3. CASE ServerNext
  <2>1. ConnTypeOK' /\ Opened' /\ IdleBounded' /\ Origin'
    BY <1>3, TickOK, UdpOK, AcceptOK, HeaderReadOK, HeaderOtherOK, TimeoutCheckOK,
       TimeoutActsOK, SocketOK DEF ServerNext
  <2> QED
    BY <1>1, <2>1 DEF ServerInv
<1> QED
  BY <1>2, <1>3

LEMMA ServerInvariance == ServerSpec => []ServerInv
BY ServerInitOK, ServerStepOK, PTL DEF ServerSpec

-----------------------------------------------------------------------------
(* What the server promises.                                               *)

\* The timers and idle times of all connections stay in their ranges, however
\* late the handlers are and wherever requests fall between two checks.
THEOREM ServerTypeCorrect == ServerSpec => []ServerTypeOK
<1>1. ServerInv => ServerTypeOK
  BY DEF ServerInv, IInv, ConnTypeOK, ServerTypeOK
<1> QED
  BY ServerInvariance, <1>1, PTL

\* A connection that goes silent is found out within two periods and the
\* lateness of the handler, for every period.
THEOREM ServerIdleBounded == ServerSpec => []IdleBounded
<1>1. ServerInv => IdleBounded
  BY DEF ServerInv
<1> QED
  BY ServerInvariance, <1>1, PTL

\* The promises of the table hold of the whole server: no interleaving of the
\* handlers of connections, UDP requests and idle checks breaks them.
THEOREM ServerKeepsTable ==
    ServerSpec => [](SenderPresent /\ StreamsIndexed /\ IndexComplete)
<1>1. ServerInv => SenderPresent /\ StreamsIndexed /\ IndexComplete
  BY DEF ServerInv, IInv
<1> QED
  BY ServerInvariance, <1>1, PTL

\* In the whole server, too, a session goes through its life cycle once.
THEOREM ServerImplementsLife == ServerSpec => SessionLife
<1>1. ServerInit => Life!Init
  BY DEF ServerInit, Init, Life!Init, Phase
<1>2. ServerInv /\ ServerInv' /\ [ServerNext]_vars => [Life!Next]_phaseBar
  <2> SUFFICES ASSUME ServerInv, ServerInv', [ServerNext]_vars
               PROVE  Life!Next \/ UNCHANGED phaseBar
    OBVIOUS
  <2>1. CASE UNCHANGED <<sessions, issued>>
    BY <2>1 DEF phaseBar, Phase, Live
  <2>2. CASE [Next]_stateVars
    BY <2>2, StepRefines DEF ServerInv
  <2> QED
    BY <2>1, <2>2, StepOnTable DEF vars
<1>3. ServerInv /\ ServerInv' /\ [ServerNext]_vars
          => [Life!Next]_([id \in SessionId |-> Phase(id)])
  BY <1>2 DEF phaseBar
<1> QED
  BY <1>1, <1>3, ServerInvariance, PTL DEF ServerSpec, SessionLife, Life!Spec

\* handle_timeout_of_host, called with the host of the connection, leaves no
\* session that a SETUP over the connection created, whenever the SETUP came.
THEOREM ServerTimeoutTakesAll == ServerSpec => TimeoutTakesAll
<1> DEFINE Taken == \A c \in Conn : check[c] = "decided" /\ check'[c] = "closing"
                        => \A id \in Live' : via[id] # c
<1>1. ASSUME ServerInv, ServerNext PROVE Taken
  <2> SUFFICES ASSUME NEW c \in Conn, check[c] = "decided", check'[c] = "closing",
                      NEW id \in Live'
               PROVE  via[id] # c
    OBVIOUS
  <2>1. check \in [Conn -> {"waiting", "decided", "closing", "off"}] /\ id \in SessionId
    BY <1>1 DEF ServerInv, ConnTypeOK, Live
  <2>2. TimeoutActs(c) /\ sock[c] # "reset"
    <3>1. ~UNCHANGED check
      OBVIOUS
    <3>2. PICK d \in Conn : \/ \E h \in Host : Accept(d, h)
                            \/ TimeoutCheck(d) \/ TimeoutActs(d) \/ TimeoutCloses(d)
      BY <1>1, <3>1 DEF ServerNext, Tick, UdpUnparsable, UdpRequest, connVars, HeaderRead,
                        HeaderUnparsable, HeaderReadFails, PeerCloses, PeerResets
    <3>3. d = c
      BY <2>1, <3>2 DEF Accept, TimeoutCheck, TimeoutActs, TimeoutCloses
    <3> QED
      BY <2>1, <3>2, <3>3 DEF Accept, TimeoutCheck, TimeoutActs, TimeoutCloses
  <2>3. HostTimeout(peer[c])
    BY <2>2 DEF TimeoutActs
  <2>4. id \in Live /\ <<peer[c], id>> \notin byHost
    BY <2>1, <2>3, AbsentFacts DEF HostTimeout, OfHost, Live
  <2> QED
    BY <1>1, <2>1, <2>4 DEF ServerInv, Origin
<1>2. ServerInv /\ [ServerNext]_vars => [Taken]_vars
  BY <1>1
<1> QED
  BY ServerInvariance, <1>2, PTL DEF ServerSpec, TimeoutTakesAll

-----------------------------------------------------------------------------
(* The response string of one connection (TcpResponse).                    *)

\* The invariant that is inductive: the property with the types.
ResponseInv == ResponseTypeOK /\ NothingLeftOver

\* A new connection has an empty string and no sends.
LEMMA ResponseInitOK == ResponseInit => ResponseInv
<1> SUFFICES ASSUME ResponseInit PROVE ResponseInv
  OBVIOUS
<1>1. str \in 0..MaxLength
  BY ResponseAssumption DEF ResponseInit
<1>2. writing \in BOOLEAN /\ broken \in BOOLEAN
  BY DEF ResponseInit
<1>3. sends \in [0..MaxLength -> Nat] /\ clearing \in [0..MaxLength -> Nat]
  BY DEF ResponseInit
<1>4. NothingLeftOver
  BY DEF ResponseInit, NothingLeftOver
<1> QED
  BY <1>1, <1>2, <1>3, <1>4 DEF ResponseInv, ResponseTypeOK

\* One completion less, or one response_sent more, keeps the counters' types.
LEMMA ResponseCountersOK ==
    ASSUME NEW f \in [0..MaxLength -> Nat], NEW n \in 0..MaxLength
    PROVE  /\ f[n] > 0 => [f EXCEPT ![n] = @ - 1] \in [0..MaxLength -> Nat]
           /\ [f EXCEPT ![n] = @ + 1] \in [0..MaxLength -> Nat]
<1>1. f[n] \in Nat
  OBVIOUS
<1> QED
  BY <1>1

\* Each access of header_read and response_sent keeps the invariant.
LEMMA ResponseStepOK == ResponseInv /\ [ResponseNext]_responseVars => ResponseInv'
<1> SUFFICES ASSUME ResponseInv, [ResponseNext]_responseVars PROVE ResponseInv'
  OBVIOUS
<1> USE ResponseAssumption DEF ResponseInv, ResponseTypeOK, NothingLeftOver
<1>1. ASSUME NEW size \in Sizes, AppendResponse(size) PROVE ResponseInv'
  BY <1>1 DEF AppendResponse
<1>2. ASSUME SendString PROVE ResponseInv'
  <2>1. sends' \in [0..MaxLength -> Nat]
    BY <1>2, ResponseCountersOK DEF SendString
  <2>2. sends'[str] > 0
    BY <1>2 DEF SendString
  <2> QED
    BY <1>2, <2>1, <2>2 DEF SendString
\* The send that leaves is one of another length than the string, or it leaves
\* a response_sent behind that is about to clear.
<1>3. ASSUME NEW n \in 0..MaxLength, ResponseSent(n) PROVE ResponseInv'
  <2>1. sends' \in [0..MaxLength -> Nat]
    BY <1>3, ResponseCountersOK DEF ResponseSent
  <2>2. CASE n = str
    <3>1. clearing' \in [0..MaxLength -> Nat]
      BY <1>3, <2>2, ResponseCountersOK DEF ResponseSent
    <3>2. clearing'[n] > 0
      BY <1>3, <2>2 DEF ResponseSent
    <3> QED
      BY <1>3, <2>1, <3>1, <3>2 DEF ResponseSent
  <2>3. CASE n # str
    <3>1. clearing' = clearing /\ sends'[str] = sends[str]
      BY <1>3, <2>3 DEF ResponseSent
    <3> QED
      BY <1>3, <2>1, <3>1 DEF ResponseSent
  <2> QED
    BY <2>2, <2>3
<1>4. ASSUME NEW n \in 0..MaxLength, NEW m \in 1..(n - 1), SentPartly(n, m) PROVE ResponseInv'
  <2>1. m \in 0..MaxLength
    OBVIOUS
  <2>2. sends' \in [0..MaxLength -> Nat]
    BY <1>4, ResponseCountersOK DEF SentPartly
  <2>3. clearing' \in [0..MaxLength -> Nat]
    BY <1>4, <2>1, ResponseCountersOK DEF SentPartly
  <2> QED
    BY <1>4, <2>2, <2>3 DEF SentPartly
<1>5. ASSUME NEW n \in 0..MaxLength, SendFails(n) PROVE ResponseInv'
  <2>1. sends' \in [0..MaxLength -> Nat]
    BY <1>5, ResponseCountersOK DEF SendFails
  <2> QED
    BY <1>5, <2>1 DEF SendFails
<1>6. ASSUME NEW n \in 0..MaxLength, Clear(n) PROVE ResponseInv'
  <2>1. clearing' \in [0..MaxLength -> Nat]
    BY <1>6, ResponseCountersOK DEF Clear
  <2>2. str' = 0 /\ UNCHANGED <<writing, sends, broken>> /\ 0 \in 0..MaxLength
    BY <1>6 DEF Clear
  <2> QED
    BY <2>1, <2>2
<1>7. CASE UNCHANGED responseVars
  BY <1>7 DEF responseVars
<1> QED
  BY <1>1, <1>2, <1>3, <1>4, <1>5, <1>6, <1>7 DEF ResponseNext

\* last_response_string_ of a connection without a failed or short send is empty,
\* about to be sent or cleared, or in flight as a whole, for any response sizes
\* and any overlap of header_read and response_sent.
THEOREM ResponseNothingLeftOver == ResponseSpec => []NothingLeftOver
<1>1. ResponseInv => NothingLeftOver
  BY DEF ResponseInv
<1> QED
  BY ResponseInitOK, ResponseStepOK, <1>1, PTL DEF ResponseSpec

\* The string and the sends in flight keep their types.
THEOREM ResponseTypeCorrect == ResponseSpec => []ResponseTypeOK
<1>1. ResponseInv => ResponseTypeOK
  BY DEF ResponseInv
<1> QED
  BY ResponseInitOK, ResponseStepOK, <1>1, PTL DEF ResponseSpec
=============================================================================
