-------------------------- MODULE RtspClientProofs ---------------------------
(***************************************************************************)
(* Safety of rtsp_client against any server, for any number of calls, any  *)
(* responses and any number of them on their way.                          *)
(***************************************************************************)
EXTENDS RtspClientAny, TLAPS

-----------------------------------------------------------------------------
(* The inductive invariant.                                                *)

\* Before the connection is up nothing has been received, and only while it is
\* being opened requests wait to be sent.  Only a connected socket is connected
\* again.
SocketInv ==
    /\ sock = "connecting" => opener # NoMethod
    /\ sock \in {"closed", "failed"} => opener = NoMethod
    /\ sock # "connecting" => unsent = <<>>
    /\ sock \notin {"connected", "ended"} =>
         /\ readers = 0 /\ again \in {"refused", "possible"}
         /\ identifier = NoSession /\ receiver.session = NoSession
         /\ \A c \in CSeq : called[c] = 0
    /\ again \in {"refused", "possible"} => second = NoMethod

\* Loops that read, or will.
Alive == readers + Opening

\* Every call that waits will find a CSeq.
RoomInv == nextCseq + Len(resolving) + Opening <= MaxCalls

\* A handler that was called and is still there has thrown, and ended a loop
\* each time.
TableInv ==
    \A c \in CSeq :
        /\ c >= nextCseq => outstanding[c] = NoMethod /\ called[c] = 0
        /\ called[c] <= Loops
        /\ outstanding[c] # NoMethod => called[c] + Alive <= Loops

\* PLAY and PAUSE are asked for only by a client that has a receiver.
PlayInv ==
    /\ opener \notin {"PLAY", "PAUSE"} /\ second \notin {"PLAY", "PAUSE"}
    /\ \A i \in 1..Len(resolving) : resolving[i] \notin {"PLAY", "PAUSE"}
    /\ receiver.session = NoSession =>
         /\ state = "init"
         /\ \A c \in CSeq : outstanding[c] \notin {"PLAY", "PAUSE"}

\* Only a loop that has ended leaves an identifier without its receiver.
MatchInv == Alive = Loops => receiver.session = identifier

InOrder(wire, bound) ==
    /\ \A i \in 1..Len(wire) : wire[i].cseq < bound
    /\ \A i, j \in 1..Len(wire) : i < j => wire[i].cseq < wire[j].cseq
WireInv == InOrder(toServer \o unsent, nextCseq)

IInv ==
    /\ ClientTypeOK /\ FewReaders
    /\ SocketInv /\ RoomInv /\ TableInv /\ PlayInv /\ MatchInv
    /\ StatisticsFollow /\ WireInv

-----------------------------------------------------------------------------
(* Initial states.                                                         *)

\* The constructor establishes the invariant.
LEMMA InitIInv == ClientInit => IInv
<1> SUFFICES ASSUME ClientInit PROVE IInv
  OBVIOUS
<1> USE ClientAssumption DEF ClientInit, NoReceiver
<1>1. ClientTypeOK
  <2>1. /\ sock \in {"closed", "connecting", "connected", "failed", "ended"}
        /\ state \in {"init", "ready", "playing"}
        /\ receiver \in [session: SessionId \cup {NoSession}, statistics: BOOLEAN]
        /\ statistics \in BOOLEAN /\ mkn \in BOOLEAN /\ reported \in BOOLEAN
    OBVIOUS
  <2>2. /\ resolving \in Seq(Method) /\ toClient \in Seq(Response)
        /\ unsent \in Seq(Request) /\ toServer \in Seq(Request)
    OBVIOUS
  <2>3. /\ outstanding \in [CSeq -> Method \cup {NoMethod}]
        /\ called \in [CSeq -> Nat]
    OBVIOUS
  <2>4. /\ nextCseq \in 0..MaxCalls /\ readers \in Nat
        /\ opener \in Method \cup {NoMethod} /\ identifier \in SessionId \cup {NoSession}
    OBVIOUS
  <2> QED
    BY <2>1, <2>2, <2>3, <2>4 DEF ClientTypeOK
<1>2. FewReaders /\ SocketInv /\ RoomInv /\ MatchInv /\ StatisticsFollow
  BY DEF FewReaders, Alive, Loops, Opening, SocketInv, RoomInv, MatchInv, StatisticsFollow
<1>3. TableInv /\ PlayInv
  BY DEF TableInv, PlayInv, NoMethod, CSeq
<1>4. WireInv
  BY DEF WireInv, InOrder
<1> QED
  BY <1>1, <1>2, <1>3, <1>4 DEF IInv

-----------------------------------------------------------------------------
(* The loops.                                                              *)

\* What is counted: loops that read, calls that will start one, and how many of
\* both there can be.
LEMMA Counts ==
    ASSUME IInv
    PROVE  /\ readers \in Nat /\ Opening \in 0..2 /\ Loops \in {1, 2}
           /\ Alive = readers + Opening /\ Alive <= Loops
           /\ nextCseq \in Nat /\ Len(resolving) \in Nat /\ MaxCalls \in Nat
           /\ NoMethod \notin Method
           /\ \A c \in CSeq : c \in Nat /\ called[c] \in Nat
BY ClientAssumption DEF IInv, ClientTypeOK, Opening, Loops, Alive, FewReaders, NoMethod,
   Method, CSeq

-----------------------------------------------------------------------------
(* Sending a request.                                                      *)

\* A request with the next CSeq keeps what was sent in order.
LEMMA WireAppend ==
    ASSUME NEW s \in Seq(Request), NEW n \in Nat, InOrder(s, n),
           NEW e \in Request, e.cseq = n
    PROVE  InOrder(Append(s, e), n + 1)
<1> DEFINE w == Append(s, e)
<1>1. /\ w \in Seq(Request)
      /\ Len(w) = Len(s) + 1
      /\ w[Len(s) + 1] = e
      /\ \A i \in 1..Len(s) : w[i] = s[i]
  OBVIOUS
<1>2. \A i \in 1..Len(s) : s[i].cseq \in Nat
  <2>1. \A r \in Request : r.cseq \in Nat
    BY ClientAssumption DEF Request, CSeq
  <2> QED
    BY <2>1
<1>3. \A i \in 1..Len(w) : w[i].cseq < n + 1
  BY <1>1, <1>2 DEF InOrder
<1>4. \A i, j \in 1..Len(w) : i < j => w[i].cseq < w[j].cseq
  BY <1>1, <1>2 DEF InOrder
<1> QED
  BY <1>3, <1>4 DEF InOrder

\* A further CSeq does not disturb the order.
LEMMA WireLater ==
    ASSUME NEW s \in Seq(Request), NEW n \in Nat, InOrder(s, n)
    PROVE  InOrder(s, n + 1)
<1>1. \A i \in 1..Len(s) : s[i].cseq \in Nat
  <2>1. \A r \in Request : r.cseq \in Nat
    BY ClientAssumption DEF Request, CSeq
  <2>2. \A i \in 1..Len(s) : s[i] \in Request
    OBVIOUS
  <2> QED
    BY <2>1, <2>2
<1>2. \A i \in 1..Len(s) : s[i].cseq < n + 1
  BY <1>1 DEF InOrder
<1> QED
  BY <1>2 DEF InOrder

\* The wire is what was sent followed by what waits to be sent, wherever the
\* new request is put.
LEMMA ConcatAppend ==
    ASSUME NEW s \in Seq(Request), NEW t \in Seq(Request), NEW e \in Request
    PROVE  /\ s \o t \in Seq(Request)
           /\ s \o Append(t, e) = Append(s \o t, e)
           /\ s \o t \o <<e>> \o <<>> = Append(s \o t, e)
           /\ Append(s, e) \o <<>> = Append(s \o <<>>, e)
OBVIOUS

\* send_request gives the next CSeq to a request of the right type.
LEMMA NewRequestType ==
    ASSUME ClientTypeOK, nextCseq < MaxCalls, NEW m \in Method, mkn' = mkn
    PROVE  NewRequest(m) \in Request /\ NewRequest(m).cseq = nextCseq
BY ClientAssumption DEF NewRequest, Request, ClientTypeOK, CSeq

\* It enters its handler into a free place of the table.
LEMMA RegisteredTable ==
    ASSUME IInv, nextCseq < MaxCalls, NEW m \in Method, Registered(m),
           m \in {"PLAY", "PAUSE"} => receiver.session # NoSession
    PROVE  /\ nextCseq' \in 0..MaxCalls /\ nextCseq' = nextCseq + 1
           /\ outstanding' \in [CSeq -> Method \cup {NoMethod}]
           /\ \A c \in CSeq : c >= nextCseq' => outstanding'[c] = NoMethod /\ called[c] = 0
           /\ \A c \in CSeq : outstanding'[c] # NoMethod /\ called[c] # 0
                                => outstanding[c] # NoMethod
           /\ receiver.session = NoSession =>
                \A c \in CSeq : outstanding'[c] \notin {"PLAY", "PAUSE"}
<1>1. nextCseq \in CSeq /\ nextCseq \in Nat /\ MaxCalls \in Nat
  BY ClientAssumption DEF IInv, ClientTypeOK, CSeq
<1>2. /\ outstanding \in [CSeq -> Method \cup {NoMethod}]
      /\ outstanding' = [outstanding EXCEPT ![nextCseq] = m]
      /\ nextCseq' = nextCseq + 1
  BY DEF IInv, ClientTypeOK, Registered
<1>3. \A c \in CSeq : c \in Nat /\ outstanding'[c] = IF c = nextCseq THEN m ELSE outstanding[c]
  BY <1>1, <1>2 DEF CSeq
<1>4. called[nextCseq] = 0
  BY <1>1 DEF IInv, TableInv
<1>5. outstanding' \in [CSeq -> Method \cup {NoMethod}]
  BY <1>2
<1>6. \A c \in CSeq : c >= nextCseq' => outstanding'[c] = NoMethod /\ called[c] = 0
  BY <1>1, <1>2, <1>3 DEF IInv, TableInv
<1> QED
  BY <1>1, <1>2, <1>3, <1>4, <1>5, <1>6 DEF IInv, PlayInv

\* send_request with the socket open, by a call or by the handler of a connect,
\* which becomes a loop.
LEMMA SendRequestIInv ==
    ASSUME IInv, NEW m \in Method, SendRequest(m), sock # "closed",
           m \in {"PLAY", "PAUSE"} => receiver.session # NoSession,
           nextCseq + Len(resolving) + Opening' < MaxCalls,
           UNCHANGED <<sock, resolving, toClient, optionVars>>,
           Opening' \in Nat, Alive' = Alive, Loops' = Loops,
           readers' \in Nat, again' \in {"refused", "possible", "accepted", "mixed"},
           opener' \in {opener, NoMethod}, second' \in {second, NoMethod},
           sock = "connecting" => opener' = opener,
           sock \notin {"connected", "ended"} => UNCHANGED <<readers, again>>,
           again' \in {"refused", "possible"} => second' = NoMethod
    PROVE  IInv'
<1> USE DEF IInv
<1>1. nextCseq < MaxCalls /\ nextCseq \in Nat
  BY Counts
<1>3. Registered(m) /\ UNCHANGED <<state, identifier, receiver, called, statistics, mkn>>
  BY DEF SendRequest, Registered, optionVars
<1>4. NewRequest(m) \in Request /\ NewRequest(m).cseq = nextCseq
  BY <1>1, <1>3, NewRequestType
<1>5. /\ nextCseq' \in 0..MaxCalls /\ nextCseq' = nextCseq + 1
      /\ outstanding' \in [CSeq -> Method \cup {NoMethod}]
      /\ \A c \in CSeq : c >= nextCseq' => outstanding'[c] = NoMethod /\ called[c] = 0
      /\ \A c \in CSeq : outstanding'[c] # NoMethod /\ called[c] # 0
                           => outstanding[c] # NoMethod
      /\ receiver.session = NoSession =>
           \A c \in CSeq : outstanding'[c] \notin {"PLAY", "PAUSE"}
  BY <1>1, <1>3, RegisteredTable
<1>6. /\ toServer' \in Seq(Request) /\ unsent' \in Seq(Request) /\ reported' \in BOOLEAN
      /\ sock # "connecting" => unsent' = <<>>
      /\ \/ toServer' \o unsent' = toServer \o unsent
         \/ toServer' \o unsent' = Append(toServer \o unsent, NewRequest(m))
  <2>1. toServer \in Seq(Request) /\ unsent \in Seq(Request) /\ reported \in BOOLEAN
    BY DEF ClientTypeOK
  <2>2. sock # "connecting" => unsent = <<>>
    BY DEF SocketInv
  <2>3. CASE /\ sock = "connecting"
             /\ unsent' = Append(unsent, NewRequest(m))
             /\ UNCHANGED <<toServer, reported>>
    BY <2>1, <2>3, <1>4, ConcatAppend
  <2>4. CASE /\ sock = "connected"
             /\ toServer' = Append(toServer, NewRequest(m))
             /\ UNCHANGED <<unsent, reported>>
    BY <2>1, <2>2, <2>4, <1>4, ConcatAppend
  <2>5. CASE UNCHANGED <<unsent, toServer>> /\ reported' \in BOOLEAN
    BY <2>1, <2>2, <2>5
  <2> QED
    BY <2>1, <2>3, <2>4, <2>5 DEF SendRequest
<1>7. ClientTypeOK'
  <2>1. opener' \in Method \cup {NoMethod} /\ second' \in Method \cup {NoMethod}
    BY DEF ClientTypeOK
  <2> QED
    BY <1>3, <1>5, <1>6, <2>1 DEF ClientTypeOK
<1>8. FewReaders' /\ SocketInv' /\ RoomInv' /\ MatchInv' /\ StatisticsFollow'
  <2>1. MatchInv' /\ StatisticsFollow'
    BY <1>3 DEF MatchInv, StatisticsFollow, NoReceiver
  <2>2. SocketInv'
    BY <1>3, <1>6 DEF SocketInv
  <2>3. FewReaders'
    BY DEF FewReaders, Alive
  <2>4. RoomInv'
    BY <1>5, Counts DEF RoomInv
  <2> QED
    BY <2>1, <2>2, <2>3, <2>4
<1>9. TableInv'
  <2>1. SUFFICES ASSUME NEW c \in CSeq
                 PROVE  /\ c >= nextCseq' => outstanding'[c] = NoMethod /\ called'[c] = 0
                        /\ called'[c] <= Loops'
                        /\ outstanding'[c] # NoMethod => called'[c] + Alive' <= Loops'
    BY DEF TableInv
  <2>2. called' = called /\ called[c] <= Loops
    BY <1>3 DEF TableInv
  <2>3. outstanding'[c] # NoMethod => called[c] + Alive <= Loops
    BY <1>5, Counts DEF TableInv
  <2> QED
    BY <1>5, <2>2, <2>3
<1>10. PlayInv'
  BY <1>3, <1>5 DEF PlayInv, NoMethod
<1>11. WireInv'
  <2>1. toServer \o unsent \in Seq(Request) /\ InOrder(toServer \o unsent, nextCseq)
    BY ConcatAppend DEF ClientTypeOK, WireInv
  <2>2. InOrder(Append(toServer \o unsent, NewRequest(m)), nextCseq + 1)
    BY <2>1, <1>1, <1>4, WireAppend
  <2>3. InOrder(toServer \o unsent, nextCseq + 1)
    BY <1>1, <2>1, WireLater
  <2> QED
    BY <2>2, <2>3, <1>5, <1>6 DEF WireInv
<1> QED
  BY <1>7, <1>8, <1>9, <1>10, <1>11

-----------------------------------------------------------------------------
(* The calls and the handlers, one lemma each.                             *)

\* A call that is refused, waits for the socket, or sends at once.
LEMMA CallIInv == ASSUME IInv, NEW m \in Methods, Call(m) PROVE IInv'
<1> USE DEF IInv
<1>1. m \in Method /\ nextCseq + Len(resolving) + Opening < MaxCalls
  BY ClientAssumption DEF Call, Called, Room
<1>2. CASE ~Allowed(m) /\ reported' = TRUE /\ UNCHANGED <<connectionVars, sessionVars,
                                                          nextCseq>>
  <2>1. UNCHANGED <<sock, resolving, opener, again, second, unsent, toServer,
                    toClient, readers, state, identifier, receiver, outstanding,
                    called, statistics, mkn, nextCseq>>
    BY <1>2 DEF Call, linkVars, connectionVars, sessionVars, optionVars
  <2>2. ClientTypeOK'
    BY <1>2, <2>1 DEF ClientTypeOK
  <2>3. FewReaders' /\ SocketInv' /\ RoomInv' /\ MatchInv' /\ StatisticsFollow' /\ WireInv'
    BY <2>1 DEF FewReaders, Alive, Loops, Opening, SocketInv, RoomInv, MatchInv,
       StatisticsFollow, WireInv
  <2>4. TableInv' /\ PlayInv'
    BY <2>1 DEF TableInv, PlayInv, Alive, Loops, Opening
  <2> QED
    BY <2>2, <2>3, <2>4
<1>3. CASE /\ Allowed(m) /\ sock = "closed"
           /\ resolving' = Append(resolving, m)
           /\ UNCHANGED <<sock, opener, again, second, unsent, toServer, sessionVars,
                          nextCseq, reported>>
  <2>1. UNCHANGED <<sock, opener, again, second, unsent, toServer, toClient, readers,
                    state, identifier, receiver, outstanding, called, statistics, mkn,
                    nextCseq, reported>>
    BY <1>3 DEF Call, sessionVars, optionVars
  <2>2. m \notin {"PLAY", "PAUSE"}
    BY <1>3 DEF Allowed, SocketInv, PlayInv
  <2>3. /\ resolving \in Seq(Method) /\ resolving' \in Seq(Method)
        /\ Len(resolving') = Len(resolving) + 1
        /\ \A i \in 1..Len(resolving') : resolving'[i] = IF i <= Len(resolving)
                                                         THEN resolving[i] ELSE m
    <3>1. resolving \in Seq(Method) /\ resolving' = Append(resolving, m)
      BY <1>3 DEF ClientTypeOK
    <3> QED
      BY <1>1, <3>1
  <2>4. ClientTypeOK'
    BY <2>1, <2>3 DEF ClientTypeOK
  <2>5. FewReaders' /\ SocketInv' /\ MatchInv' /\ StatisticsFollow' /\ WireInv'
    BY <2>1 DEF FewReaders, Alive, Loops, Opening, SocketInv, MatchInv,
       StatisticsFollow, WireInv
  <2>6. RoomInv'
    <3>1. Len(resolving) \in Nat /\ Opening \in Nat /\ Opening' = Opening /\ nextCseq \in Nat
      BY <2>1, <2>3 DEF ClientTypeOK, Opening
    <3> QED
      BY <1>1, <2>1, <2>3, <3>1, ClientAssumption DEF RoomInv
  <2>7. TableInv'
    BY <2>1 DEF TableInv, Alive, Loops, Opening
  <2>8. PlayInv'
    BY <2>1, <2>2, <2>3 DEF PlayInv
  <2> QED
    BY <2>4, <2>5, <2>6, <2>7, <2>8
<1>4. CASE Allowed(m) /\ sock # "closed" /\ SendRequest(m) /\ UNCHANGED linkVars
  <2>1. UNCHANGED <<sock, resolving, opener, again, second, toClient, readers,
                    optionVars>>
    BY <1>4 DEF Call, linkVars
  <2>2. Opening' = Opening /\ Alive' = Alive /\ Loops' = Loops
    BY <2>1 DEF Opening, Alive, Loops
  <2>3. m \in {"PLAY", "PAUSE"} => receiver.session # NoSession
    BY <1>4 DEF Allowed, PlayInv
  <2>4. /\ readers' \in Nat /\ again' \in {"refused", "possible", "accepted", "mixed"}
        /\ again' \in {"refused", "possible"} => second' = NoMethod
    BY <2>1 DEF ClientTypeOK, SocketInv
  <2> QED
    BY <1>1, <1>4, <2>1, <2>2, <2>3, <2>4, Counts, SendRequestIInv
<1> QED
  BY <1>2, <1>3, <1>4 DEF Call, Called

\* set_rtp_statistics_handler.
LEMMA SetStatisticsIInv ==
    ASSUME IInv, NEW on \in BOOLEAN, SetStatisticsHandler(on) PROVE IInv'
<1> USE DEF IInv
<1>1. UNCHANGED <<sock, resolving, opener, again, second, unsent, toServer, toClient,
                  readers, state, identifier, outstanding, called, mkn, nextCseq,
                  reported>>
  BY DEF SetStatisticsHandler, linkVars, connectionVars
<1>2. /\ statistics' = on
      /\ receiver \in [session: SessionId \cup {NoSession}, statistics: BOOLEAN]
      /\ receiver' = IF receiver = NoReceiver THEN receiver
                     ELSE [receiver EXCEPT !.statistics = on]
  BY DEF SetStatisticsHandler, ClientTypeOK
<1>3. /\ receiver' \in [session: SessionId \cup {NoSession}, statistics: BOOLEAN]
      /\ receiver'.session = receiver.session
      /\ receiver' # NoReceiver => receiver'.statistics = on
  BY <1>2
<1>4. ClientTypeOK'
  BY <1>1, <1>2, <1>3 DEF ClientTypeOK
<1>5. FewReaders' /\ SocketInv' /\ RoomInv' /\ MatchInv' /\ WireInv'
  BY <1>1, <1>3 DEF FewReaders, Alive, Loops, Opening, SocketInv, RoomInv, MatchInv,
     WireInv
<1>6. StatisticsFollow' /\ TableInv' /\ PlayInv'
  BY <1>1, <1>2, <1>3 DEF StatisticsFollow, TableInv, PlayInv, NoReceiver, Alive,
     Loops, Opening
<1> QED
  BY <1>4, <1>5, <1>6

\* set_mkn_options.
LEMMA SetMknIInv == ASSUME IInv, NEW on \in BOOLEAN, SetMknOptions(on) PROVE IInv'
<1> USE DEF IInv
<1>1. UNCHANGED <<sock, resolving, opener, again, second, unsent, toServer, toClient,
                  readers, state, identifier, receiver, outstanding, called,
                  statistics, nextCseq, reported>>
  BY DEF SetMknOptions, linkVars, connectionVars, sessionVars
<1>2. ClientTypeOK'
  BY <1>1 DEF ClientTypeOK, SetMknOptions
<1>3. FewReaders' /\ SocketInv' /\ RoomInv' /\ MatchInv' /\ StatisticsFollow' /\ WireInv'
  BY <1>1 DEF FewReaders, Alive, Loops, Opening, SocketInv, RoomInv, MatchInv,
     StatisticsFollow, WireInv
<1>4. TableInv' /\ PlayInv'
  BY <1>1 DEF TableInv, PlayInv, Alive, Loops, Opening
<1> QED
  BY <1>2, <1>3, <1>4

\* What the handler of async_resolve leaves of the calls that wait.
LEMMA TailResolving ==
    ASSUME IInv, resolving # <<>>
    PROVE  /\ Head(resolving) \in Method /\ Head(resolving) \notin {"PLAY", "PAUSE"}
           /\ Tail(resolving) \in Seq(Method)
           /\ Len(Tail(resolving)) = Len(resolving) - 1 /\ Len(resolving) \in Nat \ {0}
           /\ \A i \in 1..Len(Tail(resolving)) : Tail(resolving)[i] \notin {"PLAY", "PAUSE"}
<1>1. resolving \in Seq(Method)
  BY DEF IInv, ClientTypeOK
<1>2. /\ Head(resolving) = resolving[1]
      /\ \A i \in 1..Len(Tail(resolving)) : Tail(resolving)[i] = resolving[i + 1]
      /\ Tail(resolving) \in Seq(Method)
      /\ Len(Tail(resolving)) = Len(resolving) - 1 /\ Len(resolving) \in Nat \ {0}
  BY <1>1
<1>3. \A i \in 1..Len(resolving) : resolving[i] \in Method /\ resolving[i] \notin {"PLAY", "PAUSE"}
  BY <1>1 DEF IInv, PlayInv
<1> QED
  BY <1>2, <1>3

\* The call that was resolved opens the socket, connects it again, or is lost.
LEMMA ResolvedIInv == ASSUME IInv, Resolved PROVE IInv'
<1> USE DEF IInv
<1>1. UNCHANGED <<unsent, toServer, toClient, readers, state, identifier, receiver,
                  outstanding, called, statistics, mkn, nextCseq>>
  BY DEF Resolved, sessionVars, optionVars
<1>2. /\ Head(resolving) \in Method /\ Head(resolving) \notin {"PLAY", "PAUSE"}
      /\ resolving' = Tail(resolving)
      /\ resolving' \in Seq(Method)
      /\ Len(resolving') = Len(resolving) - 1 /\ Len(resolving) \in Nat \ {0}
      /\ \A i \in 1..Len(resolving') : resolving'[i] \notin {"PLAY", "PAUSE"}
  BY TailResolving DEF Resolved
<1>3. StatisticsFollow' /\ WireInv'
  BY <1>1 DEF StatisticsFollow, WireInv
<1>4. CASE /\ sock \in {"closed", "failed"}
           /\ sock' = "connecting" /\ opener' = Head(resolving)
           /\ again' \in {"refused", "possible"}
           /\ UNCHANGED <<second, reported>>
  <2>1. ClientTypeOK'
    BY <1>1, <1>2, <1>4 DEF ClientTypeOK
  <2>2. /\ opener' # NoMethod /\ opener = NoMethod /\ second = NoMethod /\ readers = 0
        /\ again \in {"refused", "possible"}
        /\ identifier = NoSession /\ receiver.session = NoSession
        /\ \A c \in CSeq : called[c] = 0
    BY <1>2, <1>4, Counts DEF SocketInv
  <2>3. /\ Opening = 0 /\ Opening' = 1 /\ readers' = 0 /\ Alive' = 1
        /\ Loops = 1 /\ Loops' = 1
    BY <1>1, <1>4, <2>2 DEF Opening, Alive, Loops
  <2>4. FewReaders' /\ SocketInv' /\ MatchInv'
    <3>1. FewReaders' /\ MatchInv'
      BY <1>1, <2>2, <2>3 DEF FewReaders, MatchInv
    <3>2. SocketInv'
      BY <1>1, <1>4, <2>2 DEF SocketInv
    <3> QED
      BY <3>1, <3>2
  <2>5. RoomInv'
    BY <1>1, <1>2, <2>3, Counts DEF RoomInv
  <2>6. TableInv'
    BY <1>1, <2>2, <2>3 DEF TableInv
  <2>7. PlayInv'
    BY <1>1, <1>2, <1>4 DEF PlayInv
  <2> QED
    BY <1>3, <2>1, <2>4, <2>5, <2>6, <2>7
<1>5. CASE /\ sock \in {"connected", "ended"} /\ again = "possible"
           /\ again' = "accepted" /\ second' = Head(resolving)
           /\ UNCHANGED <<sock, opener, reported>>
  <2>1. ClientTypeOK'
    BY <1>1, <1>2, <1>5 DEF ClientTypeOK
  <2>2. second = NoMethod /\ second' # NoMethod
    BY <1>2, <1>5, Counts DEF SocketInv
  <2>3. Opening' = Opening + 1 /\ Alive' = Alive + 1 /\ Loops = 1 /\ Loops' = 2
    BY <1>1, <1>5, <2>2, Counts DEF Opening, Alive, Loops
  <2>4. FewReaders' /\ MatchInv'
    BY <1>1, <2>3, Counts DEF FewReaders, MatchInv, Alive
  <2>5. SocketInv'
    BY <1>1, <1>5 DEF SocketInv
  <2>6. RoomInv'
    BY <1>1, <1>2, <2>3, Counts DEF RoomInv
  <2>7. TableInv'
    BY <1>1, <2>3, Counts DEF TableInv
  <2>8. PlayInv'
    BY <1>1, <1>2, <1>5 DEF PlayInv
  <2> QED
    BY <1>3, <2>1, <2>4, <2>5, <2>6, <2>7, <2>8
<1>6. CASE reported' = TRUE /\ UNCHANGED <<sock, opener, again, second>>
  <2>1. ClientTypeOK'
    BY <1>1, <1>2, <1>6 DEF ClientTypeOK
  <2>2. Opening' = Opening /\ Alive' = Alive /\ Loops' = Loops
    BY <1>1, <1>6 DEF Opening, Alive, Loops
  <2>3. FewReaders' /\ SocketInv' /\ MatchInv'
    BY <1>1, <1>6, <2>2 DEF FewReaders, Alive, SocketInv, MatchInv
  <2>4. RoomInv'
    BY <1>1, <1>2, <2>2, Counts DEF RoomInv
  <2>5. TableInv' /\ PlayInv'
    BY <1>1, <1>2, <1>6, <2>2 DEF TableInv, PlayInv
  <2> QED
    BY <1>3, <2>1, <2>3, <2>4, <2>5
<1> QED
  BY <1>4, <1>5, <1>6 DEF Resolved

\* A call that could not be resolved is lost.
LEMMA ResolveFailsIInv == ASSUME IInv, ResolveFails PROVE IInv'
<1> USE DEF IInv
<1>1. UNCHANGED <<sock, opener, again, second, unsent, toServer, toClient, readers,
                  state, identifier, receiver, outstanding, called, statistics, mkn,
                  nextCseq>>
  BY DEF ResolveFails, sessionVars, optionVars
<1>2. /\ resolving' \in Seq(Method) /\ reported' = TRUE
      /\ Len(resolving') = Len(resolving) - 1 /\ Len(resolving) \in Nat \ {0}
      /\ \A i \in 1..Len(resolving') : resolving'[i] \notin {"PLAY", "PAUSE"}
  BY TailResolving DEF ResolveFails
<1>3. Opening' = Opening
  BY <1>1 DEF Opening
<1>4. ClientTypeOK'
  BY <1>1, <1>2 DEF ClientTypeOK
<1>5. FewReaders' /\ SocketInv' /\ MatchInv' /\ StatisticsFollow' /\ WireInv'
  BY <1>1 DEF FewReaders, Alive, Loops, Opening, SocketInv, MatchInv, StatisticsFollow,
     WireInv
<1>6. RoomInv'
  BY <1>1, <1>2, <1>3, Counts DEF RoomInv
<1>7. TableInv' /\ PlayInv'
  BY <1>1, <1>2 DEF TableInv, PlayInv, Alive, Loops, Opening
<1> QED
  BY <1>4, <1>5, <1>6, <1>7

\* The connection is up: what was sent meanwhile goes out.
LEMMA HandshakeIInv == ASSUME IInv, Handshake PROVE IInv'
<1> USE DEF IInv
<1>1. UNCHANGED <<resolving, opener, again, second, toClient, readers, state,
                  identifier, receiver, outstanding, called, statistics, mkn,
                  nextCseq, reported>>
  BY DEF Handshake, sessionVars, optionVars
<1>2. /\ sock = "connecting" /\ sock' = "connected"
      /\ toServer' = toServer \o unsent /\ unsent' = <<>>
  BY DEF Handshake
<1>3. /\ toServer' \in Seq(Request) /\ unsent' \in Seq(Request)
      /\ toServer' \o unsent' = toServer \o unsent
  <2>1. toServer \in Seq(Request) /\ unsent \in Seq(Request)
    BY DEF ClientTypeOK
  <2> QED
    BY <1>2, <2>1
<1>4. ClientTypeOK'
  BY <1>1, <1>2, <1>3 DEF ClientTypeOK
<1>5. Opening' = Opening /\ Alive' = Alive /\ Loops' = Loops
  BY <1>1 DEF Opening, Alive, Loops
<1>6. FewReaders' /\ RoomInv' /\ MatchInv' /\ StatisticsFollow' /\ WireInv'
  BY <1>1, <1>3, <1>5 DEF FewReaders, RoomInv, MatchInv, StatisticsFollow, WireInv
<1>7. SocketInv'
  BY <1>1, <1>2 DEF SocketInv
<1>8. TableInv' /\ PlayInv'
  BY <1>1, <1>5 DEF TableInv, PlayInv
<1> QED
  BY <1>4, <1>6, <1>7, <1>8

\* The handler of a connect turns from a call that waits into a loop that reads.
LEMMA ConnectedIInv ==
    ASSUME IInv, OpenerConnected \/ SecondConnected PROVE IInv'
<1> USE DEF IInv
<1>1. PICK m \in {opener, second} : Connected(m)
  BY DEF OpenerConnected, SecondConnected
<1>2. /\ m # NoMethod /\ m \in Method /\ m \notin {"PLAY", "PAUSE"}
      /\ readers' = readers + 1
      /\ again' = IF readers > 0 THEN "mixed" ELSE again
      /\ SendRequest(m) /\ UNCHANGED <<sock, resolving, toClient, optionVars>>
  BY <1>1 DEF Connected, ClientTypeOK, PlayInv
<1>3. \/ opener # NoMethod /\ opener' = NoMethod /\ second' = second
      \/ second # NoMethod /\ second' = NoMethod /\ opener' = opener
  BY DEF OpenerConnected, SecondConnected, Connected
<1>4. sock \in {"connected", "ended"}
  <2>1. CASE OpenerConnected
    <3>1. opener # NoMethod /\ sock # "connecting"
      BY <2>1 DEF OpenerConnected, Connected
    <3> QED
      BY <3>1 DEF SocketInv, ClientTypeOK
  <2>2. CASE SecondConnected
    <3>1. second # NoMethod
      BY <2>2 DEF SecondConnected, Connected
    <3> QED
      BY <3>1 DEF SocketInv
  <2> QED
    BY <2>1, <2>2
<1>5. /\ Opening' = Opening - 1 /\ Opening \in 1..2 /\ Alive' = Alive /\ readers' \in Nat
  BY <1>2, <1>3, Counts DEF Opening, Alive
<1>6. readers > 0 => again \in {"accepted", "mixed"}
  BY <1>5, Counts DEF FewReaders, Loops
<1>7. /\ Loops' = Loops
      /\ again' \in {"refused", "possible", "accepted", "mixed"}
      /\ again' \in {"refused", "possible"} => second' = NoMethod
  BY <1>2, <1>3, <1>6 DEF Loops, ClientTypeOK, SocketInv
<1>8. nextCseq + Len(resolving) + Opening' < MaxCalls /\ Opening' \in Nat
  BY <1>5, Counts DEF RoomInv
<1> QED
  BY <1>2, <1>3, <1>4, <1>5, <1>7, <1>8, SendRequestIInv

\* The call that opened the connection and what was sent meanwhile are lost.
LEMMA ConnectFailsIInv == ASSUME IInv, ConnectFails PROVE IInv'
<1> USE DEF IInv
<1>1. UNCHANGED <<resolving, again, second, toServer, toClient, readers, state,
                  identifier, receiver, outstanding, called, statistics, mkn, nextCseq>>
  BY DEF ConnectFails, sessionVars, optionVars
<1>2. /\ sock = "connecting" /\ sock' = "failed" /\ opener' = NoMethod /\ unsent' = <<>>
      /\ reported' = TRUE
  BY DEF ConnectFails
<1>3. ClientTypeOK'
  BY <1>1, <1>2 DEF ClientTypeOK
<1>4. /\ opener # NoMethod /\ second = NoMethod /\ readers = 0
      /\ again \in {"refused", "possible"} /\ identifier = NoSession
      /\ receiver.session = NoSession /\ \A c \in CSeq : called[c] = 0
  BY <1>2 DEF SocketInv
<1>5. Opening = 1 /\ Opening' = 0 /\ Alive = 1 /\ Alive' = 0 /\ Loops' = 1
  BY <1>1, <1>2, <1>4 DEF Opening, Alive, Loops
<1>6. FewReaders' /\ SocketInv' /\ RoomInv' /\ MatchInv' /\ StatisticsFollow'
      /\ TableInv' /\ PlayInv'
  <2>1. FewReaders' /\ MatchInv' /\ StatisticsFollow'
    BY <1>1, <1>4, <1>5 DEF FewReaders, Alive, MatchInv, StatisticsFollow
  <2>2. SocketInv'
    BY <1>1, <1>2, <1>4 DEF SocketInv
  <2>3. RoomInv'
    BY <1>1, <1>5, Counts DEF RoomInv
  <2>4. TableInv'
    BY <1>1, <1>4, <1>5 DEF TableInv
  <2>5. PlayInv'
    BY <1>1, <1>2 DEF PlayInv, NoMethod
  <2> QED
    BY <2>1, <2>2, <2>3, <2>4, <2>5
<1>7. WireInv'
  <2>1. toServer \in Seq(Request) /\ unsent \in Seq(Request)
    BY DEF ClientTypeOK
  <2> DEFINE old == toServer \o unsent
             new == toServer \o unsent'
  <2>2. /\ Len(new) <= Len(old) /\ Len(new) \in Nat /\ Len(old) \in Nat
        /\ \A i \in 1..Len(new) : new[i] = old[i] /\ i \in 1..Len(old)
    BY <1>2, <2>1
  <2>3. InOrder(old, nextCseq)
    BY DEF WireInv
  <2> HIDE DEF old, new
  <2>4. InOrder(new, nextCseq)
    BY <2>2, <2>3 DEF InOrder
  <2> QED
    BY <1>1, <2>4 DEF WireInv, new
<1> QED
  BY <1>3, <1>6, <1>7

\* What header_read does with a response that has a handler: only SETUP sets an
\* identifier, and a receiver for the same session unless it throws.
LEMMA ReadFinalIInv ==
    ASSUME IInv, NEW r \in Response, readers > 0, ReadFinal(r),
           toClient' \in Seq(Response), UNCHANGED <<connectionVars, optionVars, nextCseq>>
    PROVE  IInv'
<1> USE DEF IInv
<1> DEFINE c == CseqOf(r)
           m == outstanding[c]
<1>1. UNCHANGED <<sock, resolving, opener, again, second, unsent, toServer,
                  statistics, mkn, nextCseq>>
  BY DEF linkVars, connectionVars, optionVars
<1>2. c \in CSeq
  BY ClientAssumption DEF CseqOf, Response, CSeq
<1>3. /\ m # NoMethod /\ m \in Method
      /\ called' = [called EXCEPT ![c] = @ + 1]
      /\ Handle(m, r)
  BY <1>2 DEF ReadFinal, ClientTypeOK
<1>4. \/ /\ Throws(m, r)
         /\ readers' = readers - 1 /\ reported' = TRUE /\ outstanding' = outstanding
      \/ /\ ~Throws(m, r)
         /\ outstanding' = [outstanding EXCEPT ![c] = NoMethod]
         /\ readers' = readers /\ reported' = reported
  BY DEF ReadFinal
<1> HIDE DEF c, m
<1>5. /\ sock \in {"connected", "ended"} /\ readers \in Nat \ {0}
      /\ Opening' = Opening /\ Loops' = Loops
      /\ Throws(m, r) => Alive' = Alive - 1
      /\ ~Throws(m, r) => Alive' = Alive
  BY <1>1, <1>4, Counts DEF SocketInv, Opening, Loops, Alive
<1>6. c < nextCseq /\ called \in [CSeq -> Nat] /\ called[c] + Alive <= Loops
  <2>1. called[c] + Alive <= Loops
    BY <1>2, <1>3 DEF TableInv, m
  <2>2. c \in Nat /\ nextCseq \in Nat /\ ~(c >= nextCseq)
    BY <1>2, <1>3, Counts DEF TableInv, m
  <2> QED
    BY <2>1, <2>2 DEF ClientTypeOK
<1>7. /\ called' \in [CSeq -> Nat]
      /\ \A d \in CSeq : called'[d] = IF d = c THEN called[c] + 1 ELSE called[d]
  BY <1>2, <1>3, <1>6
<1>8. /\ outstanding' \in [CSeq -> Method \cup {NoMethod}]
      /\ \A d \in CSeq : outstanding'[d] = outstanding[d] \/ outstanding'[d] = NoMethod
      /\ ~Throws(m, r) => outstanding'[c] = NoMethod
  BY <1>2, <1>4 DEF ClientTypeOK
<1>9. /\ r.session \in SessionId \cup {NoSession}
      /\ receiver \in [session: SessionId \cup {NoSession}, statistics: BOOLEAN]
      /\ statistics \in BOOLEAN /\ state \in {"init", "ready", "playing"}
      /\ identifier \in SessionId \cup {NoSession}
  BY DEF Response, ClientTypeOK
<1>10. TableInv' /\ FewReaders' /\ SocketInv' /\ RoomInv'
  <2>1. ASSUME NEW d \in CSeq
        PROVE  /\ d >= nextCseq' => outstanding'[d] = NoMethod /\ called'[d] = 0
               /\ called'[d] <= Loops'
               /\ outstanding'[d] # NoMethod => called'[d] + Alive' <= Loops'
    <3>1. /\ d >= nextCseq => outstanding[d] = NoMethod /\ called[d] = 0
          /\ called[d] <= Loops
          /\ outstanding[d] # NoMethod => called[d] + Alive <= Loops
      BY <2>1 DEF TableInv
    <3>2. /\ d \in Nat /\ nextCseq \in Nat /\ c \in Nat /\ called[d] \in Nat
          /\ called[c] \in Nat /\ Alive \in Nat /\ Alive >= 1 /\ Loops \in Nat
      BY <1>2, <1>5, <2>1, Counts
    <3>3. CASE d = c
      BY <1>1, <1>2, <1>5, <1>6, <1>7, <1>8, <3>2, <3>3
    <3>4. CASE d # c
      <4>1. outstanding'[d] = outstanding[d] /\ called'[d] = called[d]
        BY <1>2, <1>4, <1>7, <2>1, <3>4 DEF ClientTypeOK
      <4> QED
        BY <1>1, <1>5, <3>1, <3>2, <4>1
    <3> QED
      BY <3>3, <3>4
  <2>2. TableInv'
    BY <2>1 DEF TableInv
  <2>3. FewReaders'
    BY <1>5, Counts DEF FewReaders, Alive
  <2>4. SocketInv' /\ RoomInv'
    BY <1>1, <1>5 DEF SocketInv, RoomInv
  <2> QED
    BY <2>2, <2>3, <2>4
<1>11. WireInv'
  BY <1>1 DEF WireInv
<1>12. CASE m = "SETUP" /\ ~SetupThrows(r)
  <2>1. /\ identifier' = r.session /\ state' = "ready"
        /\ receiver' = [session |-> r.session, statistics |-> statistics]
        /\ r.session # NoSession /\ ~Throws(m, r)
    BY <1>3, <1>12 DEF Handle, SetupThrows, Throws
  <2>2. /\ receiver'.session = r.session /\ receiver'.statistics = statistics
        /\ receiver' \in [session: SessionId \cup {NoSession}, statistics: BOOLEAN]
    BY <2>1, <1>9
  <2>3. ClientTypeOK'
    BY <1>1, <1>4, <1>7, <1>8, <1>9, <2>1, <2>2 DEF ClientTypeOK
  <2>4. MatchInv' /\ StatisticsFollow'
    BY <1>1, <2>1, <2>2 DEF MatchInv, StatisticsFollow
  <2>5. PlayInv'
    BY <1>1, <2>1, <2>2 DEF PlayInv
  <2> QED
    BY <1>10, <1>11, <2>3, <2>4, <2>5
<1>13. CASE ~(m = "SETUP" /\ ~SetupThrows(r))
  <2>1. /\ receiver' = receiver
        /\ state' \in {"init", "ready", "playing"}
        /\ identifier' \in SessionId \cup {NoSession}
        /\ m # "SETUP" => identifier' = identifier
        /\ m \notin {"PLAY", "PAUSE"} => state' \in {state, "init"}
        /\ m = "SETUP" => Throws(m, r)
    <3>1. CASE m = "SETUP"
      <4>1. SetupThrows(r) /\ Throws(m, r)
        BY <1>13, <3>1 DEF Throws
      <4>2. receiver' = receiver /\ state' = state
        BY <1>3, <3>1, <4>1 DEF Handle
      <4>3. identifier' \in SessionId \cup {NoSession}
        BY <1>3, <1>9 DEF Handle
      <4> QED
        BY <1>9, <3>1, <4>1, <4>2, <4>3
    <3>2. CASE m # "SETUP"
      <4>1. receiver' = receiver /\ identifier' = identifier
        BY <1>3, <3>2 DEF Handle
      <4>2. /\ m = "PLAY" => state' = "playing"
            /\ m = "PAUSE" => state' = "ready"
            /\ m = "TEARDOWN" => state' = "init"
            /\ m \notin {"PLAY", "PAUSE", "TEARDOWN"} => state' = state
        BY <1>3, <3>2 DEF Handle
      <4> QED
        BY <1>9, <3>2, <4>1, <4>2
    <3> QED
      BY <3>1, <3>2
  <2>2. m \in {"PLAY", "PAUSE"} => receiver.session # NoSession
    BY <1>2 DEF PlayInv, m
  <2>3. ClientTypeOK'
    <3>1. readers' \in Nat
      BY <1>4, <1>5 DEF ClientTypeOK
    <3>2. reported' \in BOOLEAN
      BY <1>4, Zenon DEF ClientTypeOK
    <3> QED
      BY <1>1, <1>7, <1>8, <1>9, <2>1, <3>1, <3>2 DEF ClientTypeOK
  <2>4. MatchInv' /\ StatisticsFollow'
    <3>1. StatisticsFollow'
      BY <1>1, <2>1 DEF StatisticsFollow
    <3>2. CASE Throws(m, r)
      <4>1. Alive' # Loops'
        BY <1>5, <3>2, Counts
      <4> QED
        BY <3>1, <4>1 DEF MatchInv
    <3>3. CASE ~Throws(m, r)
      <4>1. receiver' = receiver /\ identifier' = identifier /\ Alive' = Alive
            /\ Loops' = Loops
        BY <1>5, <2>1, <3>3
      <4> QED
        BY <3>1, <4>1 DEF MatchInv
    <3> QED
      BY <3>2, <3>3
  <2>5. PlayInv'
    BY <1>1, <1>8, <2>1, <2>2 DEF PlayInv, NoMethod
  <2> QED
    BY <1>10, <1>11, <2>3, <2>4, <2>5
<1> QED
  BY <1>12, <1>13

\* A loop that goes on or ends, and nothing else but what is to be read.
LEMMA LoopEndsIInv ==
    ASSUME IInv, ClientTypeOK', readers' \in {readers - 1, readers}, readers' \in Nat,
           sock \in {"connected", "ended"},
           UNCHANGED <<sock, resolving, opener, again, second, unsent, toServer,
                       statistics, mkn, nextCseq, state, identifier, receiver,
                       outstanding, called>>
    PROVE  IInv'
<1> USE DEF IInv
<1>1. Opening' = Opening /\ Loops' = Loops /\ Alive' \in {Alive - 1, Alive}
  BY Counts DEF Opening, Loops, Alive
<1>2. FewReaders' /\ MatchInv'
  <2>1. FewReaders'
    BY <1>1, Counts DEF FewReaders, Alive
  <2>2. Alive' = Loops' => Alive = Loops
    BY <1>1, Counts
  <2> QED
    BY <2>1, <2>2 DEF MatchInv
<1>3. SocketInv' /\ StatisticsFollow'
  BY DEF SocketInv, StatisticsFollow
<1>4. RoomInv' /\ PlayInv' /\ WireInv'
  BY <1>1 DEF RoomInv, PlayInv, WireInv
<1>5. TableInv'
  <2>1. SUFFICES ASSUME NEW c \in CSeq
                 PROVE  /\ c >= nextCseq => outstanding[c] = NoMethod /\ called[c] = 0
                        /\ called[c] <= Loops
                        /\ outstanding[c] # NoMethod => called[c] + Alive' <= Loops
    BY <1>1, Zenon DEF TableInv
  <2>2. called[c] + Alive <= Loops => called[c] + Alive' <= Loops
    <3>1. called[c] \in Nat /\ Alive \in Nat /\ Loops \in Nat
      BY <2>1, Counts
    <3>2. CASE Alive' = Alive
      BY <3>2
    <3>3. CASE Alive' = Alive - 1
      BY <3>1, <3>3
    <3> QED
      BY <1>1, <3>2, <3>3
  <2>3. /\ c >= nextCseq => outstanding[c] = NoMethod /\ called[c] = 0
        /\ called[c] <= Loops
        /\ outstanding[c] # NoMethod => called[c] + Alive <= Loops
    BY <2>1, Zenon DEF TableInv
  <2> QED
    BY <2>2, <2>3, Zenon
<1> QED
  BY <1>2, <1>3, <1>4, <1>5

\* header_read: a response without CSeq ends the loop, one that nobody waits for
\* changes nothing.
LEMMA HeaderReadIInv == ASSUME IInv, HeaderRead PROVE IInv'
<1> USE DEF IInv
<1> DEFINE r == Head(toClient)
<1>1. r \in Response /\ toClient' \in Seq(Response)
  BY DEF HeaderRead, ClientTypeOK
<1>2. readers > 0 /\ UNCHANGED <<connectionVars, optionVars, nextCseq>>
  BY DEF HeaderRead
<1>3. ReadNoCseq(r) \/ ReadNothing(r) \/ ReadFinal(r) \/ ReadDamaged
  BY DEF HeaderRead
<1> HIDE DEF r
<1>4. CASE ReadFinal(r)
  BY <1>1, <1>2, <1>4, ReadFinalIInv
<1>5. CASE ReadNoCseq(r) \/ ReadNothing(r) \/ ReadDamaged
  <2>1. UNCHANGED <<sock, resolving, opener, again, second, unsent, toServer,
                    statistics, mkn, nextCseq, state, identifier, receiver,
                    outstanding, called>>
    BY <1>2, <1>5 DEF linkVars, connectionVars, optionVars, ReadNoCseq, ReadNothing,
       ReadDamaged, sessionVars
  <2>2. /\ readers' \in {readers - 1, readers} /\ readers' \in Nat
        /\ reported' \in BOOLEAN /\ sock \in {"connected", "ended"}
    <3>1. sock \in {"connected", "ended"} /\ readers \in Nat \ {0}
      BY <1>2, Counts DEF SocketInv
    <3>2. readers' \in {readers - 1, readers}
      BY <1>5 DEF ReadNoCseq, ReadNothing, ReadDamaged
    <3>3. reported' \in BOOLEAN
      BY <1>5, Zenon DEF ReadNoCseq, ReadNothing, ReadDamaged, ClientTypeOK
    <3> QED
      BY <3>1, <3>2, <3>3
  <2>3. ClientTypeOK'
    BY <1>1, <2>1, <2>2 DEF ClientTypeOK
  <2>4. IInv'
    BY <2>1, <2>2, <2>3, LoopEndsIInv
  <2> QED
    BY <2>4
<1> QED
  BY <1>3, <1>4, <1>5

\* The loop ends with the connection.
LEMMA HeaderReadFailsIInv == ASSUME IInv, HeaderReadFails PROVE IInv'
<1> USE DEF IInv
<1>1. UNCHANGED <<sock, resolving, opener, again, second, unsent, toServer, toClient,
                  statistics, mkn, nextCseq, state, identifier, receiver, outstanding,
                  called>>
  BY DEF HeaderReadFails, linkVars, connectionVars, optionVars, sessionVars
<1>2. readers' = readers - 1 /\ readers' \in Nat /\ reported' = TRUE /\ sock = "ended"
  BY Counts DEF HeaderReadFails
<1>3. ClientTypeOK'
  BY <1>1, <1>2 DEF ClientTypeOK
<1> QED
  BY <1>1, <1>2, <1>3, LoopEndsIInv

-----------------------------------------------------------------------------
(* The server, and all steps.                                              *)

\* The server adds to what the client will read.
LEMMA RespondIInv == ASSUME IInv, NEW r \in Responses, Respond(r) PROVE IInv'
<1> USE DEF IInv
<1>1. UNCHANGED <<sock, resolving, opener, again, second, unsent, toServer, readers,
                  statistics, mkn, nextCseq, reported, state, identifier, receiver,
                  outstanding, called>>
  BY DEF Respond, linkVars, connectionVars, optionVars, sessionVars
<1>2. toClient' \in Seq(Response)
  BY AnyServerAssumption DEF Respond, ClientTypeOK
<1>3. ClientTypeOK'
  BY <1>1, <1>2 DEF ClientTypeOK
<1>4. FewReaders' /\ SocketInv' /\ MatchInv' /\ StatisticsFollow'
  BY <1>1 DEF FewReaders, Alive, Loops, Opening, SocketInv, MatchInv, StatisticsFollow
<1>5. RoomInv' /\ PlayInv' /\ WireInv' /\ TableInv'
  BY <1>1 DEF RoomInv, PlayInv, WireInv, TableInv, Alive, Loops, Opening
<1> QED
  BY <1>3, <1>4, <1>5

\* The server closes the connection.
LEMMA PeerClosesIInv == ASSUME IInv, PeerCloses PROVE IInv'
<1> USE DEF IInv
<1>1. UNCHANGED <<resolving, opener, again, second, unsent, toServer, toClient,
                  readers, statistics, mkn, nextCseq, reported, state, identifier,
                  receiver, outstanding, called>>
  BY DEF PeerCloses, optionVars, sessionVars
<1>2. sock = "connected" /\ sock' = "ended"
  BY DEF PeerCloses
<1>3. ClientTypeOK'
  BY <1>1, <1>2 DEF ClientTypeOK
<1>4. FewReaders' /\ SocketInv' /\ MatchInv' /\ StatisticsFollow'
  BY <1>1, <1>2 DEF FewReaders, Alive, Loops, Opening, SocketInv, MatchInv,
     StatisticsFollow
<1>5. RoomInv' /\ PlayInv' /\ WireInv'
  BY <1>1 DEF RoomInv, Opening, PlayInv, WireInv
<1>6. TableInv'
  BY <1>1, <1>2 DEF TableInv, Alive, Loops, Opening
<1> QED
  BY <1>3, <1>4, <1>5, <1>6

\* Every step of user, client and server keeps the invariant.
LEMMA NextIInv == ASSUME IInv, [Next]_clientVars PROVE IInv'
<1>1. CASE UNCHANGED clientVars
  <2>1. UNCHANGED <<sock, resolving, opener, again, second, unsent, toServer,
                    toClient, readers, statistics, mkn, nextCseq, reported, state,
                    identifier, receiver, outstanding, called>>
    BY <1>1 DEF clientVars, linkVars, connectionVars, optionVars, sessionVars
  <2>2. ClientTypeOK'
    BY <2>1 DEF IInv, ClientTypeOK
  <2>3. FewReaders' /\ SocketInv' /\ MatchInv' /\ StatisticsFollow'
    BY <2>1 DEF IInv, FewReaders, Alive, Loops, Opening, SocketInv, MatchInv,
       StatisticsFollow
  <2>4. RoomInv' /\ PlayInv' /\ WireInv' /\ TableInv'
    BY <2>1 DEF IInv, RoomInv, PlayInv, WireInv, TableInv, Alive, Loops, Opening
  <2> QED
    BY <2>2, <2>3, <2>4 DEF IInv
<1>2. ASSUME NEW m \in Methods, Call(m) PROVE IInv'
  BY <1>2, CallIInv, ClientAssumption
<1>3. ASSUME NEW on \in BOOLEAN, SetStatisticsHandler(on) PROVE IInv'
  BY <1>3, SetStatisticsIInv
<1>4. ASSUME NEW on \in BOOLEAN, SetMknOptions(on) PROVE IInv'
  BY <1>4, SetMknIInv
<1>5. CASE ClientStep
  BY <1>5, ResolvedIInv, ResolveFailsIInv, HandshakeIInv, ConnectedIInv, ConnectFailsIInv,
     HeaderReadIInv, HeaderReadFailsIInv DEF ClientStep
<1>6. CASE PeerCloses
  BY <1>6, PeerClosesIInv
<1>7. ASSUME NEW r \in Responses, Respond(r) PROVE IInv'
  BY <1>7, RespondIInv
<1> QED
  BY <1>1, <1>2, <1>3, <1>4, <1>5, <1>6, <1>7 DEF Next, UserStep

\* The invariant holds in every reachable state.
LEMMA Invariance == Spec => []IInv
BY InitIInv, NextIInv, PTL DEF Spec

-----------------------------------------------------------------------------
(* The theorems.                                                           *)

\* Type correctness: the client never uses more CSeqs than it has, and what it
\* reads and writes are requests and responses.
THEOREM ClientTypeCorrect == Spec => []ClientTypeOK
<1>1. IInv => ClientTypeOK
  BY DEF IInv
<1> QED
  BY <1>1, Invariance, PTL

\* However many calls race to open the socket, one loop reads it, two if the
\* system accepts a second connect, and never more.
THEOREM ClientFewReaders == Spec => []FewReaders
<1>1. IInv => FewReaders
  BY DEF IInv
<1> QED
  BY <1>1, Invariance, PTL

\* The handler given with a request is called at most once by each loop there
\* was, whatever the server answers, and answers again.
THEOREM ClientHandledOnce == Spec => []HandledOnce
<1>1. IInv => HandledOnce
  BY DEF IInv, TableInv, HandledOnce
<1> QED
  BY <1>1, Invariance, PTL

\* A client that may play has a receiver, and it is the one of the session its
\* requests name as long as none of its loops has ended.
THEOREM ClientReceiverMatches == Spec => []ReceiverMatches
<1>1. IInv => ReceiverMatches
  BY DEF IInv, PlayInv, MatchInv, Alive, ReceiverMatches
<1> QED
  BY <1>1, Invariance, PTL

\* set_rtp_statistics_handler reaches the receiver, whichever comes first.
THEOREM ClientStatisticsFollow == Spec => []StatisticsFollow
<1>1. IInv => StatisticsFollow
  BY DEF IInv
<1> QED
  BY <1>1, Invariance, PTL

\* Requests go out in the order of their CSeq.
THEOREM ClientRequestsInOrder == Spec => []RequestsInOrder
<1>1. IInv => RequestsInOrder
  <2> SUFFICES ASSUME IInv PROVE RequestsInOrder
    OBVIOUS
  <2> DEFINE wire == toServer \o unsent
  <2>1. wire \in Seq(Request)
    BY DEF IInv, ClientTypeOK
  <2>2. DOMAIN wire = 1..Len(wire)
    BY <2>1
  <2>3. \A i, j \in 1..Len(wire) : i < j => wire[i].cseq < wire[j].cseq
    BY DEF IInv, WireInv, InOrder
  <2> HIDE DEF wire
  <2>4. \A i, j \in DOMAIN wire : i < j => wire[i].cseq < wire[j].cseq
    BY <2>2, <2>3
  <2> QED
    BY <2>4 DEF RequestsInOrder, wire
<1> QED
  BY <1>1, Invariance, PTL
=============================================================================
