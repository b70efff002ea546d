------------------------- MODULE RtspTransportProofs -------------------------
(***************************************************************************)
(* The negotiation of a transport, for any width of ports and ssrc and any *)
(* offers: receiver and sender agree on port and ssrc, the client's own    *)
(* offer is accepted, and a short ssrc is the only reason to fail.         *)
(***************************************************************************)
EXTENDS RtspTransport, WellFoundedInduction, TLAPS

-----------------------------------------------------------------------------
(* The first element that will do.                                         *)

LEMMA LeastPosition ==
    ASSUME NEW S, S \subseteq Nat, S # {}
    PROVE  \E i \in S : \A j \in S : i <= j
<1>1. PICK i \in S : \A j \in S : ~(<<j, i>> \in OpToRel(<, Nat))
  BY NatLessThanWellFounded, WFMin
<1>2. \A j \in S : ~(j < i)
  BY <1>1 DEF OpToRel
<1> QED
  BY <1>2

LEMMA FirstOfMatches ==
    ASSUME NEW seq, DOMAIN seq \subseteq Nat, NEW M,
           NEW k \in DOMAIN seq, seq[k] \in M
    PROVE  /\ FirstOf(seq, M) \in M
           /\ \E i \in DOMAIN seq : FirstOf(seq, M) = seq[i]
<1> DEFINE P == Positions(seq, M)
<1>1. P \subseteq Nat /\ P # {}
  BY DEF Positions
<1> HIDE DEF P
<1>2. \E i \in P : \A j \in P : i <= j
  BY <1>1, LeastPosition
<1>3. (CHOOSE i \in P : \A j \in P : i <= j) \in P
  BY <1>2
<1> QED
  BY <1>3 DEF P, Positions, FirstOf

LEMMA FirstOfOnly ==
    ASSUME NEW seq, DOMAIN seq \subseteq Nat, NEW M,
           NEW k \in DOMAIN seq, seq[k] \in M,
           \A i \in DOMAIN seq : seq[i] \in M => i = k
    PROVE  FirstOf(seq, M) = seq[k]
<1> DEFINE P == Positions(seq, M)
<1>1. P = {k} /\ k \in Nat
  BY DEF Positions
<1> HIDE DEF P
<1>2. (CHOOSE i \in P : \A j \in P : i <= j) = k
  BY <1>1
<1> QED
  BY <1>2 DEF P, FirstOf

-----------------------------------------------------------------------------
(* What the server chooses.                                                *)

\* What the parser lets through of an offer.
WellFormed(specs) ==
    /\ DOMAIN specs \subseteq Nat
    /\ \A i \in DOMAIN specs :
         /\ DOMAIN specs[i].parameters \subseteq Nat
         /\ \A j \in DOMAIN specs[i].parameters :
              specs[i].parameters[j].kind = "ssrc" => specs[i].parameters[j].number \in Ssrc

LEMMA OffersWellFormed ==
    ASSUME NEW o \in Offers
    PROVE  WellFormed(o)
<1>1. o \in Seq(TransportSpec)
  BY OffersAssumption
<1>2. DOMAIN o \subseteq Nat /\ \A i \in DOMAIN o : o[i] \in TransportSpec
  BY <1>1
<1>3. ASSUME NEW i \in DOMAIN o
      PROVE  /\ DOMAIN o[i].parameters \subseteq Nat
             /\ \A j \in DOMAIN o[i].parameters : o[i].parameters[j] \in Parameter
  <2>1. o[i].parameters \in UNION {[1..n -> Parameter] : n \in 0..MaxParams}
    BY <1>2, <1>3 DEF TransportSpec
  <2>2. PICK n \in 0..MaxParams : o[i].parameters \in [1..n -> Parameter]
    BY <2>1
  <2> QED
    BY <2>2, TransportAssumption
<1>4. \A q \in Parameter : q.kind = "ssrc" => q.number \in Ssrc
  <2> SUFFICES ASSUME NEW q \in Parameter, q.kind = "ssrc" PROVE q.number \in Ssrc
    OBVIOUS
  <2>1. q \in Ssrcs(OfferedSsrcs)
    BY DEF Parameter, Ports, Unicast, Other
  <2> QED
    BY <2>1, TransportAssumption DEF Ssrcs, Ssrc
<1> QED
  BY <1>2, <1>3, <1>4 DEF WellFormed

LEMMA OwnWellFormed ==
    ASSUME NEW p \in OwnPorts
    PROVE  WellFormed(OwnOffer(p))
BY DEF WellFormed, OwnOffer, Unicast

Negotiated(params) ==
    /\ params = <<Unicast, params[2], params[3], params[4]>>
    /\ params[2].kind = "port" /\ params[2].type = "client"
    /\ params[3].kind = "ssrc" /\ params[3].number \in Ssrc
    /\ params[4].kind = "port" /\ params[4].type = "server"

LEMMA ChosenNegotiated ==
    ASSUME NEW specs, WellFormed(specs), Acceptable(specs) # {},
           NEW chancePort, NEW chanceSsrc \in Ssrc
    PROVE  Negotiated(Chosen(specs, chancePort, chanceSsrc))
<1> DEFINE params == FirstOf(specs, Acceptable(specs)).parameters
           client == ClientPort(params, chancePort)
<1>1. PICK k \in DOMAIN specs : specs[k] \in Acceptable(specs)
  BY DEF Acceptable
<1>2. \E i \in DOMAIN specs : FirstOf(specs, Acceptable(specs)) = specs[i]
  BY <1>1, FirstOfMatches DEF WellFormed
<1>3. /\ DOMAIN params \subseteq Nat
      /\ \A j \in DOMAIN params : params[j].kind = "ssrc" => params[j].number \in Ssrc
  BY <1>2 DEF WellFormed
<1> HIDE DEF params
<1>4. client.kind = "port" /\ client.type = "client"
  BY DEF ClientPort
<1>5. /\ SessionSsrc(params, chanceSsrc).kind = "ssrc"
      /\ SessionSsrc(params, chanceSsrc).number \in Ssrc
  <2> DEFINE nonzero == {q \in SsrcsOf(params) : q.number # 0}
  <2>1. CASE nonzero = {}
    BY <2>1 DEF SessionSsrc
  <2>2. CASE nonzero # {}
    <3>1. PICK j \in DOMAIN params : params[j] \in nonzero
      BY <2>2 DEF SsrcsOf
    <3> HIDE DEF nonzero
    <3>2. /\ FirstOf(params, nonzero) \in nonzero
          /\ \E i \in DOMAIN params : FirstOf(params, nonzero) = params[i]
      BY <1>3, <3>1, FirstOfMatches
    <3>3. FirstOf(params, nonzero).kind = "ssrc"
      BY <3>2 DEF nonzero, SsrcsOf
    <3>4. FirstOf(params, nonzero).number \in Ssrc
      BY <1>3, <3>2, <3>3
    <3>5. SessionSsrc(params, chanceSsrc) = FirstOf(params, nonzero)
      BY <2>2 DEF SessionSsrc, nonzero
    <3> QED
      BY <3>3, <3>4, <3>5
  <2> QED
    BY <2>1, <2>2
<1>6. /\ ServerPort(params, client.number).kind = "port"
      /\ ServerPort(params, client.number).type = "server"
  <2> DEFINE servers == PortsOf(params, {"server"})
  <2>1. CASE servers = {}
    BY <2>1 DEF ServerPort
  <2>2. CASE servers # {}
    <3>1. PICK j \in DOMAIN params : params[j] \in servers
      BY <2>2 DEF PortsOf
    <3>2. FirstOf(params, servers) \in servers
      BY <1>3, <3>1, FirstOfMatches
    <3> QED
      BY <2>2, <3>2 DEF ServerPort, PortsOf
  <2> QED
    BY <2>1, <2>2
<1>7. Chosen(specs, chancePort, chanceSsrc)
        = <<Unicast, client, SessionSsrc(params, chanceSsrc), ServerPort(params, client.number)>>
  BY DEF Chosen, params
<1> HIDE DEF client
<1> QED
  BY <1>4, <1>5, <1>6, <1>7 DEF Negotiated

\* The client's own offer: its port comes back, and the server takes the one
\* two above, which does not wrap.
LEMMA ChosenOfOwn ==
    ASSUME NEW p \in OwnPorts, NEW chancePort, NEW chanceSsrc, NEW params,
           params = Chosen(OwnOffer(p), chancePort, chanceSsrc)
    PROVE  /\ Acceptable(OwnOffer(p)) # {}
           /\ params[2].number = p
           /\ params[4].number = p + 2 /\ ~params[4].range
<1> DEFINE offered == <<Unicast, [kind |-> "port", type |-> "client",
                                  number |-> p, range |-> FALSE]>>
           spec == [rtp |-> TRUE, parameters |-> offered]
           clients == PortsOf(offered, {"client"})
<1>1. OwnOffer(p) = <<spec>> /\ offered # <<>> /\ offered[1] = Unicast
  BY DEF OwnOffer
<1>2. Acceptable(OwnOffer(p)) = {spec}
  <2>1. {OwnOffer(p)[i] : i \in DOMAIN OwnOffer(p)} = {spec}
    <3> HIDE DEF spec
    <3>1. DOMAIN <<spec>> = {1} /\ <<spec>>[1] = spec
      OBVIOUS
    <3> QED
      BY <1>1, <3>1
  <2>2. spec.rtp /\ spec.parameters = offered
    OBVIOUS
  <2> HIDE DEF spec, offered
  <2> QED
    BY <1>1, <2>1, <2>2 DEF Acceptable
<1>3. FirstOf(OwnOffer(p), Acceptable(OwnOffer(p))) = spec
  <2>1. /\ DOMAIN OwnOffer(p) = {1} /\ OwnOffer(p)[1] = spec
    BY <1>1
  <2> HIDE DEF spec
  <2> QED
    BY <1>2, <2>1, FirstOfOnly
<1>4. FirstOf(offered, clients) = offered[2]
  <2>1. DOMAIN offered = 1..2 /\ offered[2].kind = "port" /\ offered[2].type = "client"
    OBVIOUS
  <2>2. offered[1].kind = "unicast"
    BY DEF Unicast
  <2>3. offered[2] \in clients /\ offered[1] \notin clients
    <3> HIDE DEF offered
    <3> QED
      BY <2>1, <2>2 DEF PortsOf
  <2> HIDE DEF offered, clients
  <2>4. \A i \in DOMAIN offered : offered[i] \in clients => i = 2
    BY <2>1, <2>3
  <2> QED
    BY <2>1, <2>3, <2>4, FirstOfOnly
<1>5. ClientPort(offered, chancePort).number = p
  <2>1. clients # {} /\ offered[2].number = p
    BY DEF PortsOf
  <2> QED
    BY <1>4, <2>1 DEF ClientPort
<1>6. PortsOf(offered, {"server"}) = {}
  BY DEF PortsOf, Unicast
<1>7. (p + 2) % PortMod = p + 2
  BY TransportAssumption
<1>8. ServerPort(offered, p).number = p + 2 /\ ServerPort(offered, p).range = FALSE
  BY <1>6, <1>7 DEF ServerPort
<1>9. Chosen(OwnOffer(p), chancePort, chanceSsrc)
        = <<Unicast, ClientPort(offered, chancePort), SessionSsrc(offered, chanceSsrc),
            ServerPort(offered, p)>>
  BY <1>3, <1>5 DEF Chosen
<1> HIDE DEF offered, spec
<1> QED
  BY <1>2, <1>5, <1>8, <1>9

-----------------------------------------------------------------------------
(* What the client makes of it.                                            *)

LEMMA LongSsrcReadable ==
    ASSUME NEW n \in Ssrc, ~(n < Base ^ (SsrcDigits - 1))
    PROVE  Digits(n) = SsrcDigits
<1>1. n \in Nat /\ SsrcDigits \in Nat \ {0} /\ Base ^ (SsrcDigits - 1) \in Nat
  BY TransportAssumption DEF Ssrc
<1>2. n >= Base ^ (SsrcDigits - 1)
  BY <1>1
<1> DEFINE top(d) == /\ d = 1 \/ n >= Base ^ (d - 1)
                     /\ \A e \in (d + 1)..SsrcDigits : n < Base ^ (e - 1)
<1>3. SsrcDigits \in 1..SsrcDigits /\ top(SsrcDigits)
  BY <1>1, <1>2
<1>4. ASSUME NEW d \in 1..SsrcDigits, top(d) PROVE d = SsrcDigits
  <2>1. CASE d < SsrcDigits
    <3>1. SsrcDigits \in (d + 1)..SsrcDigits
      BY <1>1, <2>1
    <3> QED
      BY <1>4, <3>1
  <2> QED
    BY <1>1, <2>1
<1>5. Digits(n) = CHOOSE d \in 1..SsrcDigits : top(d)
  BY DEF Digits
<1> HIDE DEF top
<1> QED
  BY <1>3, <1>4, <1>5

\* The ssrc is the only parameter that can be unreadable, and then it is lost
\* with everything after it.
LEMMA RereadCases ==
    ASSUME NEW params, Negotiated(params)
    PROVE  /\ Readable(params[3]) => Reread(params) = params /\ ClientReads(params)
           /\ ~Readable(params[3]) => ~ClientReads(Reread(params))
<1> DEFINE broken == {i \in DOMAIN params : ~Readable(params[i])}
<1>1. /\ DOMAIN params = 1..4 /\ params[1] = Unicast
  BY DEF Negotiated
<1>2. Readable(params[1]) /\ Readable(params[2]) /\ Readable(params[4])
  BY <1>1 DEF Negotiated, Readable, Unicast
<1>3. CASE Readable(params[3])
  <2>1. broken = {}
    BY <1>1, <1>2, <1>3
  <2>2. Reread(params) = params
    BY <2>1 DEF Reread
  <2>3. ClientReads(params)
    BY <1>1 DEF Negotiated, ClientReads, PortsOf, SsrcsOf
  <2> QED
    BY <1>3, <2>2, <2>3
<1>4. CASE ~Readable(params[3])
  <2>1. broken = {3}
    BY <1>1, <1>2, <1>4
  <2>2. (CHOOSE i \in broken : \A j \in broken : i <= j) = 3
    BY <2>1
  <2>3. Reread(params) = [i \in 1..3 |-> IF i < 3 THEN params[i] ELSE Other]
    BY <2>1, <2>2 DEF Reread
  <2>4. SsrcsOf(Reread(params)) = {}
    BY <1>1, <2>3 DEF SsrcsOf, Negotiated, Unicast, Other
  <2> QED
    BY <1>4, <2>4 DEF ClientReads
<1> QED
  BY <1>3, <1>4

LEMMA ReadsWhatWasChosen ==
    ASSUME NEW params, Negotiated(params)
    PROVE  ClientListens(params) = params[2].number /\ ClientExpects(params) = params[3].number
<1>1. DOMAIN params = 1..4 /\ params[1] = Unicast
  BY DEF Negotiated
<1>2. FirstOf(params, PortsOf(params, {"client", "general"})) = params[2]
  <2> DEFINE ports == PortsOf(params, {"client", "general"})
  <2>1. params[2] \in ports /\ params[1] \notin ports /\ params[3] \notin ports /\ params[4] \notin ports
    BY <1>1 DEF Negotiated, PortsOf, Unicast
  <2> HIDE DEF ports
  <2>2. \A i \in DOMAIN params : params[i] \in ports => i = 2
    BY <1>1, <2>1
  <2>3. FirstOf(params, ports) = params[2]
    BY <1>1, <2>1, <2>2, FirstOfOnly
  <2> QED
    BY <2>3 DEF ports
<1>3. FirstOf(params, SsrcsOf(params)) = params[3]
  <2> DEFINE ssrcs == SsrcsOf(params)
  <2>1. params[3] \in ssrcs /\ params[1] \notin ssrcs /\ params[2] \notin ssrcs /\ params[4] \notin ssrcs
    BY <1>1 DEF Negotiated, SsrcsOf, Unicast
  <2> HIDE DEF ssrcs
  <2>2. \A i \in DOMAIN params : params[i] \in ssrcs => i = 3
    BY <1>1, <2>1
  <2>3. FirstOf(params, ssrcs) = params[3]
    BY <1>1, <2>1, <2>2, FirstOfOnly
  <2> QED
    BY <2>3 DEF ssrcs
<1> QED
  BY <1>2, <1>3 DEF ClientListens, ClientExpects

-----------------------------------------------------------------------------
(* The inductive invariant: what was chosen has the shape above, and for   *)
(* the client's own offer the ports above; the client decided by what it   *)
(* could read.                                                             *)

ChosenOK == outcome \notin {"asked", "refused"} => Negotiated(chosen)

OwnOK ==
    \A p \in OwnPorts : offer = OwnOffer(p) =>
        /\ outcome \notin {"refused", "thrown"}
        /\ outcome # "asked" => chosen[2].number = p /\ chosen[4].number = p + 2

ReadOK ==
    /\ outcome = "listening" => ClientReads(Reread(chosen))
    /\ outcome = "failed" => ~ClientReads(Reread(chosen))

TransportInv == WellFormed(offer) /\ ChosenOK /\ OwnOK /\ ReadOK

LEMMA TransportInitOK == Init => TransportInv
<1> SUFFICES ASSUME Init PROVE TransportInv
  OBVIOUS
<1>1. WellFormed(offer)
  BY OffersWellFormed, OwnWellFormed DEF Init
<1> QED
  BY <1>1 DEF Init, TransportInv, ChosenOK, OwnOK, ReadOK

LEMMA TransportStepOK == TransportInv /\ [Next]_vars => TransportInv'
<1> SUFFICES ASSUME TransportInv, [Next]_vars PROVE TransportInv'
  OBVIOUS
<1>1. CASE UNCHANGED vars
  BY <1>1 DEF vars, TransportInv, ChosenOK, OwnOK, ReadOK
<1>2. CASE ServerRefuses
  <2>1. \A p \in OwnPorts : offer # OwnOffer(p)
    BY <1>2, ChosenOfOwn DEF ServerRefuses
  <2> QED
    BY <1>2, <2>1 DEF ServerRefuses, TransportInv, ChosenOK, OwnOK, ReadOK
<1>3. ASSUME NEW port \in OwnPorts, NEW ssrc \in Ssrc, ServerChooses(port, ssrc)
      PROVE  TransportInv'
  <2>1. /\ offer' = offer /\ Acceptable(offer) # {} /\ chosen' = Chosen(offer, port, ssrc)
        /\ outcome' = IF SetupCanBind(chosen') THEN "answered" ELSE "thrown"
    BY <1>3 DEF ServerChooses
  <2>2. Negotiated(chosen')
    BY <2>1, ChosenNegotiated DEF TransportInv
  <2>3. OwnOK'
    <3> SUFFICES ASSUME NEW p \in OwnPorts, offer = OwnOffer(p)
                 PROVE  /\ outcome' \notin {"refused", "thrown"}
                        /\ chosen'[2].number = p /\ chosen'[4].number = p + 2
      BY <2>1 DEF OwnOK
    <3>1. chosen'[2].number = p /\ chosen'[4].number = p + 2 /\ ~chosen'[4].range
      BY <2>1, ChosenOfOwn
    <3>2. SetupCanBind(chosen')
      BY <3>1 DEF SetupCanBind
    <3> QED
      BY <2>1, <3>1, <3>2
  <2> QED
    BY <2>1, <2>2, <2>3 DEF TransportInv, ChosenOK, ReadOK
<1>4. CASE ClientAnswered
  BY <1>4 DEF ClientAnswered, TransportInv, ChosenOK, OwnOK, ReadOK
<1> QED
  BY <1>1, <1>2, <1>3, <1>4 DEF Next

LEMMA TransportInvariance == Spec => []TransportInv
BY TransportInitOK, TransportStepOK, PTL DEF Spec

-----------------------------------------------------------------------------

\* The port and the ssrc that process_server_transport_header takes from the
\* header are those the server's sender was made with.
THEOREM TransportStreamReachesReceiver == Spec => []StreamReachesReceiver
<1>1. TransportInv => StreamReachesReceiver
  <2> SUFFICES ASSUME TransportInv, outcome = "listening"
               PROVE  /\ ClientListens(Reread(chosen)) = chosen[2].number
                      /\ ClientExpects(Reread(chosen)) = chosen[3].number
    BY DEF StreamReachesReceiver
  <2>1. Negotiated(chosen) /\ ClientReads(Reread(chosen))
    BY DEF TransportInv, ChosenOK, ReadOK
  <2>2. Reread(chosen) = chosen
    BY <2>1, RereadCases
  <2> QED
    BY <2>1, <2>2, ReadsWhatWasChosen
<1> QED
  BY TransportInvariance, <1>1, PTL

\* What rtsp_client::setup offers is not refused, no range of ports is chosen from
\* it, and its port and the server's differ without a wrap at 2^16.
THEOREM TransportOwnOfferWorks == Spec => []OwnOfferWorks
<1>1. TransportInv => OwnOfferWorks
  BY TransportAssumption DEF TransportInv, OwnOK, OwnOfferWorks
<1> QED
  BY TransportInvariance, <1>1, PTL

\* The client cannot use an answer only if the generator wrote its ssrc with
\* fewer digits than the parser wants.
THEOREM TransportFailsOnlyOnShortSsrc == Spec => []FailsOnlyOnShortSsrc
<1>1. TransportInv => FailsOnlyOnShortSsrc
  <2> SUFFICES ASSUME TransportInv, outcome = "failed",
                      ~(chosen[3].number < Base ^ (SsrcDigits - 1))
               PROVE  FALSE
    BY DEF FailsOnlyOnShortSsrc
  <2>1. Negotiated(chosen) /\ ~ClientReads(Reread(chosen))
    BY DEF TransportInv, ChosenOK, ReadOK
  <2>2. Digits(chosen[3].number) = SsrcDigits
    BY <2>1, LongSsrcReadable DEF Negotiated
  <2>3. Readable(chosen[3])
    BY <2>2 DEF Readable
  <2> QED
    BY <2>1, <2>3, RereadCases
<1> QED
  BY TransportInvariance, <1>1, PTL
===============================================================================
