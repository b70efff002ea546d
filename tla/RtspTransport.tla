---------------------------- MODULE RtspTransport ----------------------------
(***************************************************************************)
(* How SETUP agrees on a transport: the server chooses from what is offered*)
(* (get_acceptable_transport, rtsp_methods.cpp), writes its choice into a  *)
(* header (the generators of rtsp_headers.hpp), and the client reads it    *)
(* (process_server_transport_header, rtsp_client.cpp).                     *)
(*                                                                         *)
(* Numbers keep their width: ports are modulo PortMod, and an ssrc has the *)
(* digits it is written with, since the generator does not pad and the     *)
(* parser wants exactly SsrcDigits of them.                                *)
(***************************************************************************)
EXTENDS Naturals, Sequences

CONSTANTS
    PortMod,      \* 2^16
    Base,         \* 16, digits of an ssrc
    SsrcDigits,   \* 8
    OwnPorts,     \* ports the random choice yields: 49152..65525
    MaxParams,    \* bound of the model: parameters of an offered transport
    OfferedPorts, OfferedSsrcs,  \* what a client can propose
    Offers        \* Transport headers of requests: sequences of TransportSpec

ASSUME TransportAssumption ==
    /\ PortMod \in Nat \ {0} /\ Base \in Nat \ {0, 1} /\ SsrcDigits \in Nat \ {0}
    /\ MaxParams \in Nat
    /\ OwnPorts \subseteq 1..(PortMod - 3) /\ OfferedPorts \subseteq 0..(PortMod - 1)
    /\ OfferedSsrcs \subseteq 0..(Base ^ SsrcDigits - 1)
    /\ \A d \in 0..SsrcDigits : Base ^ d \in Nat  \* so they are, but no prover knows

Ssrc == 0..(Base ^ SsrcDigits - 1)

\* transport_spec::parameter.  A port may be a range, whose first it names; a
\* string stands for any other parameter, "unicast" apart.
Ports(types, numbers, ranges) ==
    [kind: {"port"}, type: types, number: numbers, range: ranges]
Ssrcs(numbers) == [kind: {"ssrc"}, number: numbers]
Unicast == [kind |-> "unicast"]
Other == [kind |-> "string"]

Parameter ==
    Ports({"general", "client", "server"}, OfferedPorts, BOOLEAN)
      \cup Ssrcs(OfferedSsrcs) \cup {Unicast, Other}

\* transport_spec: whether it is RTP/AVP over UDP, and its parameters.
TransportSpec ==
    [rtp: BOOLEAN, parameters: UNION {[1..n -> Parameter] : n \in 0..MaxParams}]

ASSUME OffersAssumption == Offers \subseteq Seq(TransportSpec)

-----------------------------------------------------------------------------
(* Both sides look for the first element that will do.                     *)

Positions(seq, matching) == {i \in DOMAIN seq : seq[i] \in matching}
FirstOf(seq, matching) ==
    seq[CHOOSE i \in Positions(seq, matching) : \A j \in Positions(seq, matching) : i <= j]

Acceptable(specs) ==
    {s \in {specs[i] : i \in DOMAIN specs} :
        s.rtp /\ s.parameters # <<>> /\ s.parameters[1] = Unicast}

PortsOf(params, types) ==
    {p \in {params[i] : i \in DOMAIN params} : p.kind = "port" /\ p.type \in types}
SsrcsOf(params) == {p \in {params[i] : i \in DOMAIN params} : p.kind = "ssrc"}

-----------------------------------------------------------------------------
(* The server.                                                             *)

\* Mutant of ServerPort: the server takes the client's own port.
ServerPortSame(params, client) ==
    LET servers == PortsOf(params, {"server"})
    IN  IF servers # {} THEN FirstOf(params, servers)
        ELSE [kind |-> "port", type |-> "server", number |-> client, range |-> FALSE]

\* The proposed server port, as it is, or the client's port + 2.
ServerPort(params, client) ==
    LET servers == PortsOf(params, {"server"})
    IN  IF servers # {} THEN FirstOf(params, servers)
        ELSE [kind |-> "port", type |-> "server",
              number |-> (client + 2) % PortMod, range |-> FALSE]

\* The client port proposed first, a range reduced to its first port, or chance.
ClientPort(params, chance) ==
    LET clients == PortsOf(params, {"client"})
        number == IF clients # {} THEN FirstOf(params, clients).number ELSE chance
    IN  [kind |-> "port", type |-> "client", number |-> number, range |-> FALSE]

\* The first ssrc proposed that is not 0, or chance.
SessionSsrc(params, chance) ==
    LET nonzero == {p \in SsrcsOf(params) : p.number # 0}
    IN  IF nonzero # {} THEN FirstOf(params, nonzero) ELSE [kind |-> "ssrc", number |-> chance]

\* get_acceptable_transport, given that there is an acceptable specification.
Chosen(specs, chancePort, chanceSsrc) ==
    LET params == FirstOf(specs, Acceptable(specs)).parameters
        client == ClientPort(params, chancePort)
    IN  << Unicast, client, SessionSsrc(params, chanceSsrc),
           ServerPort(params, client.number) >>

\* methods::setup throws on a range where it wants the port to bind.
SetupCanBind(chosen) == ~chosen[4].range

-----------------------------------------------------------------------------
(* The header.                                                             *)

\* Digits an ssrc is written with: up to the highest that is not 0.
Digits(n) == CHOOSE d \in 1..SsrcDigits :
                 /\ d = 1 \/ n >= Base ^ (d - 1)
                 /\ \A e \in (d + 1)..SsrcDigits : n < Base ^ (e - 1)
Readable(p) == p.kind = "ssrc" => Digits(p.number) = SsrcDigits

\* Mutant of Reread: the parser wants one digit less, and drops the last one.
RereadShort(params) ==
    [i \in DOMAIN params |-> IF params[i].kind = "ssrc"
                             THEN [params[i] EXCEPT !.number = @ \div Base] ELSE params[i]]

\* What the client reads of the parameters that were written: up to the first
\* that is not readable, of which it takes the name for a string parameter.
Reread(params) ==
    LET broken == {i \in DOMAIN params : ~Readable(params[i])}
        first == CHOOSE i \in broken : \A j \in broken : i <= j
    IN  IF broken = {} THEN params
        ELSE [i \in 1..first |-> IF i < first THEN params[i] ELSE Other]

-----------------------------------------------------------------------------
(* The client.                                                             *)

\* Mutant of ClientReads: a client port is no port to the client.
ClientReadsGeneral(params) ==
    /\ PortsOf(params, {"general"}) # {}
    /\ SsrcsOf(params) # {}

\* process_server_transport_header: the port to listen at and the ssrc to
\* expect; it throws if one is missing.
ClientReads(params) ==
    /\ PortsOf(params, {"client", "general"}) # {}
    /\ SsrcsOf(params) # {}
ClientListens(params) == FirstOf(params, PortsOf(params, {"client", "general"})).number
ClientExpects(params) == FirstOf(params, SsrcsOf(params)).number

\* The one transport that rtsp_client::setup offers.
OwnOffer(port) ==
    << [rtp |-> TRUE,
        parameters |-> << Unicast, [kind |-> "port", type |-> "client",
                                    number |-> port, range |-> FALSE] >>] >>

-----------------------------------------------------------------------------
(* One SETUP.                                                              *)

VARIABLES
    offer,    \* the specifications in the request
    chosen,   \* the parameters of the server's choice, <<>> before
    outcome   \* "asked"; "refused" (461), "thrown" or "answered" by the server;
              \* "listening" or "failed" once the client has the answer

vars == <<offer, chosen, outcome>>

Init ==
    /\ offer \in Offers \cup {OwnOffer(p) : p \in OwnPorts}
    /\ chosen = <<>>
    /\ outcome = "asked"

ServerRefuses ==
    /\ outcome = "asked" /\ Acceptable(offer) = {}
    /\ outcome' = "refused"
    /\ UNCHANGED <<offer, chosen>>

ServerChooses(chancePort, chanceSsrc) ==
    /\ outcome = "asked" /\ Acceptable(offer) # {}
    /\ chosen' = Chosen(offer, chancePort, chanceSsrc)
    /\ outcome' = IF SetupCanBind(chosen') THEN "answered" ELSE "thrown"
    /\ UNCHANGED offer

ClientAnswered ==
    /\ outcome = "answered"
    /\ outcome' = IF ClientReads(Reread(chosen)) THEN "listening" ELSE "failed"
    /\ UNCHANGED <<offer, chosen>>

Next ==
    \/ ServerRefuses \/ ClientAnswered
    \/ \E port \in OwnPorts, ssrc \in Ssrc : ServerChooses(port, ssrc)

Spec == Init /\ [][Next]_vars

-----------------------------------------------------------------------------
(* Properties.                                                             *)

\* What the client has read of the header it was sent is where the server's
\* sender sends to, and the ssrc it sends with, whatever had been offered.
StreamReachesReceiver ==
    outcome = "listening" =>
        /\ ClientListens(Reread(chosen)) = chosen[2].number
        /\ ClientExpects(Reread(chosen)) = chosen[3].number

\* The client's own offer is acceptable to get_acceptable_transport, which chooses
\* no range of ports from it (setup throws on one), and a server port above the
\* client's, so that both can be on one host (no wrap at 2^16).  The SETUP can
\* still fail: on a server port that is taken, on an ssrc the client cannot read.
OwnOfferWorks ==
    \A p \in OwnPorts : offer = OwnOffer(p) =>
        /\ outcome \notin {"refused", "thrown"}
        /\ outcome = "answered" => chosen[2].number = p /\ chosen[4].number > p

\* The only answers the client cannot use are those whose ssrc begins with
\* a zero digit.
FailsOnlyOnShortSsrc ==
    outcome = "failed" => chosen[3].number < Base ^ (SsrcDigits - 1)
=============================================================================
