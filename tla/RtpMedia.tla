------------------------------- MODULE RtpMedia -------------------------------
(***************************************************************************)
(* A stream from unicast_jpeg_rtp_sender through a lossy network into      *)
(* unicast_jpeg_rtp_receiver (rtp_endsystem.cpp): numbering of packets,    *)
(* fec_generator, the receiver's buffers and FEC recovery, the display.    *)
(*                                                                         *)
(* A frame is its index 1, 2, ... in the movie; the bytes of a packet are  *)
(* the set of frames XORed into them, {n} for frame n, so that XOR is the  *)
(* symmetric difference and a set that is no singleton is a broken image.  *)
(* All handlers of the receiver run in its strand, so sending a packet and *)
(* receiving it are one step, unless the network holds the packet back.    *)
(***************************************************************************)
EXTENDS SequenceUtility, FiniteSets, Sequences, SequencesExt

CONSTANTS
    First,       \* current_sequence_number at the start
    FecK,        \* values of fec_k that clients ask for
    MaskBits,    \* 48
    BufferSize,  \* buffer_size, 50
    Delay,       \* media_packet_delay, 20
    NoUtility,   \* an empty optional
    Frames       \* bound of the model: frames of the movie

ASSUME MediaAssumption ==
    /\ First \in SeqNum
    /\ FecK \subseteq 1..MaskBits /\ MaskBits \in 1..63 /\ MaskBits < Mod
    /\ BufferSize \in Nat /\ Delay \in Nat \ {0} /\ Delay < BufferSize
    /\ Frames \in Nat

ASSUME EmptyAssumption == NoUtility \notin Utility

VARIABLES
    k,          \* fec_k of the session
    sent,       \* frames sent
    gen,        \* fec_generator_: current_fec_k_, fec_seq_base, fec_bit_string_
    fecSeq,     \* current_fec_sequence_number
    util,       \* jpeg_sequence_utility_
    fecUtil,    \* fec_sequence_utility_
    incoming,   \* jpeg_packet_incoming_buffer_
    fecs,       \* fec_packet_incoming_buffer_
    frames,     \* jpeg_packet_frame_buffer_
    shown,      \* bytes of the frame displayed last
    held,       \* frame whose packet the network has held back or copied, one
                \* in a run of the model
    pending,    \* that packet has still to arrive
    corrected, uncorrectable,
    verdict     \* of the last lone loss at the mark: "recovered", "hopeless",
                \* "missed" (the packets to rebuild it were there); or "fault"

vars == <<k, sent, gen, fecSeq, util, fecUtil, incoming, fecs, frames, shown,
          held, pending, corrected, uncorrectable, verdict>>

NoFrame == 0
Packet == [seq: SeqNum, bytes: SUBSET (1..Frames)]
FecPacket == [base: SeqNum, bytes: SUBSET (1..Frames)]

TypeOK ==
    /\ k \in FecK
    /\ sent \in 0..Frames
    /\ gen \in [left: 1..k, base: SeqNum, bytes: SUBSET (1..Frames)]
    /\ fecSeq \in SeqNum
    /\ util \in Utility \cup {NoUtility} /\ fecUtil \in Utility \cup {NoUtility}
    /\ incoming \in Seq(Packet) /\ fecs \in Seq(FecPacket)
    /\ frames \in Seq(SUBSET (1..Frames)) /\ shown \in SUBSET (1..Frames)
    /\ held \in {NoFrame} \cup 1..Frames /\ pending \in BOOLEAN
    /\ corrected \in Nat /\ uncorrectable \in Nat
    /\ verdict \in {"none", "recovered", "hopeless", "missed", "fault"}

Init ==
    /\ k \in FecK
    /\ sent = 0
    /\ gen = [left |-> k, base |-> 0, bytes |-> {}]
    /\ fecSeq = 0
    /\ util = NoUtility /\ fecUtil = NoUtility
    /\ incoming = <<>> /\ fecs = <<>> /\ frames = <<>> /\ shown = {}
    /\ held = NoFrame /\ pending = FALSE
    /\ corrected = 0 /\ uncorrectable = 0
    /\ verdict = "none"

Xor(a, b) == (a \ b) \cup (b \ a)

\* The sequence number of frame n.
SeqNumOf(n) == (First + n - 1) % Mod

-----------------------------------------------------------------------------
(* fec_generator: a base of 0 stands for "none yet".                       *)

GenBase(seq) == IF gen.base = 0 THEN seq ELSE IF seq < gen.base THEN seq ELSE gen.base
GenBytes(n) == Xor(gen.bytes, {n})
GroupComplete == gen.left <= 1

\* Mutants of NextGen: the counter, or the base, is not reset.
NextGenEndless(n) ==
    [left |-> gen.left - 1, base |-> GenBase(SeqNumOf(n)), bytes |-> GenBytes(n)]
NextGenKeepsBase(n) ==
    [left |-> IF GroupComplete THEN k ELSE gen.left - 1, base |-> GenBase(SeqNumOf(n)),
     bytes |-> IF GroupComplete THEN {} ELSE GenBytes(n)]

NextGen(n) ==
    IF GroupComplete THEN [left |-> k, base |-> 0, bytes |-> {}]
    ELSE [left |-> gen.left - 1, base |-> GenBase(SeqNumOf(n)), bytes |-> GenBytes(n)]

-----------------------------------------------------------------------------
(* The receiver.                                                           *)

\* Utilities are created by the first packet, which is then their first update.
Updated(u, seq) == UpdateSeq(IF u = NoUtility THEN NewUtility(seq) ELSE u, seq)
Valid(u, seq) == Accepts(IF u = NoUtility THEN NewUtility(seq) ELSE u, seq)

\* Position of end() - media_packet_delay.
Mark(buf) == Len(buf) - Delay + 1
Gap(buf) == buf[Mark(buf)].seq - buf[Mark(buf) - 1].seq
Target(buf) == buf[Mark(buf)].seq - 1

\* Mutant of Covers: off by one at the last bit of the mask.
CoversShort(f, seq) == f.base <= seq /\ seq - f.base < k - 1

\* The newest FEC packet whose mask has the bit of the lost number.
Covers(f, seq) == f.base <= seq /\ seq <= f.base + MaskBits /\ seq - f.base < k
Candidates(buf) == {i \in DOMAIN fecs : Covers(fecs[i], Target(buf))}
Candidate(buf) == fecs[CHOOSE i \in Candidates(buf) : \A j \in Candidates(buf) : j <= i]

\* The other numbers of the group by their offset, and where each must be.
Others(buf) == (0..(k - 1)) \ {Target(buf) - Candidate(buf).base}
Place(buf, u) ==
    LET i == Target(buf) - Candidate(buf).base
    IN  IF u < i THEN Mark(buf) - i + u ELSE Mark(buf) + u - i - 1
OutOfBuffer(buf, u) == Place(buf, u) \notin DOMAIN buf

\* Mutant of Differs: the numbers are not compared.
DiffersNever(buf, u) == FALSE

Differs(buf, u) == /\ ~OutOfBuffer(buf, u)
                   /\ buf[Place(buf, u)].seq # Candidate(buf).base + u

\* The loops compare in ascending order and return at the first difference; a
\* place outside the deque, or an empty group, is undefined or throws.
Faults(buf) ==
    /\ Candidates(buf) # {}
    /\ \/ \E u \in Others(buf) : /\ OutOfBuffer(buf, u)
                                 /\ \A v \in Others(buf) : Differs(buf, v) => u < v
       \/ Others(buf) = {}
Recovers(buf) ==
    /\ Candidates(buf) # {}
    /\ \A u \in Others(buf) : ~OutOfBuffer(buf, u) /\ ~Differs(buf, u)
    /\ ~Faults(buf)

\* fec_reconstruction XORs the FEC packet and the others of its group: a frame
\* remains that is in an odd number of them.  The sequence number is left at 0.
Reconstructed(buf) ==
    LET Count(n) == Cardinality({u \in Others(buf) : n \in buf[Place(buf, u)].bytes})
    IN  [seq |-> 0,
         bytes |-> {n \in 1..Frames : ~(Count(n) % 2 = 1 <=> n \in Candidate(buf).bytes)}]

\* Mutants of Repaired: inserted behind the mark; put in place of a packet.
RepairedLate(buf) == InsertAt(buf, Mark(buf) + 1, Reconstructed(buf))
RepairedInPlace(buf) == [buf EXCEPT ![Mark(buf) - 1] = Reconstructed(buf)]

Repaired(buf) == InsertAt(buf, Mark(buf), Reconstructed(buf))

\* The reference, which knows the frames and not the code's numbers.  A lone
\* loss is a frame whose neighbours in the movie stand side by side at the mark;
\* it can be rebuilt from an FEC packet made of it and of frames in the buffer.
LoneLosses(buf) ==
    {n \in 1..Frames : /\ buf[Mark(buf) - 1].bytes = {n - 1}
                       /\ buf[Mark(buf)].bytes = {n + 1}}
Recoverable(buf, n) ==
    \E f \in Range(fecs) : /\ n \in f.bytes
                           /\ \A m \in f.bytes \ {n} : \E p \in Range(buf) : p.bytes = {m}

\* handle_new_jpeg_packet with a packet that is parsed.
DropInvalid(p) ==
    /\ ~Valid(util, p.seq)
    /\ UNCHANGED <<incoming, frames, corrected, uncorrectable, verdict>>

FillBuffer(p) ==
    /\ Valid(util, p.seq)
    /\ Len(incoming) + 1 < BufferSize
    /\ incoming' = Append(incoming, p)
    /\ UNCHANGED <<frames, corrected, uncorrectable, verdict>>

\* The buffer is full: the gap at the mark is repaired if it is one packet, and
\* the front goes to the frame buffer.
Advance(p) ==
    LET buf == Append(incoming, p)
        tried == Gap(buf) = 2
        repaired == tried /\ Recovers(buf)
        full == IF repaired THEN Repaired(buf) ELSE buf
    IN  /\ Valid(util, p.seq)
        /\ Len(buf) >= BufferSize
        /\ ~(tried /\ Faults(buf))
        /\ incoming' = Tail(full)
        /\ frames' = Append(frames, Head(full).bytes)
        /\ corrected' = IF repaired THEN corrected + 1 ELSE corrected
        /\ uncorrectable' = IF Gap(buf) >= 2 /\ ~repaired THEN uncorrectable + 1
                                                          ELSE uncorrectable
        /\ verdict' = IF LoneLosses(buf) = {} THEN verdict
                      ELSE IF repaired THEN "recovered"
                      ELSE IF \E n \in LoneLosses(buf) : Recoverable(buf, n) THEN "missed"
                                                                         ELSE "hopeless"

\* recover_packet_by_fec left the deque, or threw.
Fault(p) ==
    LET buf == Append(incoming, p)
    IN  /\ Valid(util, p.seq)
        /\ Len(buf) >= BufferSize
        /\ Gap(buf) = 2 /\ Faults(buf)
        /\ incoming' = buf
        /\ verdict' = "fault"
        /\ UNCHANGED <<frames, corrected, uncorrectable>>

ReceiveMedia(p) ==
    /\ util' = Updated(util, p.seq)
    /\ DropInvalid(p) \/ FillBuffer(p) \/ Advance(p) \/ Fault(p)

\* handle_new_fec_packet: the buffer keeps the newest BufferSize packets.
ReceiveFec(f, seq) ==
    /\ fecUtil' = Updated(fecUtil, seq)
    /\ fecs' = LET kept == IF Valid(fecUtil, seq) THEN Append(fecs, f) ELSE fecs
               IN  IF Len(kept) > BufferSize THEN Tail(kept) ELSE kept

-----------------------------------------------------------------------------
(* Steps.                                                                  *)

\* Fate of a packet: dropped by the simulated channel of the sender, lost in
\* the network, received, held back, or received and copied.  The simulated
\* channel drops an FEC packet before it is given a sequence number.
FecFate == {"dropped", "lost", "received"}
MediaFate == {"lost", "received", "held", "copied"}

PacketOf(n) == [seq |-> SeqNumOf(n), bytes |-> {n}]

SendMedia(n, fate) ==
    /\ IF fate \in {"received", "copied"} THEN ReceiveMedia(PacketOf(n))
       ELSE UNCHANGED <<util, incoming, frames, corrected, uncorrectable, verdict>>
    /\ IF fate \in {"held", "copied"} THEN held = NoFrame /\ held' = n /\ pending' = TRUE
       ELSE UNCHANGED <<held, pending>>

SendFec(n, fate) ==
    LET f == [base |-> GenBase(SeqNumOf(n)), bytes |-> GenBytes(n)]
    IN  /\ fecSeq' = IF fate = "dropped" THEN fecSeq ELSE (fecSeq + 1) % Mod
        /\ IF fate = "received" THEN ReceiveFec(f, fecSeq) ELSE UNCHANGED <<fecUtil, fecs>>

\* send_next_packet_handler with a frame to send.
SendNextPacket(mediaFate, fecFate) ==
    LET n == sent + 1
    IN  /\ sent < Frames
        /\ verdict # "fault"
        /\ sent' = n
        /\ SendMedia(n, mediaFate)
        /\ gen' = NextGen(n)
        /\ IF GroupComplete THEN SendFec(n, fecFate)
           ELSE fecFate = "received" /\ UNCHANGED <<fecSeq, fecUtil, fecs>>
        /\ UNCHANGED <<k, shown>>

\* The packet that was held back arrives.
DeliverHeld ==
    /\ pending /\ verdict # "fault"
    /\ pending' = FALSE
    /\ ReceiveMedia(PacketOf(held))
    /\ UNCHANGED <<k, sent, gen, fecSeq, fecUtil, fecs, shown, held>>

\* display_next_frame_timer_handler with a frame to show.
DisplayNextFrame ==
    /\ frames # <<>>
    /\ shown' = Head(frames)
    /\ frames' = Tail(frames)
    /\ UNCHANGED <<k, sent, gen, fecSeq, util, fecUtil, incoming, fecs, held, pending,
                   corrected, uncorrectable, verdict>>

Next ==
    \/ \E mediaFate \in MediaFate, fecFate \in FecFate : SendNextPacket(mediaFate, fecFate)
    \/ DeliverHeld \/ DisplayNextFrame

Spec == Init /\ [][Next]_vars

-----------------------------------------------------------------------------
(* Properties.                                                             *)

\* Everything on its way to the display, oldest first.
Pipeline == <<shown>> \o frames \o [i \in DOMAIN incoming |-> incoming[i].bytes]

\* What is shown is a frame of the movie and never the XOR of several: FEC
\* recovery rebuilds exactly the frame that was lost, or gives up, also when
\* packets come late or twice.
NoBrokenFrame == \A i \in 2..Len(Pipeline) : \E n \in 1..Frames : Pipeline[i] = {n}

\* Frames are shown in the order of the movie, each at most once, recovered
\* ones in their place.  A packet that comes late or twice disturbs nothing but
\* itself and its successor, which then looks lost.
FramesInOrder ==
    LET disturbed == IF held = NoFrame THEN {} ELSE {held, held + 1}
    IN  \A i, j \in DOMAIN Pipeline : i < j =>
            \A m \in Pipeline[i], n \in Pipeline[j] : m < n \/ {m, n} \cap disturbed # {}

\* A lone loss is recovered: a lost frame whose two neighbours were received, if
\* its place passes the mark of a full buffer and an FEC packet for it and the
\* rest of its group are there; and the recovery stays inside the buffer.  It
\* holds for groups of at least two packets that fit between the mark and either
\* end.  Of two neighbouring losses (a gap above 2), and of a loss before the
\* mark when the buffer fills for the first time, the code tries none.
RecoversLoneLosses ==
    held = NoFrame /\ k > 1 /\ k <= Delay + 1 /\ k <= BufferSize - Delay + 1
        => verdict \notin {"missed", "fault"}

\* The incoming buffer holds one packet less than buffer_size, and one more
\* for every packet ever recovered, never less than a recovery needs.
BufferGrowsWithRecoveries ==
    verdict # "fault" /\ (frames # <<>> \/ shown # {})
        => Len(incoming) = BufferSize - 1 + corrected

\* The statistics add up: corrected and uncorrectable gaps are different packets
\* among those that were expected and not received, so that the number of lost
\* packets the player shows covers both and never wraps below 0.
\* After a burst of MAX_DROPOUT losses it fails: update_seq starts counting anew,
\* and the counters of the gaps go on.
StatisticsAddUp ==
    held = NoFrame /\ util # NoUtility /\ util.probation = 0
        => util.received + corrected + uncorrectable <= Expected(util)

\* The base and the mask of an FEC packet name exactly the packets XORed into
\* it, whatever was lost, unless their numbers span the wrap or reach 0.
MaskNamesGroup ==
    \A f \in Range(fecs) :
        LET named == {f.base + i : i \in 0..(k - 1)}
            protected == {SeqNumOf(n) : n \in f.bytes}
        IN  0 \notin protected /\ (\A m, n \in f.bytes : m < n => SeqNumOf(m) < SeqNumOf(n))
                => protected = named
=============================================================================
