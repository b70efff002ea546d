--------------------------- MODULE SequenceUtility ---------------------------
(***************************************************************************)
(* rtp_receiver_squence_utility (rtp_endsystem.hpp 90-140, rtp_endsystem   *)
(* .cpp 535-599) as operators on a record of its fields.  The 16-bit       *)
(* arithmetic of the code is written with explicit wraps at Mod; cycles    *)
(* and received are 32 bits wide and taken as unbounded (2^32 packets are  *)
(* five years of video).                                                   *)
(***************************************************************************)
EXTENDS Integers

CONSTANTS
    Mod,           \* RTP_SEQ_MOD, 65536
    MaxDropout,    \* MAX_DROPOUT, 3000
    MaxMisorder,   \* MAX_MISORDER, 100
    MinSequential  \* MIN_SEQUENTIAL, 2

ASSUME UtilityAssumption ==
    /\ Mod \in Nat /\ MaxDropout \in Nat \ {0} /\ MaxMisorder \in Nat \ {0}
    /\ MaxDropout + MaxMisorder <= Mod
    /\ MinSequential \in Nat \ {0, 1}

SeqNum == 0..(Mod - 1)
NoBadSeq == Mod + 1

Utility == [max: SeqNum, cycles: Nat, base: SeqNum, bad: 0..NoBadSeq,
            probation: 0..MinSequential, received: Nat]

\* uint16_t seq + d for |d| <= Mod, and seq - other.
Wrap(n) == IF n >= Mod THEN n - Mod ELSE IF n < 0 THEN n + Mod ELSE n
Udelta(seq, other) == Wrap(seq - other)

\* Mutant of InitSeq: base_seq is not set.
InitSeqKeepsBase(u, seq) == [u EXCEPT !.max = seq, !.bad = NoBadSeq,
                                      !.cycles = 0, !.received = 0]

\* init_seq keeps only the probation count.
InitSeq(u, seq) == [u EXCEPT !.base = seq, !.max = seq, !.bad = NoBadSeq,
                             !.cycles = 0, !.received = 0]

\* The constructor.
NewUtility(seq) == [base |-> seq, max |-> Wrap(seq - 1), bad |-> NoBadSeq,
                    cycles |-> 0, received |-> 0, probation |-> MinSequential]

Counted(u) == [u EXCEPT !.received = @ + 1]

\* update_seq by its branches.  Probation compares with max_seq + 1 as an int:
\* Mod - 1 has no successor there.
InProbation(u) == u.probation # 0
InSequence(u, seq) == seq = u.max + 1
LastOfProbation(u, seq) == InSequence(u, seq) /\ u.probation = 1
InWindow(u, seq) == Udelta(seq, u.max) < MaxDropout
Jumped(u, seq) == ~InWindow(u, seq) /\ Udelta(seq, u.max) <= Mod - MaxMisorder

\* Mutant of Probe: a packet out of sequence does not start the probation anew.
ProbeCountsAll(u, seq) == [u EXCEPT !.max = seq, !.probation = @ - 1]

Probe(u, seq) ==
    [u EXCEPT !.max = seq,
              !.probation = IF InSequence(u, seq) THEN @ - 1 ELSE MinSequential - 1]

UpdateSeq(u, seq) ==
    IF InProbation(u)
    THEN IF LastOfProbation(u, seq)
         THEN Counted(InitSeq([u EXCEPT !.probation = 0], seq))
         ELSE Probe(u, seq)
    ELSE IF InWindow(u, seq)
    THEN Counted([u EXCEPT !.max = seq,
                           !.cycles = IF seq < u.max THEN @ + Mod ELSE @])
    ELSE IF ~Jumped(u, seq) THEN Counted(u)
    ELSE IF seq = u.bad THEN Counted(InitSeq(u, seq))
    ELSE [u EXCEPT !.bad = Wrap(seq + 1)]

\* The value update_seq returns: the packet is valid.
Accepts(u, seq) ==
    IF InProbation(u) THEN LastOfProbation(u, seq)
    ELSE ~Jumped(u, seq) \/ seq = u.bad

\* Mutant of ExtendedMax: the wraps are left out.
ExtendedMaxFlat(u) == u.max

ExtendedMax(u) == u.cycles + u.max
Expected(u) == ExtendedMax(u) - u.base + 1
=============================================================================
