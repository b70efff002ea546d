----------------------------- MODULE RtpSequence -----------------------------
(***************************************************************************)
(* The sequence utility against the truth: a source that numbers its       *)
(* packets without end, a network that loses, repeats and reorders them    *)
(* within the tolerances of the code, and stray or restarted sources whose *)
(* numbers jump.  The truth is kept apart from the utility, as the number  *)
(* of the newest packet and the wraps since the packet counted first.      *)
(***************************************************************************)
EXTENDS SequenceUtility

CONSTANTS
    FirstSeq,     \* numbers the first packet can have
    MaxTurns,     \* bound of the model: wraps that are followed
    MaxReceived   \* bound of the model on the received counter

ASSUME SequenceAssumption ==
    FirstSeq \subseteq SeqNum /\ MaxTurns \in Nat /\ MaxReceived \in Nat

VARIABLES
    util,     \* the utility
    hiSeq,    \* number of the newest packet of the stream
    hiTurns,  \* packets numbered in the full turns before it, since the base
    synced    \* the stream is the one the utility was last initialised with

vars == <<util, hiSeq, hiTurns, synced>>

TypeOK ==
    /\ util \in Utility
    /\ hiSeq \in SeqNum
    /\ hiTurns \in Nat
    /\ synced \in BOOLEAN

\* The first packet constructs the utility and is its first update.
Init ==
    /\ \E seq \in FirstSeq : /\ util = UpdateSeq(NewUtility(seq), seq)
                             /\ hiSeq = seq
    /\ hiTurns = 0
    /\ synced = FALSE

\* A step of update_seq (re)starts the counting with this packet.
Restarts(seq) ==
    IF InProbation(util) THEN LastOfProbation(util, seq)
    ELSE Jumped(util, seq) /\ seq = util.bad

\* The network delivers the packet that is ahead of the newest by d, or behind
\* it for negative d, while the utility counts this stream.
Deliver(d) ==
    /\ synced
    /\ util.received < MaxReceived
    /\ LET seq == Wrap(hiSeq + d)
       IN  /\ util' = UpdateSeq(util, seq)
           /\ hiSeq' = IF d > 0 THEN seq ELSE hiSeq
           /\ hiTurns' = IF d > 0 /\ hiSeq + d >= Mod THEN hiTurns + Mod ELSE hiTurns
    /\ hiTurns' <= MaxTurns * Mod
    /\ UNCHANGED synced

\* A packet of any number while the source is on probation, or one outside the
\* tolerances later: of a stray source, or because the source restarted.
Foreign(seq) ==
    /\ InProbation(util) \/ Jumped(util, seq)
    /\ util.received < MaxReceived
    /\ util' = UpdateSeq(util, seq)
    /\ IF Restarts(seq)
       THEN hiSeq' = seq /\ hiTurns' = 0 /\ synced' = TRUE
       ELSE UNCHANGED <<hiSeq, hiTurns, synced>>

Window == (1 - MaxMisorder)..(MaxDropout - 1)

Next ==
    \/ \E d \in Window : Deliver(d)
    \/ \E seq \in SeqNum : Foreign(seq)

Spec == Init /\ [][Next]_vars

-----------------------------------------------------------------------------
(* Properties.                                                             *)

\* Across any number of wraps, losses, repetitions and reorderings the utility
\* knows the newest packet and how many packets the source has sent since the
\* first one counted: expected() is exact.
CountsExactly ==
    synced => /\ util.max = hiSeq
              /\ Expected(util) = hiTurns + hiSeq - util.base + 1

\* A stray packet changes no count, and makes the utility give up the stream it
\* counts only if its number follows that of the stray packet before it, however
\* many packets of the stream came between the two: update_seq keeps bad_seq.
StrayIsHarmless ==
    [][synced /\ (\E seq \in SeqNum : Foreign(seq)) =>
          \/ util' = [util EXCEPT !.bad = util'.bad]
          \/ util'.base = util.bad]_vars

\* The source is valid exactly when the utility counts it, and then at least
\* one packet is expected and received: the statistics handler reports no
\* underflow of the unsigned difference.
ValidMeansExpected ==
    /\ synced <=> ~InProbation(util)
    /\ synced => Expected(util) >= 1 /\ util.received >= 1
=============================================================================
