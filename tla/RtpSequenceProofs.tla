-------------------------- MODULE RtpSequenceProofs --------------------------
(***************************************************************************)
(* The receiver's sequence utility counts exactly, for every modulus, every*)
(* choice of the tolerances the assumption admits, and any number of wraps *)
(* (the bounds MaxTurns and MaxReceived are arbitrary).                    *)
(***************************************************************************)
EXTENDS RtpSequence, TLAPS

-----------------------------------------------------------------------------
(* Facts on the 16-bit arithmetic.                                         *)

\* A packet that is ahead by d, repeated for d = 0, has distance d, and its
\* number is smaller than the newest exactly when the numbers wrapped.
LEMMA Ahead ==
    ASSUME NEW h \in SeqNum, NEW d \in 0..(MaxDropout - 1)
    PROVE  /\ Wrap(h + d) \in SeqNum
           /\ Udelta(Wrap(h + d), h) = d
           /\ Wrap(h + d) < h <=> h + d >= Mod
           /\ Wrap(h + d) = IF h + d >= Mod THEN h + d - Mod ELSE h + d
BY UtilityAssumption DEF SeqNum, Wrap, Udelta

\* A packet that is behind by -d has the distance Mod + d.
LEMMA Behind ==
    ASSUME NEW h \in SeqNum, NEW d \in (1 - MaxMisorder)..(-1)
    PROVE  /\ Wrap(h + d) \in SeqNum
           /\ Udelta(Wrap(h + d), h) = Mod + d
BY UtilityAssumption DEF SeqNum, Wrap, Udelta

LEMMA WrapType ==
    ASSUME NEW seq \in SeqNum
    PROVE  Wrap(seq + 1) \in SeqNum /\ Wrap(seq - 1) \in SeqNum
BY UtilityAssumption DEF SeqNum, Wrap

LEMMA UpdateType ==
    ASSUME NEW u \in Utility, NEW seq \in SeqNum
    PROVE  UpdateSeq(u, seq) \in Utility
<1> USE UtilityAssumption
<1>1. Wrap(seq + 1) \in 0..NoBadSeq
  BY WrapType DEF SeqNum, NoBadSeq
<1>2. NoBadSeq \in 0..NoBadSeq
  BY DEF NoBadSeq
<1>3. /\ MinSequential - 1 \in 0..MinSequential
      /\ u.probation # 0 => u.probation - 1 \in 0..MinSequential
      /\ u.cycles + Mod \in Nat
  BY DEF Utility
<1>4. 0 \in 0..MinSequential
  OBVIOUS
<1>5. ASSUME NEW v \in Utility PROVE Counted(v) \in Utility
  BY DEF Utility, Counted
<1>6. ASSUME NEW v \in Utility PROVE InitSeq(v, seq) \in Utility
  BY <1>2 DEF Utility, InitSeq
<1>7. CASE InProbation(u)
  <2>1. Probe(u, seq) \in Utility
    BY <1>3, <1>7 DEF Utility, Probe, InProbation
  <2>2. [u EXCEPT !.probation = 0] \in Utility
    BY <1>4 DEF Utility
  <2> QED
    BY <1>5, <1>6, <1>7, <2>1, <2>2 DEF UpdateSeq
<1>8. CASE ~InProbation(u)
  <2>1. [u EXCEPT !.bad = Wrap(seq + 1)] \in Utility
    BY <1>1 DEF Utility
  <2>2. [u EXCEPT !.max = seq, !.cycles = IF seq < u.max THEN @ + Mod ELSE @] \in Utility
    BY <1>3 DEF Utility
  <2> QED
    BY <1>5, <1>6, <1>8, <2>1, <2>2 DEF UpdateSeq
<1> QED
  BY <1>7, <1>8

-----------------------------------------------------------------------------
(* The inductive invariant: the parts of the utility are the truth, each    *)
(* by itself, and the base is not ahead of the newest packet.               *)

IInv ==
    /\ TypeOK
    /\ synced <=> ~InProbation(util)
    /\ synced => /\ util.max = hiSeq
                 /\ util.cycles = hiTurns
                 /\ util.base <= hiTurns + hiSeq
                 /\ util.received >= 1

LEMMA InitOK == Init => IInv
<1> SUFFICES ASSUME NEW seq \in FirstSeq,
                    util = UpdateSeq(NewUtility(seq), seq),
                    hiSeq = seq, hiTurns = 0, synced = FALSE
             PROVE  IInv
  BY DEF Init
<1> USE UtilityAssumption, SequenceAssumption
<1>1. seq \in SeqNum
  OBVIOUS
<1>2. NewUtility(seq) \in Utility
  <2>1. NoBadSeq \in 0..NoBadSeq
    BY DEF NoBadSeq
  <2>2. MinSequential \in 0..MinSequential
    OBVIOUS
  <2> QED
    BY <1>1, <2>1, <2>2, WrapType DEF NewUtility, Utility
<1>3. util \in Utility
  BY <1>1, <1>2, UpdateType
<1>4. InProbation(util)
  BY <1>1 DEF NewUtility, UpdateSeq, InProbation, InSequence, LastOfProbation, Probe
<1>5. synced \in BOOLEAN
  OBVIOUS
<1> QED
  BY <1>1, <1>3, <1>4, <1>5 DEF IInv, TypeOK

LEMMA DeliverOK ==
    ASSUME IInv, NEW d \in Window, Deliver(d)
    PROVE  IInv'
<1> USE UtilityAssumption
<1> DEFINE seq == Wrap(hiSeq + d)
<1>1. /\ hiSeq \in SeqNum /\ hiTurns \in Nat /\ util \in Utility
      /\ util.probation = 0 /\ util.max = hiSeq /\ util.cycles = hiTurns
      /\ util.base <= hiTurns + hiSeq /\ util.received >= 1
      /\ util.base \in SeqNum /\ util.received \in Nat
      /\ synced /\ synced' = synced
  BY DEF IInv, TypeOK, Deliver, InProbation, Utility
<1>2. CASE d >= 0
  <2>1. d \in 0..(MaxDropout - 1)
    BY <1>2 DEF Window
  <2>2. /\ seq \in SeqNum /\ Udelta(seq, hiSeq) = d /\ (seq < hiSeq <=> hiSeq + d >= Mod)
        /\ seq = IF hiSeq + d >= Mod THEN hiSeq + d - Mod ELSE hiSeq + d
    BY <1>1, <2>1, Ahead
  <2>3. InWindow(util, seq)
    BY <1>1, <2>1, <2>2 DEF InWindow
  <2>4. util' = Counted([util EXCEPT !.max = seq,
                               !.cycles = IF seq < util.max THEN @ + Mod ELSE @])
    BY <1>1, <2>3 DEF Deliver, UpdateSeq, InProbation
  <2>5. /\ util'.probation = 0 /\ util'.max = seq
        /\ util'.cycles = IF hiSeq + d >= Mod THEN hiTurns + Mod ELSE hiTurns
        /\ util'.base = util.base /\ util'.received = util.received + 1
    BY <1>1, <2>2, <2>4 DEF Counted, Utility
  <2>6. hiSeq' = seq
    BY <1>1, <2>1, <2>2 DEF Deliver, SeqNum
  <2>7. hiTurns' = IF hiSeq + d >= Mod THEN hiTurns + Mod ELSE hiTurns
    BY <1>1, <2>1, <2>2 DEF Deliver, SeqNum
  <2>8. util' \in Utility
    BY <1>1, <2>2, UpdateType DEF Deliver
  <2>9. util'.base <= hiTurns' + hiSeq'
    BY <1>1, <2>1, <2>2, <2>5, <2>6, <2>7 DEF SeqNum
  <2>10. TypeOK'
    BY <1>1, <2>2, <2>6, <2>7, <2>8 DEF TypeOK, IInv
  <2> QED
    BY <1>1, <2>5, <2>6, <2>7, <2>9, <2>10 DEF IInv, InProbation
<1>3. CASE d < 0
  <2>1. d \in (1 - MaxMisorder)..(-1)
    BY <1>3 DEF Window
  <2>2. seq \in SeqNum /\ Udelta(seq, hiSeq) = Mod + d
    BY <1>1, <2>1, Behind
  <2>3. ~InWindow(util, seq) /\ ~Jumped(util, seq)
    BY <1>1, <2>1, <2>2 DEF InWindow, Jumped
  <2>4. util' = Counted(util)
    BY <1>1, <2>3 DEF Deliver, UpdateSeq, InProbation
  <2>5. hiSeq' = hiSeq /\ hiTurns' = hiTurns
    BY <1>3, <2>1 DEF Deliver
  <2>6. /\ util'.probation = 0 /\ util'.max = util.max /\ util'.cycles = util.cycles
        /\ util'.base = util.base /\ util'.received = util.received + 1
    BY <1>1, <2>4 DEF Counted, Utility
  <2>7. util' \in Utility
    BY <1>1, <2>4 DEF Counted, Utility
  <2> QED
    BY <1>1, <2>5, <2>6, <2>7 DEF IInv, TypeOK, InProbation
<1> QED
  BY <1>2, <1>3 DEF Window

\* A packet that restarts the count makes its own number the base and the
\* newest; any other leaves what a synced utility counts.
LEMMA ForeignOK ==
    ASSUME IInv, NEW seq \in SeqNum, Foreign(seq)
    PROVE  IInv'
<1> USE UtilityAssumption
<1>1. util \in Utility /\ hiSeq \in SeqNum /\ hiTurns \in Nat /\ synced \in BOOLEAN
  BY DEF IInv, TypeOK
<1>2. util' \in Utility
  BY <1>1, UpdateType DEF Foreign
<1>3. CASE Restarts(seq)
  <2>1. util' = Counted(InitSeq([util EXCEPT !.probation = 0], seq))
    <3>1. CASE InProbation(util)
      BY <1>3, <3>1 DEF Foreign, Restarts, UpdateSeq
    <3>2. CASE ~InProbation(util)
      <4>1. util = [util EXCEPT !.probation = 0]
        BY <1>1, <3>2 DEF InProbation, Utility
      <4> QED
        BY <1>3, <3>2, <4>1 DEF Foreign, Restarts, UpdateSeq, Jumped
    <3> QED
      BY <3>1, <3>2
  <2>2. /\ util'.probation = 0 /\ util'.max = seq /\ util'.cycles = 0
        /\ util'.base = seq /\ util'.received = 1
    BY <1>1, <2>1 DEF Counted, InitSeq, Utility
  <2>3. hiSeq' = seq /\ hiTurns' = 0 /\ synced' = TRUE
    BY <1>3 DEF Foreign
  <2>4. TypeOK'
    BY <1>2, <2>3 DEF TypeOK
  <2> QED
    BY <2>2, <2>3, <2>4 DEF IInv, InProbation, SeqNum
<1>4. CASE ~Restarts(seq)
  <2>1. UNCHANGED <<hiSeq, hiTurns, synced>>
    BY <1>4 DEF Foreign
  <2>2. TypeOK'
    BY <1>1, <1>2, <2>1 DEF TypeOK
  <2>3. CASE InProbation(util)
    <3>1. util' = Probe(util, seq)
      BY <1>4, <2>3 DEF Foreign, Restarts, UpdateSeq
    <3>2. InProbation(util')
      BY <1>1, <1>4, <2>3, <3>1
      DEF Probe, Restarts, LastOfProbation, InProbation, Utility
    <3>3. InProbation(util)'
      BY <3>2 DEF InProbation
    <3> QED
      BY <2>1, <2>2, <2>3, <3>3 DEF IInv
  <2>4. CASE ~InProbation(util)
    <3>1. util' = [util EXCEPT !.bad = Wrap(seq + 1)]
      BY <1>4, <2>4 DEF Foreign, Restarts, UpdateSeq, Jumped
    <3>2. /\ util'.probation = util.probation /\ util'.max = util.max
          /\ util'.cycles = util.cycles /\ util'.base = util.base
          /\ util'.received = util.received
      BY <1>1, <3>1 DEF Utility
    <3> QED
      BY <2>1, <2>2, <2>4, <3>2 DEF IInv, InProbation
  <2> QED
    BY <2>3, <2>4
<1> QED
  BY <1>3, <1>4

LEMMA StepOK == IInv /\ [Next]_vars => IInv'
<1> SUFFICES ASSUME IInv, [Next]_vars PROVE IInv'
  OBVIOUS
<1>1. CASE UNCHANGED vars
  BY <1>1 DEF vars, IInv, TypeOK, InProbation
<1> QED
  BY <1>1, DeliverOK, ForeignOK DEF Next

LEMMA Invariance == Spec => []IInv
BY InitOK, StepOK, PTL DEF Spec

-----------------------------------------------------------------------------

\* The utility's fields keep the ranges of their C++ types.
THEOREM SequenceTypeCorrect == Spec => []TypeOK
<1>1. IInv => TypeOK
  BY DEF IInv
<1> QED
  BY Invariance, <1>1, PTL

\* expected() is exact after any number of wraps, losses, repetitions and
\* reorderings within MAX_DROPOUT and MAX_MISORDER.
THEOREM SequenceCountsExactly == Spec => []CountsExactly
<1>1. IInv => CountsExactly
  BY DEF IInv, TypeOK, Utility, CountsExactly, Expected, ExtendedMax, SeqNum
<1> QED
  BY Invariance, <1>1, PTL

\* A valid source has at least one packet expected and received, so that the
\* loss the statistics derive from them does not underflow.
THEOREM SequenceValidMeansExpected == Spec => []ValidMeansExpected
<1>1. IInv => ValidMeansExpected
  BY UtilityAssumption
  DEF IInv, TypeOK, Utility, ValidMeansExpected, Expected, ExtendedMax, SeqNum
<1> QED
  BY Invariance, <1>1, PTL

\* update_seq leaves the stream it counts only for a stray packet whose number
\* follows that of the stray packet before it.
THEOREM SequenceStrayIsHarmless == Spec => StrayIsHarmless
<1> DEFINE Harmless == synced /\ (\E seq \in SeqNum : Foreign(seq)) =>
                          \/ util' = [util EXCEPT !.bad = util'.bad]
                          \/ util'.base = util.bad
<1>1. ASSUME IInv, synced, NEW seq \in SeqNum, Foreign(seq)
      PROVE  \/ util' = [util EXCEPT !.bad = util'.bad]
             \/ util'.base = util.bad
  <2>1. util \in Utility /\ ~InProbation(util) /\ Jumped(util, seq)
    BY <1>1 DEF IInv, TypeOK, Foreign
  <2>2. CASE seq = util.bad
    <3>1. util' = Counted(InitSeq(util, seq))
      BY <1>1, <2>1, <2>2 DEF Foreign, UpdateSeq, Jumped
    <3> QED
      BY <2>1, <2>2, <3>1 DEF Counted, InitSeq, Utility
  <2>3. CASE seq # util.bad
    <3>1. util' = [util EXCEPT !.bad = Wrap(seq + 1)]
      BY <1>1, <2>1, <2>3 DEF Foreign, UpdateSeq, Jumped
    <3> QED
      BY <2>1, <3>1 DEF Utility
  <2> QED
    BY <2>2, <2>3
<1>2. IInv => [Harmless]_vars
  BY <1>1
<1> QED
  BY Invariance, <1>2, PTL DEF StrayIsHarmless
=============================================================================
