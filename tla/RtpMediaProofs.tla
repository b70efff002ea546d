---------------------------- MODULE RtpMediaProofs ----------------------------
(***************************************************************************)
(* The media stream from the sender's numbering and fec_generator through  *)
(* any losses, one late or doubled packet and FEC recovery to the display, *)
(* for any buffer, delay, group size and length of the movie.              *)
(***************************************************************************)
EXTENDS RtpMedia, SequenceTheorems, FiniteSetTheorems, WellFoundedInduction, TLAPS

-----------------------------------------------------------------------------
(* Sequences and numbers.                                                  *)

LEMMA InsertAtProperties ==
    ASSUME NEW S, NEW s \in Seq(S), NEW i \in 1..(Len(s) + 1), NEW e \in S
    PROVE  /\ InsertAt(s, i, e) \in Seq(S)
           /\ Len(InsertAt(s, i, e)) = Len(s) + 1
           /\ \A j \in 1..(Len(s) + 1) :
                InsertAt(s, i, e)[j] = IF j < i THEN s[j] ELSE IF j = i THEN e ELSE s[j - 1]
<1> DEFINE front == SubSeq(s, 1, i - 1)
           back == SubSeq(s, i, Len(s))
<1>1. Len(s) \in Nat /\ i \in Nat /\ i >= 1 /\ i <= Len(s) + 1
  BY LenProperties
<1>2. /\ front \in Seq(S) /\ Len(front) = i - 1
      /\ \A j \in 1..(i - 1) : front[j] = s[j]
  <2>1. \A j \in 1..(i - 1) : s[j] \in S
    BY <1>1, ElementOfSeq
  <2>2. /\ front \in Seq(S) /\ Len(front) = IF 1 <= i - 1 THEN (i - 1) - 1 + 1 ELSE 0
        /\ \A j \in 1..((i - 1) - 1 + 1) : front[j] = s[1 + j - 1]
    BY <1>1, <2>1, SubSeqProperties
  <2> QED
    BY <1>1, <2>2
<1>3. /\ back \in Seq(S) /\ Len(back) = Len(s) - i + 1
      /\ \A j \in 1..(Len(s) - i + 1) : back[j] = s[i + j - 1]
  <2>1. \A j \in i..Len(s) : s[j] \in S
    BY <1>1, ElementOfSeq
  <2>2. /\ back \in Seq(S) /\ Len(back) = IF i <= Len(s) THEN Len(s) - i + 1 ELSE 0
        /\ \A j \in 1..(Len(s) - i + 1) : back[j] = s[i + j - 1]
    BY <1>1, <2>1, SubSeqProperties
  <2> QED
    BY <1>1, <2>2
<1> HIDE DEF front, back
<1>4. <<e>> \in Seq(S) /\ Len(<<e>>) = 1 /\ <<e>>[1] = e
  OBVIOUS
<1>5. /\ front \o <<e>> \in Seq(S) /\ Len(front \o <<e>>) = i
      /\ \A j \in 1..i : (front \o <<e>>)[j] = IF j < i THEN s[j] ELSE e
  <2>1. /\ front \o <<e>> \in Seq(S) /\ Len(front \o <<e>>) = (i - 1) + 1
        /\ \A j \in 1..((i - 1) + 1) :
              (front \o <<e>>)[j] = IF j <= i - 1 THEN front[j] ELSE <<e>>[j - (i - 1)]
    BY <1>2, <1>4, ConcatProperties
  <2> QED
    BY <1>1, <1>2, <1>4, <2>1
<1> DEFINE half == front \o <<e>>
<1>0. half \in Seq(S) /\ Len(half) = i
  BY <1>5
<1> HIDE DEF half
<1>6. /\ (front \o <<e>>) \o back \in Seq(S)
      /\ Len((front \o <<e>>) \o back) = i + (Len(s) - i + 1)
      /\ \A j \in 1..(i + (Len(s) - i + 1)) :
            ((front \o <<e>>) \o back)[j] = IF j <= i THEN (front \o <<e>>)[j] ELSE back[j - i]
  <2>1. /\ half \o back \in Seq(S) /\ Len(half \o back) = Len(half) + Len(back)
        /\ \A j \in 1..(Len(half) + Len(back)) :
              (half \o back)[j] = IF j <= Len(half) THEN half[j] ELSE back[j - Len(half)]
    BY <1>0, <1>3, ConcatProperties
  <2> QED
    BY <1>0, <1>3, <2>1 DEF half
<1>7. InsertAt(s, i, e) = (front \o <<e>>) \o back
  BY DEF InsertAt, front, back
<1>8. i + (Len(s) - i + 1) = Len(s) + 1
  BY <1>1
<1>9. ASSUME NEW j \in 1..(Len(s) + 1)
      PROVE  InsertAt(s, i, e)[j] = IF j < i THEN s[j] ELSE IF j = i THEN e ELSE s[j - 1]
  <2>1. CASE j <= i
    BY <1>1, <1>5, <1>6, <1>7, <1>8, <2>1
  <2>2. CASE j > i
    <3>1. j - i \in 1..(Len(s) - i + 1) /\ i + (j - i) - 1 = j - 1
      BY <1>1, <2>2
    <3>2. back[j - i] = s[j - 1]
      BY <1>3, <3>1
    <3> QED
      BY <1>1, <1>6, <1>7, <1>8, <2>2, <3>2
  <2> QED
    BY <1>1, <2>1, <2>2
<1> QED
  BY <1>6, <1>7, <1>8, <1>9

LEMMA LeastNumber ==
    ASSUME NEW S, S \subseteq Nat, S # {}
    PROVE  \E i \in S : \A j \in S : i <= j
<1>1. PICK i \in S : \A j \in S : ~(<<j, i>> \in OpToRel(<, Nat))
  BY NatLessThanWellFounded, WFMin
<1>2. \A j \in S : ~(j < i)
  BY <1>1 DEF OpToRel
<1> QED
  BY <1>2

LEMMA Remainder ==
    ASSUME NEW m \in Nat, m > 0, NEW q \in Nat, NEW r \in 0..(m - 1)
    PROVE  ((m * q) + r) % m = r
OBVIOUS

\* Consecutive numbers: one more than the last, or less by Mod after the wrap.
LEMMA ModShift ==
    ASSUME NEW x \in Nat, NEW i \in Nat, i < Mod, NEW r, r = x % Mod
    PROVE  /\ r \in SeqNum
           /\ (x + i) % Mod = IF r + i < Mod THEN r + i ELSE r + i - Mod
<1> DEFINE q == x \div Mod
<1>1. Mod \in Nat /\ Mod > 0
  BY UtilityAssumption
<1>2. q \in Nat /\ r \in 0..(Mod - 1) /\ x = (Mod * q) + r
  BY <1>1
<1> HIDE DEF q
<1>3. CASE r + i < Mod
  <2>1. x + i = (Mod * q) + (r + i) /\ r + i \in 0..(Mod - 1)
    BY <1>1, <1>2, <1>3
  <2>2. ((Mod * q) + (r + i)) % Mod = r + i
    BY <1>1, <1>2, <2>1, Remainder
  <2> QED
    BY <1>2, <1>3, <2>1, <2>2 DEF SeqNum
<1>4. CASE r + i >= Mod
  <2>1. x + i = (Mod * (q + 1)) + (r + i - Mod) /\ r + i - Mod \in 0..(Mod - 1)
    BY <1>1, <1>2, <1>4
  <2>2. ((Mod * (q + 1)) + (r + i - Mod)) % Mod = r + i - Mod
    <3>1. q + 1 \in Nat
      BY <1>2
    <3> QED
      BY <1>1, <2>1, <3>1, Remainder
  <2> QED
    BY <1>1, <1>2, <1>4, <2>1, <2>2 DEF SeqNum
<1> QED
  BY <1>1, <1>2, <1>3, <1>4

-----------------------------------------------------------------------------
(* Types.                                                                  *)

LEMMA WrapType ==
    ASSUME NEW seq \in SeqNum
    PROVE  Wrap(seq + 1) \in SeqNum /\ Wrap(seq - 1) \in SeqNum
BY UtilityAssumption DEF SeqNum, Wrap

LEMMA UpdateType ==
    ASSUME NEW u \in Utility, NEW seq \in SeqNum
    PROVE  UpdateSeq(u, seq) \in Utility
<1> USE UtilityAssumption
<1>1. Wrap(seq + 1) \in 0..NoBadSeq
  BY WrapType DEF SeqNum, NoBadSeq
<1>2. NoBadSeq \in 0..NoBadSeq
  BY DEF NoBadSeq
<1>3. /\ MinSequential - 1 \in 0..MinSequential
      /\ u.probation # 0 => u.probation - 1 \in 0..MinSequential
      /\ u.cycles + Mod \in Nat
  BY DEF Utility
<1>4. 0 \in 0..MinSequential
  OBVIOUS
<1>5. ASSUME NEW v \in Utility PROVE Counted(v) \in Utility
  BY DEF Utility, Counted
<1>6. ASSUME NEW v \in Utility PROVE InitSeq(v, seq) \in Utility
  BY <1>2 DEF Utility, InitSeq
<1>7. CASE InProbation(u)
  <2>1. Probe(u, seq) \in Utility
    BY <1>3, <1>7 DEF Utility, Probe, InProbation
  <2>2. [u EXCEPT !.probation = 0] \in Utility
    BY <1>4 DEF Utility
  <2> QED
    BY <1>5, <1>6, <1>7, <2>1, <2>2 DEF UpdateSeq
<1>8. CASE ~InProbation(u)
  <2>1. [u EXCEPT !.bad = Wrap(seq + 1)] \in Utility
    BY <1>1 DEF Utility
  <2>2. [u EXCEPT !.max = seq, !.cycles = IF seq < u.max THEN @ + Mod ELSE @] \in Utility
    BY <1>3 DEF Utility
  <2> QED
    BY <1>5, <1>6, <1>8, <2>1, <2>2 DEF UpdateSeq
<1> QED
  BY <1>7, <1>8

LEMMA UpdatedType ==
    ASSUME NEW u \in Utility \cup {NoUtility}, NEW seq \in SeqNum
    PROVE  Updated(u, seq) \in Utility
<1>1. NewUtility(seq) \in Utility
  BY WrapType, UtilityAssumption DEF NewUtility, Utility, NoBadSeq
<1> QED
  BY <1>1, UpdateType DEF Updated

LEMMA SeqNumOfType ==
    ASSUME NEW n \in 1..Frames
    PROVE  SeqNumOf(n) \in SeqNum /\ PacketOf(n) \in Packet
<1>1. First \in Nat /\ Frames \in Nat /\ First + n - 1 \in Nat
  BY MediaAssumption, UtilityAssumption DEF SeqNum
<1>2. SeqNumOf(n) \in SeqNum
  BY <1>1, UtilityAssumption DEF SeqNumOf, SeqNum
<1> QED
  BY <1>2 DEF PacketOf, Packet

LEMMA ReconstructedType ==
    ASSUME NEW buf
    PROVE  Reconstructed(buf) \in Packet
BY UtilityAssumption DEF Reconstructed, Packet, SeqNum

\* The mark is inside the buffer, with a packet before it, once the buffer is
\* full.
LEMMA MarkInside ==
    ASSUME NEW buf \in Seq(Packet), Len(buf) >= BufferSize
    PROVE  /\ Mark(buf) \in 2..Len(buf) /\ Len(buf) \in Nat
           /\ Mark(buf) = Len(buf) - Delay + 1
<1>1. Len(buf) \in Nat
  BY LenProperties
<1> QED
  BY <1>1, MediaAssumption DEF Mark

LEMMA RepairedProperties ==
    ASSUME NEW buf \in Seq(Packet), Len(buf) >= BufferSize
    PROVE  /\ Repaired(buf) \in Seq(Packet)
           /\ Len(Repaired(buf)) = Len(buf) + 1
           /\ \A j \in 1..(Len(buf) + 1) :
                Repaired(buf)[j] = IF j < Mark(buf) THEN buf[j]
                                   ELSE IF j = Mark(buf) THEN Reconstructed(buf)
                                   ELSE buf[j - 1]
<1>1. Mark(buf) \in 1..(Len(buf) + 1)
  BY MarkInside
<1>2. Reconstructed(buf) \in Packet
  BY ReconstructedType
<1> DEFINE m == Mark(buf)
           r == Reconstructed(buf)
<1>3. Repaired(buf) = InsertAt(buf, m, r)
  BY DEF Repaired
<1> HIDE DEF m, r
<1>4. /\ InsertAt(buf, m, r) \in Seq(Packet)
      /\ Len(InsertAt(buf, m, r)) = Len(buf) + 1
      /\ \A j \in 1..(Len(buf) + 1) :
            InsertAt(buf, m, r)[j] = IF j < m THEN buf[j] ELSE IF j = m THEN r ELSE buf[j - 1]
  <2>1. m \in 1..(Len(buf) + 1) /\ r \in Packet
    BY <1>1, <1>2 DEF m, r
  <2> QED
    BY <2>1, InsertAtProperties
<1> QED
  BY <1>3, <1>4 DEF m, r

\* What Advance puts through: the buffer with the new packet, repaired or not.
With(p) == Append(incoming, p)
Passed(buf) == IF Gap(buf) = 2 /\ Recovers(buf) THEN Repaired(buf) ELSE buf

LEMMA AdvanceShape ==
    ASSUME incoming \in Seq(Packet), NEW p \in Packet, Advance(p)
    PROVE  /\ With(p) \in Seq(Packet) /\ Len(With(p)) = Len(incoming) + 1
           /\ Len(incoming) \in Nat /\ Len(With(p)) >= BufferSize
           /\ \A j \in 1..Len(incoming) : With(p)[j] = incoming[j]
           /\ With(p)[Len(incoming) + 1] = p
           /\ Passed(With(p)) \in Seq(Packet) /\ Passed(With(p))[1] \in Packet
           /\ incoming' \in Seq(Packet)
           /\ Len(incoming') = Len(Passed(With(p))) - 1
           /\ \A j \in 1..Len(incoming') : incoming'[j] = Passed(With(p))[j + 1]
           /\ frames' = Append(frames, Passed(With(p))[1].bytes)
<1> DEFINE buf == With(p)
           full == Passed(buf)
<1>1. buf = Append(incoming, p)
  BY DEF With
<1>2. Len(buf) >= BufferSize /\ incoming' = Tail(full) /\ frames' = Append(frames, Head(full).bytes)
  BY DEF Advance, Passed, With
<1>3. full = IF Gap(buf) = 2 /\ Recovers(buf) THEN Repaired(buf) ELSE buf
  BY DEF Passed
<1> HIDE DEF buf, full
<1>4. /\ buf \in Seq(Packet) /\ Len(buf) = Len(incoming) + 1 /\ Len(incoming) \in Nat
      /\ \A j \in 1..Len(incoming) : buf[j] = incoming[j]
      /\ buf[Len(incoming) + 1] = p
  BY <1>1, AppendProperties, LenProperties
<1>5. full \in Seq(Packet) /\ Len(full) \in Nat /\ Len(full) >= 1
  <2>1. CASE Gap(buf) = 2 /\ Recovers(buf)
    <3>1. full = Repaired(buf)
      BY <1>3, <2>1
    <3>2. Repaired(buf) \in Seq(Packet) /\ Len(Repaired(buf)) = Len(buf) + 1
      BY <1>4, <1>2, RepairedProperties
    <3> QED
      BY <1>4, <3>1, <3>2
  <2>2. CASE ~(Gap(buf) = 2 /\ Recovers(buf))
    BY <1>4, <1>3, <2>2
  <2> QED
    BY <2>1, <2>2
<1>6. full # <<>>
  BY <1>5
<1>7. /\ incoming' \in Seq(Packet) /\ Len(incoming') = Len(full) - 1
      /\ \A j \in 1..Len(incoming') : incoming'[j] = full[j + 1]
  BY <1>5, <1>6, <1>2, HeadTailProperties
<1>8. Head(full) = full[1] /\ full[1] \in Packet
  BY <1>5, ElementOfSeq
<1> QED
  BY <1>4, <1>5, <1>2, <1>7, <1>8 DEF buf, full

LEMMA ReceiveMediaType ==
    ASSUME TypeOK, NEW p \in Packet, ReceiveMedia(p)
    PROVE  /\ util' \in Utility \cup {NoUtility}
           /\ incoming' \in Seq(Packet) /\ frames' \in Seq(SUBSET (1..Frames))
           /\ corrected' \in Nat /\ uncorrectable' \in Nat
           /\ verdict' \in {"none", "recovered", "hopeless", "missed", "fault"}
<1>1. /\ util \in Utility \cup {NoUtility} /\ p.seq \in SeqNum /\ p.bytes \in SUBSET (1..Frames)
      /\ incoming \in Seq(Packet) /\ frames \in Seq(SUBSET (1..Frames))
      /\ corrected \in Nat /\ uncorrectable \in Nat
      /\ verdict \in {"none", "recovered", "hopeless", "missed", "fault"}
  BY DEF TypeOK, Packet
<1>2. util' \in Utility
  BY <1>1, UpdatedType DEF ReceiveMedia
<1>3. CASE DropInvalid(p)
  BY <1>1, <1>2, <1>3 DEF DropInvalid
<1>4. CASE FillBuffer(p)
  <2>1. incoming' \in Seq(Packet)
    BY <1>1, <1>4, AppendProperties DEF FillBuffer
  <2> QED
    BY <1>1, <1>2, <1>4, <2>1 DEF FillBuffer
<1>5. CASE Advance(p)
  <2> DEFINE full == Passed(With(p))
  <2> HIDE DEF full
  <2>1. /\ incoming' \in Seq(Packet) /\ frames' = Append(frames, full[1].bytes)
        /\ full[1] \in Packet
    BY <1>1, <1>5, AdvanceShape DEF full
  <2>2. full[1].bytes \in SUBSET (1..Frames)
    BY <2>1 DEF Packet
  <2>3. frames' \in Seq(SUBSET (1..Frames))
    BY <1>1, <2>1, <2>2, AppendProperties
  <2>4. /\ corrected' \in Nat /\ uncorrectable' \in Nat
        /\ verdict' \in {"none", "recovered", "hopeless", "missed", "fault"}
    BY <1>1, <1>5 DEF Advance
  <2> QED
    BY <1>2, <2>1, <2>3, <2>4
<1>6. CASE Fault(p)
  <2>1. incoming' \in Seq(Packet)
    BY <1>1, <1>6, AppendProperties DEF Fault
  <2> QED
    BY <1>1, <1>2, <1>6, <2>1 DEF Fault
<1> QED
  BY <1>3, <1>4, <1>5, <1>6 DEF ReceiveMedia

-----------------------------------------------------------------------------
(* The inductive invariant that holds for every width of sequence numbers: *)
(* the generator has collected the last frames, and its base is the first  *)
(* of them unless 0 or the wrap is among them; every FEC packet stands for *)
(* k consecutive frames, later ones for later frames; and the buffer is    *)
(* still filling, or has its size.                                         *)

Straight(S) == /\ \A n \in S : SeqNumOf(n) # 0
               /\ \A m, n \in S : m < n => SeqNumOf(m) < SeqNumOf(n)

Collected == k - gen.left
GroupStart == sent - Collected + 1

GenOK ==
    /\ Collected <= sent
    /\ gen.bytes = GroupStart..sent
    /\ Collected = 0 => gen.base = 0
    /\ Collected > 0 /\ Straight(gen.bytes) => gen.base = SeqNumOf(GroupStart)

IsGroup(f, a) ==
    /\ f.bytes = a..(a + k - 1)
    /\ Straight(f.bytes) => f.base = SeqNumOf(a)

FecOK ==
    /\ \A i \in 1..Len(fecs) : \E a \in 1..Frames : IsGroup(fecs[i], a) /\ a + k <= GroupStart
    /\ \A i, j \in 1..Len(fecs) : i < j =>
         \A m \in fecs[i].bytes, n \in fecs[j].bytes : m < n

FillOK ==
    \/ verdict = "fault"
    \/ frames = <<>> /\ shown = {} /\ corrected = 0 /\ Len(incoming) <= BufferSize - 1
    \/ Len(incoming) = BufferSize - 1 + corrected

HeldOK == pending => held \in 1..sent

MediaInv == TypeOK /\ GenOK /\ FecOK /\ FillOK /\ HeldOK

LEMMA MediaInitOK == Init => MediaInv
<1> SUFFICES ASSUME Init PROVE MediaInv
  OBVIOUS
<1> USE MediaAssumption, UtilityAssumption
<1>1. k \in Nat /\ k >= 1 /\ 0 \in SeqNum
  BY DEF Init, SeqNum
<1>2. TypeOK
  <2>1. gen \in [left: 1..k, base: SeqNum, bytes: SUBSET (1..Frames)]
    BY <1>1 DEF Init
  <2>2. pending \in BOOLEAN
    BY DEF Init
  <2> QED
    BY <1>1, <2>1, <2>2 DEF Init, TypeOK
<1>3. Collected = 0 /\ GroupStart = 1
  BY <1>1 DEF Init, Collected, GroupStart
<1>4. GenOK
  BY <1>3 DEF Init, GenOK
<1>5. Len(fecs) = 0 /\ Len(incoming) = 0
  BY DEF Init
<1>6. FecOK /\ FillOK /\ HeldOK
  BY <1>5 DEF Init, FecOK, FillOK, HeldOK
<1> QED
  BY <1>2, <1>4, <1>6 DEF MediaInv

\* One more frame goes into the group.
LEMMA GroupGrows ==
    ASSUME TypeOK, GenOK, sent < Frames
    PROVE  /\ sent \in Nat /\ Collected \in 0..(k - 1) /\ GroupStart \in 1..(sent + 1)
           /\ sent + 1 \in 1..Frames
           /\ GenBytes(sent + 1) = GroupStart..(sent + 1)
           /\ Straight(GenBytes(sent + 1)) => GenBase(SeqNumOf(sent + 1)) = SeqNumOf(GroupStart)
           /\ GenBase(SeqNumOf(sent + 1)) \in SeqNum
<1> USE MediaAssumption, UtilityAssumption
<1> DEFINE n == sent + 1
<1>1. /\ sent \in Nat /\ k \in Nat /\ gen.left \in 1..k /\ gen.base \in SeqNum /\ n \in 1..Frames
  BY DEF TypeOK
<1>2. Collected \in 0..(k - 1) /\ GroupStart \in 1..n
  BY <1>1 DEF Collected, GroupStart, GenOK
<1>3. gen.bytes = GroupStart..sent
  BY DEF GenOK
<1>4. GenBytes(n) = GroupStart..n
  BY <1>1, <1>2, <1>3 DEF GenBytes, Xor
<1>5. SeqNumOf(n) \in SeqNum
  BY <1>1, SeqNumOfType
<1>6. GenBase(SeqNumOf(n)) \in SeqNum
  BY <1>1, <1>5 DEF GenBase
<1>7. ASSUME Straight(GenBytes(n))
      PROVE  GenBase(SeqNumOf(n)) = SeqNumOf(GroupStart)
  <2>1. CASE Collected = 0
    <3>1. gen.base = 0 /\ GroupStart = n
      BY <1>1, <2>1 DEF GenOK, GroupStart
    <3> QED
      BY <3>1 DEF GenBase
  <2>2. CASE Collected > 0
    <3>1. Straight(gen.bytes)
      BY <1>1, <1>2, <1>3, <1>4, <1>7 DEF Straight
    <3>2. gen.base = SeqNumOf(GroupStart)
      BY <2>2, <3>1 DEF GenOK
    <3>3. GroupStart < n /\ GroupStart \in GroupStart..n /\ n \in GroupStart..n
      BY <1>1, <1>2, <2>2 DEF GroupStart
    <3>4. SeqNumOf(GroupStart) # 0 /\ SeqNumOf(GroupStart) < SeqNumOf(n)
      BY <1>4, <1>7, <3>3 DEF Straight
    <3>5. SeqNumOf(GroupStart) \in Nat /\ SeqNumOf(n) \in Nat
      BY <1>1, <1>5, <3>2 DEF SeqNum
    <3> QED
      BY <3>2, <3>4, <3>5 DEF GenBase
  <2> QED
    BY <1>2, <2>1, <2>2
<1> HIDE DEF n
<1> QED
  BY <1>1, <1>2, <1>4, <1>6, <1>7 DEF n

\* FecOK of any list of FEC packets before frame last.
Groups(fs, last) ==
    /\ \A i \in 1..Len(fs) : \E a \in 1..Frames : IsGroup(fs[i], a) /\ a + k <= last
    /\ \A i, j \in 1..Len(fs) : i < j => \A m \in fs[i].bytes, n \in fs[j].bytes : m < n

LEMMA GroupsAppend ==
    ASSUME k \in Nat, NEW fs \in Seq(FecPacket), NEW f \in FecPacket,
           NEW start \in 1..Frames, Frames \in Nat, Groups(fs, start), IsGroup(f, start)
    PROVE  Append(fs, f) \in Seq(FecPacket) /\ Groups(Append(fs, f), start + k)
<1> DEFINE g == Append(fs, f)
<1>1. /\ g \in Seq(FecPacket) /\ Len(g) = Len(fs) + 1 /\ Len(fs) \in Nat
      /\ \A i \in 1..Len(fs) : g[i] = fs[i]
      /\ g[Len(fs) + 1] = f
  BY AppendProperties, LenProperties
<1> HIDE DEF g
<1>2. ASSUME NEW i \in 1..Len(g)
      PROVE  \E a \in 1..Frames : IsGroup(g[i], a) /\ a + k <= start + k
  <2>1. CASE i = Len(g)
    BY <1>1, <2>1
  <2>2. CASE i # Len(g)
    <3>1. i \in 1..Len(fs) /\ g[i] = fs[i]
      BY <1>1, <2>2
    <3>2. PICK a \in 1..Frames : IsGroup(fs[i], a) /\ a + k <= start
      BY <3>1 DEF Groups
    <3> QED
      BY <3>1, <3>2
  <2> QED
    BY <2>1, <2>2
<1>3. ASSUME NEW i \in 1..Len(g), NEW j \in 1..Len(g), i < j,
             NEW m \in g[i].bytes, NEW n \in g[j].bytes
      PROVE  m < n
  <2>1. i \in 1..Len(fs) /\ g[i] = fs[i]
    BY <1>1, <1>3
  <2>2. CASE j \in 1..Len(fs)
    BY <1>1, <1>3, <2>1, <2>2 DEF Groups
  <2>3. CASE j = Len(g)
    <3>1. n \in start..(start + k - 1)
      BY <1>1, <1>3, <2>3 DEF IsGroup
    <3>2. PICK a \in 1..Frames : IsGroup(fs[i], a) /\ a + k <= start
      BY <2>1 DEF Groups
    <3>3. m \in a..(a + k - 1)
      BY <1>3, <2>1, <3>2 DEF IsGroup
    <3> QED
      BY <3>1, <3>2, <3>3
  <2> QED
    BY <1>1, <2>2, <2>3
<1> QED
  BY <1>1, <1>2, <1>3 DEF Groups, g

LEMMA GroupsTail ==
    ASSUME NEW fs \in Seq(FecPacket), fs # <<>>, NEW last, Groups(fs, last)
    PROVE  Tail(fs) \in Seq(FecPacket) /\ Groups(Tail(fs), last)
<1> DEFINE t == Tail(fs)
<1>1. /\ t \in Seq(FecPacket) /\ Len(t) = Len(fs) - 1 /\ Len(fs) \in Nat /\ Len(t) \in Nat
      /\ \A i \in 1..Len(t) : t[i] = fs[i + 1]
  BY HeadTailProperties, LenProperties
<1> HIDE DEF t
<1>2. \A i \in 1..Len(t) : i + 1 \in 1..Len(fs)
  BY <1>1
<1>3. ASSUME NEW i \in 1..Len(t)
      PROVE  \E a \in 1..Frames : IsGroup(t[i], a) /\ a + k <= last
  BY <1>1, <1>2 DEF Groups
<1>4. ASSUME NEW i \in 1..Len(t), NEW j \in 1..Len(t), i < j,
             NEW m \in t[i].bytes, NEW n \in t[j].bytes
      PROVE  m < n
  <2>1. i + 1 < j + 1 /\ i + 1 \in 1..Len(fs) /\ j + 1 \in 1..Len(fs)
    BY <1>2, <1>4
  <2>2. m \in fs[i + 1].bytes /\ n \in fs[j + 1].bytes
    BY <1>1, <1>4
  <2> QED
    BY <2>1, <2>2 DEF Groups
<1> QED
  BY <1>1, <1>3, <1>4 DEF Groups, t

\* A longer movie leaves the groups where they are.
LEMMA GroupsLater ==
    ASSUME k \in Nat, Frames \in Nat, NEW fs, NEW last \in Nat, Groups(fs, last),
           NEW later \in Nat, last <= later
    PROVE  Groups(fs, later)
<1>1. ASSUME NEW i \in 1..Len(fs)
      PROVE  \E a \in 1..Frames : IsGroup(fs[i], a) /\ a + k <= later
  <2>1. PICK a \in 1..Frames : IsGroup(fs[i], a) /\ a + k <= last
    BY DEF Groups
  <2> QED
    BY <2>1
<1> QED
  BY <1>1 DEF Groups

LEMMA ReceiveFecGroups ==
    ASSUME TypeOK, NEW start \in 1..Frames, Groups(fecs, start),
           NEW f \in FecPacket, IsGroup(f, start), ReceiveFec(f, fecSeq)
    PROVE  /\ fecUtil' \in Utility
           /\ fecs' \in Seq(FecPacket) /\ Groups(fecs', start + k)
<1> USE MediaAssumption
<1>1. /\ k \in Nat /\ Frames \in Nat /\ fecs \in Seq(FecPacket)
      /\ fecUtil \in Utility \cup {NoUtility} /\ fecSeq \in SeqNum
  BY DEF TypeOK
<1>2. fecUtil' \in Utility
  BY <1>1, UpdatedType DEF ReceiveFec
<1> DEFINE kept == IF Valid(fecUtil, fecSeq) THEN Append(fecs, f) ELSE fecs
<1>3. kept \in Seq(FecPacket) /\ Groups(kept, start + k)
  <2>1. CASE Valid(fecUtil, fecSeq)
    BY <1>1, <2>1, GroupsAppend
  <2>2. CASE ~Valid(fecUtil, fecSeq)
    <3>1. start + k \in Nat /\ start <= start + k /\ start \in Nat
      BY <1>1
    <3> QED
      BY <1>1, <2>2, <3>1, GroupsLater
  <2> QED
    BY <2>1, <2>2
<1>4. fecs' = IF Len(kept) > BufferSize THEN Tail(kept) ELSE kept
  BY DEF ReceiveFec
<1> HIDE DEF kept
<1>5. CASE Len(kept) > BufferSize
  <2>1. kept # <<>>
    BY <1>5
  <2> QED
    BY <1>2, <1>3, <1>4, <1>5, <2>1, GroupsTail
<1>6. CASE ~(Len(kept) > BufferSize)
  BY <1>2, <1>3, <1>4, <1>6
<1> QED
  BY <1>5, <1>6

LEMMA ReceiveMediaFill ==
    ASSUME TypeOK, FillOK, verdict # "fault", NEW p \in Packet, ReceiveMedia(p), shown' = shown
    PROVE  FillOK'
<1> USE MediaAssumption
<1>1. /\ incoming \in Seq(Packet) /\ Len(incoming) \in Nat /\ corrected \in Nat
      /\ BufferSize \in Nat
  BY LenProperties DEF TypeOK
<1>2. CASE DropInvalid(p)
  BY <1>2 DEF DropInvalid, FillOK
<1>3. CASE FillBuffer(p)
  <2>1. Len(incoming') = Len(incoming) + 1 /\ Len(incoming) + 1 < BufferSize
    BY <1>1, <1>3, AppendProperties DEF FillBuffer
  <2> QED
    BY <1>1, <1>3, <2>1 DEF FillBuffer, FillOK
<1>4. CASE Advance(p)
  <2>1. /\ With(p) \in Seq(Packet) /\ Len(With(p)) = Len(incoming) + 1
        /\ Len(With(p)) >= BufferSize /\ Len(incoming') = Len(Passed(With(p))) - 1
    BY <1>1, <1>4, AdvanceShape
  <2>2. Len(incoming) = BufferSize - 1 + corrected
    BY <1>1, <2>1 DEF FillOK
  <2>3. CASE Gap(With(p)) = 2 /\ Recovers(With(p))
    <3>1. Len(Passed(With(p))) = Len(With(p)) + 1
      BY <2>1, <2>3, RepairedProperties DEF Passed
    <3>2. corrected' = corrected + 1
      BY <1>4, <2>3 DEF Advance, With
    <3> QED
      BY <1>1, <2>1, <2>2, <3>1, <3>2 DEF FillOK
  <2>4. CASE ~(Gap(With(p)) = 2 /\ Recovers(With(p)))
    <3>1. Len(Passed(With(p))) = Len(With(p))
      BY <2>4 DEF Passed
    <3>2. corrected' = corrected
      BY <1>4, <2>4 DEF Advance, With
    <3> QED
      BY <1>1, <2>1, <2>2, <3>1, <3>2 DEF FillOK
  <2> QED
    BY <2>3, <2>4
<1>5. CASE Fault(p)
  BY <1>5 DEF Fault, FillOK
<1> QED
  BY <1>2, <1>3, <1>4, <1>5 DEF ReceiveMedia

LEMMA SendGroups ==
    ASSUME MediaInv, NEW mediaFate, NEW fecFate, SendNextPacket(mediaFate, fecFate)
    PROVE  /\ gen' \in [left: 1..k, base: SeqNum, bytes: SUBSET (1..Frames)]
           /\ fecSeq' \in SeqNum /\ fecUtil' \in Utility \cup {NoUtility}
           /\ fecs' \in Seq(FecPacket)
           /\ GenOK' /\ FecOK'
<1> USE MediaAssumption, UtilityAssumption
<1> DEFINE n == sent + 1
<1>1. TypeOK /\ GenOK /\ FecOK
  BY DEF MediaInv
<1>2. /\ sent < Frames /\ sent' = n /\ gen' = NextGen(n) /\ k' = k
      /\ IF GroupComplete THEN SendFec(n, fecFate) ELSE UNCHANGED <<fecSeq, fecUtil, fecs>>
  BY DEF SendNextPacket
<1>3. /\ k \in Nat /\ k >= 1 /\ Frames \in Nat /\ gen.left \in 1..k /\ fecSeq \in SeqNum
      /\ fecUtil \in Utility \cup {NoUtility} /\ fecs \in Seq(FecPacket)
      /\ 0 \in SeqNum /\ (fecSeq + 1) % Mod \in SeqNum
  BY <1>1 DEF TypeOK, SeqNum
<1>4. /\ sent \in Nat /\ Collected \in 0..(k - 1) /\ GroupStart \in 1..n /\ n \in 1..Frames
      /\ GenBytes(n) = GroupStart..n
      /\ Straight(GenBytes(n)) => GenBase(SeqNumOf(n)) = SeqNumOf(GroupStart)
      /\ GenBase(SeqNumOf(n)) \in SeqNum
  BY <1>1, <1>2, GroupGrows
<1>5. GenBytes(n) \in SUBSET (1..Frames)
  BY <1>3, <1>4
<1> HIDE DEF n
<1>6. CASE GroupComplete
  <2>1. gen.left = 1 /\ GroupStart = n - k + 1 /\ GroupStart \in 1..Frames /\ n \in Nat
    BY <1>3, <1>4, <1>6 DEF GroupComplete, GroupStart, Collected, n
  <2>2. gen' = [left |-> k, base |-> 0, bytes |-> {}]
    BY <1>2, <1>6 DEF NextGen
  <2>3. gen' \in [left: 1..k, base: SeqNum, bytes: SUBSET (1..Frames)]
    BY <1>3, <2>2
  <2>4. Collected' = 0 /\ GroupStart' = n + 1
    BY <1>2, <1>3, <2>1, <2>2 DEF Collected, GroupStart
  <2>5. GenOK'
    BY <1>2, <1>4, <2>2, <2>1, <2>4 DEF GenOK
  <2> DEFINE f == [base |-> GenBase(SeqNumOf(n)), bytes |-> GenBytes(n)]
  <2>6. f \in FecPacket
    BY <1>4, <1>5 DEF FecPacket
  <2>7. IsGroup(f, GroupStart)
    BY <1>3, <1>4, <2>1 DEF IsGroup
  <2>8. /\ fecSeq' = IF fecFate = "dropped" THEN fecSeq ELSE (fecSeq + 1) % Mod
        /\ IF fecFate = "received" THEN ReceiveFec(f, fecSeq) ELSE UNCHANGED <<fecUtil, fecs>>
    BY <1>2, <1>6 DEF SendFec
  <2>9. fecSeq' \in SeqNum
    BY <1>3, <2>8
  <2> HIDE DEF f
  <2>10. Groups(fecs, GroupStart)
    BY <1>1 DEF FecOK, Groups
  <2>11. /\ fecUtil' \in Utility \cup {NoUtility}
         /\ fecs' \in Seq(FecPacket) /\ Groups(fecs', GroupStart + k)
    <3>1. CASE fecFate = "received"
      BY <1>1, <2>1, <2>6, <2>7, <2>8, <2>10, <3>1, ReceiveFecGroups
    <3>2. CASE fecFate # "received"
      <4>1. GroupStart \in Nat /\ GroupStart + k \in Nat /\ GroupStart <= GroupStart + k
        BY <1>3, <2>1
      <4> QED
        BY <1>3, <2>8, <2>10, <3>2, <4>1, GroupsLater
    <3> QED
      BY <3>1, <3>2
  <2>12. GroupStart + k = GroupStart'
    BY <1>3, <2>1, <2>4
  <2>13. FecOK'
    BY <1>2, <2>11, <2>12 DEF FecOK, Groups, IsGroup
  <2> QED
    BY <2>3, <2>5, <2>9, <2>11, <2>13
<1>7. CASE ~GroupComplete
  <2>1. gen.left \in 2..k
    BY <1>3, <1>7 DEF GroupComplete
  <2>2. gen' = [left |-> gen.left - 1, base |-> GenBase(SeqNumOf(n)), bytes |-> GenBytes(n)]
    BY <1>2, <1>7 DEF NextGen
  <2>3. gen' \in [left: 1..k, base: SeqNum, bytes: SUBSET (1..Frames)]
    BY <1>3, <1>4, <1>5, <2>1, <2>2
  <2>4. Collected' = Collected + 1 /\ GroupStart' = GroupStart
    <3>1. gen'.left = gen.left - 1
      BY <2>2
    <3>2. Collected' = Collected + 1
      BY <1>2, <1>3, <3>1 DEF Collected
    <3> QED
      BY <1>2, <1>4, <3>2 DEF GroupStart, n
  <2>5. GenOK'
    <3>1. Collected' <= sent'
      BY <1>2, <1>4, <1>1, <2>4 DEF GenOK, n
    <3>2. gen'.bytes = GroupStart'..sent'
      BY <1>2, <1>4, <2>2, <2>4
    <3>3. Collected' # 0
      BY <1>4, <2>4
    <3>4. Straight(gen'.bytes) => gen'.base = SeqNumOf(GroupStart')
      BY <1>4, <2>2, <2>4
    <3> QED
      BY <3>1, <3>2, <3>3, <3>4 DEF GenOK, Straight
  <2>6. UNCHANGED <<fecSeq, fecUtil, fecs>>
    BY <1>2, <1>7
  <2>7. FecOK'
    BY <1>1, <1>2, <2>4, <2>6 DEF FecOK, IsGroup
  <2> QED
    BY <1>3, <2>3, <2>5, <2>6, <2>7
<1> QED
  BY <1>6, <1>7

LEMMA MediaStep == MediaInv /\ [Next]_vars => MediaInv'
<1> SUFFICES ASSUME MediaInv, [Next]_vars PROVE MediaInv'
  OBVIOUS
<1> USE MediaAssumption
<1>1. TypeOK /\ GenOK /\ FecOK /\ FillOK /\ HeldOK
  BY DEF MediaInv
<1>2. ASSUME NEW mediaFate \in MediaFate, NEW fecFate \in FecFate,
             SendNextPacket(mediaFate, fecFate)
      PROVE  MediaInv'
  <2> DEFINE n == sent + 1
  <2>1. /\ sent' = n /\ SendMedia(n, mediaFate) /\ k' = k /\ shown' = shown
        /\ verdict # "fault" /\ n \in 1..Frames /\ sent \in Nat
    BY <1>1, <1>2 DEF SendNextPacket, TypeOK
  <2>2. PacketOf(n) \in Packet
    BY <2>1, SeqNumOfType
  <2>3. /\ gen' \in [left: 1..k, base: SeqNum, bytes: SUBSET (1..Frames)]
        /\ fecSeq' \in SeqNum /\ fecUtil' \in Utility \cup {NoUtility}
        /\ fecs' \in Seq(FecPacket)
        /\ GenOK' /\ FecOK'
    BY <1>2, SendGroups
  <2> HIDE DEF n
  <2>4. /\ util' \in Utility \cup {NoUtility}
        /\ incoming' \in Seq(Packet) /\ frames' \in Seq(SUBSET (1..Frames))
        /\ corrected' \in Nat /\ uncorrectable' \in Nat
        /\ verdict' \in {"none", "recovered", "hopeless", "missed", "fault"}
        /\ FillOK'
    <3>1. CASE mediaFate \in {"received", "copied"}
      <4>1. ReceiveMedia(PacketOf(n))
        BY <2>1, <3>1 DEF SendMedia
      <4> QED
        BY <1>1, <2>1, <2>2, <4>1, ReceiveMediaType, ReceiveMediaFill
    <3>2. CASE mediaFate \notin {"received", "copied"}
      <4>1. UNCHANGED <<util, incoming, frames, corrected, uncorrectable, verdict>>
        BY <2>1, <3>2 DEF SendMedia
      <4> QED
        BY <1>1, <2>1, <4>1 DEF TypeOK, FillOK
    <3> QED
      BY <3>1, <3>2
  <2>5. held' \in {NoFrame} \cup 1..Frames /\ pending' \in BOOLEAN /\ HeldOK'
    <3>1. CASE mediaFate \in {"held", "copied"}
      <4>1. held' = n /\ pending' = TRUE
        BY <2>1, <3>1 DEF SendMedia
      <4>2. pending' \in BOOLEAN
        BY <4>1
      <4>3. held' \in 1..Frames /\ held' \in 1..sent'
        BY <2>1, <4>1 DEF n
      <4> QED
        BY <4>2, <4>3 DEF HeldOK
    <3>2. CASE mediaFate \notin {"held", "copied"}
      <4>1. held' = held /\ pending' = pending
        BY <2>1, <3>2 DEF SendMedia
      <4>2. \A h \in 1..sent : h \in 1..sent'
        BY <2>1 DEF n
      <4> QED
        BY <1>1, <4>1, <4>2 DEF TypeOK, HeldOK
    <3> QED
      BY <3>1, <3>2
  <2>6. k' \in FecK /\ sent' \in 0..Frames /\ shown' \in SUBSET (1..Frames)
    BY <1>1, <2>1 DEF TypeOK
  <2>7. TypeOK'
    BY <2>1, <2>3, <2>4, <2>5, <2>6 DEF TypeOK
  <2> QED
    BY <2>3, <2>4, <2>5, <2>7 DEF MediaInv
<1>3. CASE DeliverHeld
  <2>1. /\ UNCHANGED <<k, sent, gen, fecSeq, fecUtil, fecs, shown, held>>
        /\ pending /\ ReceiveMedia(PacketOf(held)) /\ verdict # "fault"
    BY <1>3 DEF DeliverHeld
  <2>2. ~pending' /\ pending' \in BOOLEAN
    BY <1>3 DEF DeliverHeld
  <2>3. held \in 1..Frames
    BY <1>1, <2>1 DEF HeldOK, TypeOK
  <2>4. PacketOf(held) \in Packet
    BY <2>3, SeqNumOfType
  <2>5. /\ util' \in Utility \cup {NoUtility}
        /\ incoming' \in Seq(Packet) /\ frames' \in Seq(SUBSET (1..Frames))
        /\ corrected' \in Nat /\ uncorrectable' \in Nat
        /\ verdict' \in {"none", "recovered", "hopeless", "missed", "fault"}
        /\ FillOK'
    BY <1>1, <2>1, <2>4, ReceiveMediaType, ReceiveMediaFill
  <2>6. TypeOK'
    BY <1>1, <2>1, <2>2, <2>5 DEF TypeOK
  <2>7. GenOK'
    BY <1>1, <2>1 DEF GenOK, Collected, GroupStart
  <2>8. FecOK'
    BY <1>1, <2>1 DEF FecOK, IsGroup, Collected, GroupStart
  <2> QED
    BY <2>2, <2>5, <2>6, <2>7, <2>8 DEF MediaInv, HeldOK
<1>4. CASE DisplayNextFrame
  <2>1. /\ frames # <<>> /\ shown' = Head(frames) /\ frames' = Tail(frames)
        /\ UNCHANGED <<k, sent, gen, fecSeq, util, fecUtil, incoming, fecs, held, pending,
                       corrected, uncorrectable, verdict>>
    BY <1>4 DEF DisplayNextFrame
  <2>2. frames \in Seq(SUBSET (1..Frames))
    BY <1>1 DEF TypeOK
  <2>3. frames' \in Seq(SUBSET (1..Frames)) /\ shown' \in SUBSET (1..Frames)
    <3>1. frames' \in Seq(SUBSET (1..Frames)) /\ Head(frames) \in SUBSET (1..Frames)
      BY <2>1, <2>2, HeadTailProperties
    <3> QED
      BY <2>1, <3>1
  <2>4. TypeOK'
    BY <1>1, <2>1, <2>3 DEF TypeOK
  <2>5. GenOK'
    BY <1>1, <2>1 DEF GenOK, Collected, GroupStart
  <2>6. FecOK'
    BY <1>1, <2>1 DEF FecOK, IsGroup, Collected, GroupStart
  <2>7. FillOK' /\ HeldOK'
    BY <1>1, <2>1 DEF FillOK, HeldOK
  <2> QED
    BY <2>4, <2>5, <2>6, <2>7 DEF MediaInv
<1>5. CASE UNCHANGED vars
  BY <1>1, <1>5 DEF vars, MediaInv, TypeOK, GenOK, FecOK, IsGroup, FillOK, HeldOK, Collected,
                    GroupStart
<1> QED
  BY <1>2, <1>3, <1>4, <1>5 DEF Next

LEMMA MediaInvariant == Spec => []MediaInv
BY MediaInitOK, MediaStep, PTL DEF Spec

\* Every state of the sender's generator and of the receiver's buffers and
\* counters is of its type: FEC groups count down from k and start anew, and
\* the deques hold packets only.
THEOREM MediaTypeCorrect == Spec => []TypeOK
<1>1. MediaInv => TypeOK
  BY DEF MediaInv
<1> QED
  BY <1>1, MediaInvariant, PTL

\* handle_new_jpeg_packet takes one packet out for every one that it puts in,
\* and the packet that a recovery adds stays: from the first frame on the
\* buffer is buffer_size - 1 packets long and one longer for every recovery.
THEOREM MediaBufferGrows == Spec => []BufferGrowsWithRecoveries
<1>1. MediaInv => BufferGrowsWithRecoveries
  BY DEF MediaInv, FillOK, BufferGrowsWithRecoveries
<1> QED
  BY <1>1, MediaInvariant, PTL

\* The sequence numbers of a group that neither wraps nor has the number 0.
LEMMA GroupNumbers ==
    ASSUME k \in FecK, NEW a \in 1..Frames, Straight(a..(a + k - 1))
    PROVE  \A i \in 0..(k - 1) : SeqNumOf(a + i) = SeqNumOf(a) + i /\ SeqNumOf(a) \in SeqNum
<1> USE MediaAssumption, UtilityAssumption
<1> SUFFICES ASSUME NEW i \in 0..(k - 1)
             PROVE  SeqNumOf(a + i) = SeqNumOf(a) + i /\ SeqNumOf(a) \in SeqNum
  OBVIOUS
<1> DEFINE x == First + a - 1
           r == SeqNumOf(a)
<1>1. /\ k \in Nat /\ k >= 1 /\ k < Mod /\ a \in Nat /\ i \in Nat /\ i < Mod
      /\ First \in Nat /\ x \in Nat
  BY DEF SeqNum
<1>2. r = x % Mod
  BY DEF SeqNumOf
<1>3. SeqNumOf(a + i) = (x + i) % Mod
  <2>1. First + (a + i) - 1 = x + i
    BY <1>1
  <2> QED
    BY <2>1 DEF SeqNumOf
<1> HIDE DEF x, r
<1>4. r \in SeqNum /\ (x + i) % Mod = IF r + i < Mod THEN r + i ELSE r + i - Mod
  BY <1>1, <1>2, ModShift
<1>5. r + i < Mod
  <2> SUFFICES ASSUME r + i >= Mod PROVE FALSE
    BY <1>1, <1>4 DEF SeqNum
  <2>1. i > 0 /\ SeqNumOf(a + i) < r
    BY <1>1, <1>3, <1>4 DEF SeqNum
  <2>2. a < a + i /\ a \in a..(a + k - 1) /\ a + i \in a..(a + k - 1)
    BY <1>1, <2>1
  <2>3. r < SeqNumOf(a + i)
    BY <2>2 DEF Straight, r
  <2> QED
    BY <1>1, <1>3, <1>4, <2>1, <2>3 DEF SeqNum
<1> QED
  BY <1>3, <1>4, <1>5 DEF r

\* fec_generator's base and the receiver's reading of the mask agree: the
\* numbers base, ..., base + k - 1 are those of the k packets XORed into the
\* FEC packet, however many media or FEC packets the channel dropped.
THEOREM MediaMaskNamesGroup == Spec => []MaskNamesGroup
<1>1. ASSUME MediaInv PROVE MaskNamesGroup
  <2> SUFFICES ASSUME NEW f \in Range(fecs), 0 \notin {SeqNumOf(n) : n \in f.bytes},
                      \A m, n \in f.bytes : m < n => SeqNumOf(m) < SeqNumOf(n)
               PROVE  {SeqNumOf(n) : n \in f.bytes} = {f.base + i : i \in 0..(k - 1)}
    BY DEF MaskNamesGroup
  <2>1. fecs \in Seq(FecPacket) /\ k \in FecK /\ k \in Nat
    BY <1>1, MediaAssumption DEF MediaInv, TypeOK
  <2>2. PICK j \in 1..Len(fecs) : f = fecs[j]
    BY <2>1, LenProperties DEF Range
  <2>3. PICK a \in 1..Frames : IsGroup(f, a)
    BY <1>1, <2>2 DEF MediaInv, FecOK
  <2>4. Straight(f.bytes)
    BY DEF Straight
  <2>5. f.bytes = a..(a + k - 1) /\ f.base = SeqNumOf(a)
    BY <2>3, <2>4 DEF IsGroup
  <2>6. \A i \in 0..(k - 1) : SeqNumOf(a + i) = f.base + i
    BY <2>1, <2>4, <2>5, GroupNumbers
  <2>7. ASSUME NEW n \in f.bytes PROVE \E i \in 0..(k - 1) : SeqNumOf(n) = f.base + i
    <3>1. n - a \in 0..(k - 1) /\ a + (n - a) = n
      BY <2>1, <2>5
    <3> QED
      BY <2>6, <3>1
  <2>8. ASSUME NEW i \in 0..(k - 1) PROVE \E n \in f.bytes : SeqNumOf(n) = f.base + i
    <3>1. a + i \in f.bytes
      BY <2>1, <2>5
    <3> QED
      BY <2>6, <3>1
  <2> QED
    BY <2>7, <2>8
<1> QED
  BY <1>1, MediaInvariant, PTL

-----------------------------------------------------------------------------
(* Recovery.  fec_generator takes a base of 0 for none, and compares the   *)
(* numbers of a group without regard to the wrap, so a group that reaches  *)
(* either has the wrong base: recovery is right for a stream that does     *)
(* neither, 65535 frames at most when it starts with 1.                    *)

NoWrap == First >= 1 /\ First + Frames <= Mod

LEMMA Numbers ==
    ASSUME NoWrap, NEW n \in 1..Frames
    PROVE  /\ SeqNumOf(n) = First + n - 1 /\ SeqNumOf(n) \in Nat /\ SeqNumOf(n) >= 1
           /\ First \in Nat /\ n \in Nat /\ Frames \in Nat
<1> USE MediaAssumption, UtilityAssumption
<1>1. First \in Nat /\ Frames \in Nat /\ Mod \in Nat /\ First >= 1 /\ First + Frames <= Mod
  BY DEF SeqNum, NoWrap
<1> DEFINE x == First + n - 1
<1>2. x \in 0..(Mod - 1) /\ x >= 1 /\ Mod > 0
  BY <1>1
<1>3. SeqNumOf(n) = x % Mod
  BY DEF SeqNumOf
<1> HIDE DEF x
<1>4. ((Mod * 0) + x) % Mod = x
  BY <1>1, <1>2, Remainder
<1>5. (Mod * 0) + x = x
  BY <1>1, <1>2
<1> QED
  BY <1>1, <1>2, <1>3, <1>4, <1>5 DEF x

LEMMA GreatestNumber ==
    ASSUME NEW L \in Nat, NEW S \in SUBSET (1..L), S # {}
    PROVE  \E i \in S : \A j \in S : j <= i
<1> DEFINE T == {L - i : i \in S}
<1>0. \A i \in S : i \in Nat /\ i <= L /\ L - i \in Nat
  OBVIOUS
<1>1. T \subseteq Nat /\ T # {}
  BY <1>0
<1>2. PICK t \in T : \A v \in T : t <= v
  BY <1>1, LeastNumber
<1>3. PICK i \in S : t = L - i
  OBVIOUS
<1>4. \A j \in S : L - j \in T
  OBVIOUS
<1>5. \A j \in S : j <= i
  <2> SUFFICES ASSUME NEW j \in S PROVE j <= i
    OBVIOUS
  <2>1. L - i <= L - j
    BY <1>2, <1>3, <1>4
  <2> QED
    BY <1>0, <2>1
<1> QED
  BY <1>5

\* The FEC packets in the buffer, by the first frame of their group.
LEMMA FecGroup ==
    ASSUME NoWrap, MediaInv, NEW c \in 1..Len(fecs)
    PROVE  \E a \in 1..Frames :
             /\ fecs[c].bytes = a..(a + k - 1) /\ fecs[c].base = First + a - 1
             /\ a + k - 1 <= sent /\ a + k <= GroupStart
<1> USE MediaAssumption
<1>1. /\ TypeOK /\ k \in FecK /\ k \in Nat /\ k >= 1 /\ sent \in 0..Frames /\ Frames \in Nat
      /\ gen.left \in 1..k
  BY DEF MediaInv, TypeOK
<1>2. GroupStart <= sent + 1 /\ GroupStart \in Int
  BY <1>1 DEF GroupStart, Collected
<1>3. PICK a \in 1..Frames : IsGroup(fecs[c], a) /\ a + k <= GroupStart
  BY DEF MediaInv, FecOK
<1>4. fecs[c].bytes = a..(a + k - 1) /\ a + k - 1 <= sent
  BY <1>1, <1>2, <1>3 DEF IsGroup
<1>5. a..(a + k - 1) \subseteq 1..Frames
  BY <1>1, <1>4
<1>6. Straight(a..(a + k - 1))
  <2>1. \A n \in a..(a + k - 1) : SeqNumOf(n) = First + n - 1 /\ SeqNumOf(n) >= 1 /\ First \in Nat
    BY <1>5, Numbers
  <2> QED
    BY <1>1, <2>1 DEF Straight
<1>7. fecs[c].base = First + a - 1
  BY <1>3, <1>4, <1>6, Numbers DEF IsGroup
<1> QED
  BY <1>3, <1>4, <1>7

\* The candidate of a recovery: the group of the frame that is missing.
LEMMA CandidateGroup ==
    ASSUME NoWrap, MediaInv, NEW buf \in Seq(Packet), Len(buf) >= BufferSize,
           Candidates(buf) # {}
    PROVE  \E c \in 1..Len(fecs), a \in 1..Frames :
             /\ Candidate(buf) = fecs[c] /\ Covers(fecs[c], Target(buf))
             /\ fecs[c].bytes = a..(a + k - 1) /\ fecs[c].base = First + a - 1
             /\ a + k - 1 <= sent /\ a + k <= GroupStart
             /\ Target(buf) - Candidate(buf).base \in 0..(k - 1)
             /\ Target(buf) \in Nat
<1> USE MediaAssumption, UtilityAssumption
<1>1. /\ fecs \in Seq(FecPacket) /\ k \in Nat /\ k >= 1 /\ Len(fecs) \in Nat
      /\ DOMAIN fecs = 1..Len(fecs)
  BY LenProperties DEF MediaInv, TypeOK
<1>2. Candidates(buf) \in SUBSET (1..Len(fecs))
  BY <1>1 DEF Candidates
<1>3. \E c \in Candidates(buf) : \A j \in Candidates(buf) : j <= c
  BY <1>1, <1>2, GreatestNumber
<1> DEFINE c == CHOOSE i \in Candidates(buf) : \A j \in Candidates(buf) : j <= i
<1>4. c \in Candidates(buf) /\ Candidate(buf) = fecs[c]
  BY <1>3 DEF Candidate
<1> HIDE DEF c
<1>5. c \in 1..Len(fecs) /\ Covers(fecs[c], Target(buf))
  BY <1>2, <1>4 DEF Candidates
<1>6. PICK a \in 1..Frames : /\ fecs[c].bytes = a..(a + k - 1) /\ fecs[c].base = First + a - 1
                             /\ a + k - 1 <= sent /\ a + k <= GroupStart
  BY <1>5, FecGroup
<1>7. Target(buf) \in Int /\ First \in Nat
  <2>1. Mark(buf) \in 1..Len(buf)
    BY MarkInside
  <2>2. buf[Mark(buf)] \in Packet
    BY <2>1, ElementOfSeq
  <2> QED
    BY <2>2 DEF Target, Packet, SeqNum
<1>8. Target(buf) - Candidate(buf).base \in 0..(k - 1) /\ Target(buf) \in Nat
  BY <1>1, <1>4, <1>5, <1>6, <1>7 DEF Covers
<1> QED
  BY <1>4, <1>5, <1>6, <1>8

\* No frame is in two groups.
LEMMA FecDisjoint ==
    ASSUME MediaInv, NEW c \in 1..Len(fecs), NEW d \in 1..Len(fecs),
           NEW n, n \in fecs[c].bytes, n \in fecs[d].bytes
    PROVE  c = d /\ \A m \in fecs[c].bytes : m \in Int
<1>1. fecs \in Seq(FecPacket) /\ Len(fecs) \in Nat
  BY LenProperties DEF MediaInv, TypeOK
<1>2. fecs[c] \in FecPacket
  BY <1>1, ElementOfSeq
<1>3. \A m \in fecs[c].bytes : m \in Int
  BY <1>2, MediaAssumption DEF FecPacket
<1>4. n \in Int /\ ~(n < n)
  BY <1>3
<1>5. ~(c < d) /\ ~(d < c)
  BY <1>4 DEF MediaInv, FecOK
<1> QED
  BY <1>1, <1>3, <1>5

\* A packet of the stream, as it was sent or as recovery made it.
Genuine(p) == \E n \in 1..Frames : p.bytes = {n} /\ p.seq \in {SeqNumOf(n), 0}

\* Recovery rebuilds the frame that was lost.
LEMMA ReconstructedFrame ==
    ASSUME NoWrap, MediaInv, NEW buf \in Seq(Packet), Len(buf) >= BufferSize,
           \A i \in 1..Len(buf) : Genuine(buf[i]), Recovers(buf)
    PROVE  \E r \in 1..Frames :
             /\ Reconstructed(buf) = [seq |-> 0, bytes |-> {r}]
             /\ r <= sent /\ r < GroupStart /\ Target(buf) = First + r - 1
             /\ \A c \in 1..Len(fecs) : r \in fecs[c].bytes =>
                  \A m \in fecs[c].bytes : m = r \/ \E l \in 1..Len(buf) : buf[l].bytes = {m}
<1>1. PICK c \in 1..Len(fecs), a \in 1..Frames :
             /\ Candidate(buf) = fecs[c] /\ Covers(fecs[c], Target(buf))
             /\ fecs[c].bytes = a..(a + k - 1) /\ fecs[c].base = First + a - 1
             /\ a + k - 1 <= sent /\ a + k <= GroupStart
             /\ Target(buf) - Candidate(buf).base \in 0..(k - 1)
             /\ Target(buf) \in Nat
  BY CandidateGroup DEF Recovers
<1>2. /\ k \in Nat /\ sent \in 0..Frames /\ Frames \in Nat /\ First \in Nat /\ First >= 1
      /\ gen.left \in 1..k /\ GroupStart \in Int
  BY MediaAssumption, UtilityAssumption DEF MediaInv, TypeOK, SeqNum, NoWrap, GroupStart, Collected
<1> DEFINE i == Target(buf) - Candidate(buf).base
           r == a + i
           Has(n) == {u \in Others(buf) : n \in buf[Place(buf, u)].bytes}
<1>3. /\ i \in 0..(k - 1) /\ Others(buf) = (0..(k - 1)) \ {i} /\ r \in 1..Frames /\ r <= sent
      /\ r < GroupStart /\ Target(buf) = First + r - 1 /\ r = a + i
      /\ Candidate(buf).base = First + a - 1 /\ Candidate(buf).bytes = a..(a + k - 1)
      /\ i \in Int /\ a \in Int
  <2>1. i \in 0..(k - 1) /\ Others(buf) = (0..(k - 1)) \ {i}
    BY <1>1 DEF Others
  <2>2. Candidate(buf).base = First + a - 1 /\ Candidate(buf).bytes = a..(a + k - 1)
    BY <1>1
  <2>3. Target(buf) = First + r - 1
    BY <1>1, <1>2, <2>2
  <2> HIDE DEF i
  <2>4. r \in 1..Frames /\ r <= sent /\ r < GroupStart
    BY <1>1, <1>2, <2>1
  <2> QED
    BY <2>1, <2>2, <2>3, <2>4
<1> HIDE DEF i, r
<1>4. i \in Int /\ a \in Int /\ k \in Int /\ First \in Nat /\ First >= 1 /\ r = a + i
  BY <1>2, <1>3
<1>5. \A u \in Int : u \in Others(buf) <=> 0 <= u /\ u <= k - 1 /\ u # i
  BY <1>3, <1>4
<1>6. \A u \in Others(buf) : u \in Int
  BY <1>3
<1>7. \A n \in Int : n \in Candidate(buf).bytes <=> a <= n /\ n <= a + k - 1
  BY <1>3, <1>4
<1>8. ASSUME NEW u \in Others(buf) PROVE buf[Place(buf, u)].bytes = {a + u}
  <2>1. /\ Place(buf, u) \in DOMAIN buf
        /\ buf[Place(buf, u)].seq = Candidate(buf).base + u
    BY DEF Recovers, Differs, OutOfBuffer
  <2>2. Genuine(buf[Place(buf, u)])
    BY <2>1, LenProperties
  <2>3. PICK n \in 1..Frames : /\ buf[Place(buf, u)].bytes = {n}
                               /\ buf[Place(buf, u)].seq \in {SeqNumOf(n), 0}
    BY <2>2 DEF Genuine
  <2>4. SeqNumOf(n) = First + n - 1 /\ n \in Nat
    BY Numbers
  <2>5. u \in Int /\ u >= 0 /\ Candidate(buf).base = First + a - 1 /\ a >= 1
    BY <1>3, <1>4, <1>5, <1>6
  <2>6. n = a + u
    <3>1. Candidate(buf).base + u # 0
      BY <1>4, <2>5
    <3>2. Candidate(buf).base + u = First + n - 1
      BY <2>1, <2>3, <2>4, <3>1
    <3> QED
      BY <1>4, <2>4, <2>5, <3>2
  <2> QED
    BY <2>3, <2>6
<1> DEFINE X == {n \in 1..Frames : ~((Cardinality(Has(n)) % 2 = 1) <=> (n \in Candidate(buf).bytes))}
<1>9. Reconstructed(buf) = [seq |-> 0, bytes |-> X]
  BY DEF Reconstructed
<1> HIDE DEF X
<1>10. ASSUME NEW n \in 1..Frames
       PROVE  Cardinality(Has(n)) % 2 = 1 <=> n \in Candidate(buf).bytes /\ n # r
  <2>1. n \in Int
    BY <1>2
  <2>2. CASE n \in Candidate(buf).bytes /\ n # r
    <3>1. n - a \in Others(buf)
      BY <1>4, <1>5, <1>7, <2>1, <2>2
    <3>2. \A u \in Others(buf) : n \in buf[Place(buf, u)].bytes <=> u = n - a
      BY <1>4, <1>6, <1>8, <2>1
    <3>3. Has(n) = {n - a}
      BY <3>1, <3>2
    <3>4. Cardinality(Has(n)) = 1
      BY <3>3, FS_Singleton
    <3> HIDE DEF Has
    <3> QED
      BY <2>2, <3>4
  <2>3. CASE ~(n \in Candidate(buf).bytes /\ n # r)
    <3>1. Has(n) = {}
      <4> SUFFICES ASSUME NEW u \in Others(buf), n \in buf[Place(buf, u)].bytes PROVE FALSE
        OBVIOUS
      <4>1. n = a + u
        BY <1>8
      <4> QED
        BY <1>4, <1>5, <1>6, <1>7, <2>1, <2>3, <4>1
    <3>2. Cardinality(Has(n)) = 0
      BY <3>1, FS_EmptySet
    <3> HIDE DEF Has
    <3> QED
      BY <2>3, <3>2
  <2> QED
    BY <2>2, <2>3
<1> HIDE DEF Has
<1>11. r \in Candidate(buf).bytes
  <2>1. r \in Int /\ a <= r /\ r <= a + k - 1
    <3>1. i \in 0..(k - 1) /\ r = a + i
      BY <1>3
    <3> QED
      BY <1>4, <3>1
  <2> QED
    BY <1>7, <2>1
<1>12. X = {r}
  BY <1>3, <1>10, <1>11 DEF X
<1>13. ASSUME NEW d \in 1..Len(fecs), r \in fecs[d].bytes, NEW m \in fecs[d].bytes, m # r
       PROVE  \E l \in 1..Len(buf) : buf[l].bytes = {m}
  <2>1. d = c /\ m \in Int
    BY <1>1, <1>11, <1>13, FecDisjoint
  <2>2. m \in Candidate(buf).bytes
    BY <1>1, <1>13, <2>1
  <2>3. m - a \in Others(buf) /\ a + (m - a) = m
    <3>1. a <= m /\ m <= a + k - 1
      BY <1>7, <2>1, <2>2
    <3>2. /\ m - a \in Int /\ 0 <= m - a /\ m - a <= k - 1 /\ m - a # i
          /\ a + (m - a) = m
      BY <1>4, <1>13, <2>1, <3>1
    <3> QED
      BY <1>5, <3>2
  <2>4. Place(buf, m - a) \in DOMAIN buf
    BY <2>3 DEF Recovers, OutOfBuffer
  <2>5. buf[Place(buf, m - a)].bytes = {m}
    BY <1>8, <2>3
  <2> QED
    BY <2>4, <2>5, LenProperties
<1> QED
  BY <1>3, <1>9, <1>12, <1>13

-----------------------------------------------------------------------------
(* The order on the way to the display.  Frame h, if there is one, comes   *)
(* late or twice: its packets may come behind any frame, its successor may *)
(* be recovered a second time, and frames behind its successor may have    *)
(* any number; all else is in the order of the movie.                      *)

Before(h, m, n) == m < n \/ (h # NoFrame /\ (n = h \/ m = h + 1))
BeforePacket(h, m, p) ==
    \A n \in p.bytes : Before(h, m, n) \/ (h # NoFrame /\ n = h + 1 /\ p.seq = 0)
BeforeBytes(h, m, b) == \A n \in b : Before(h, m, n) \/ (h # NoFrame /\ n = h + 1)

Pictures(out, last) ==
    \A i \in 1..Len(out) : /\ \A n \in out[i] : n <= last
                           /\ i # 1 => \E n \in 1..Frames : out[i] = {n}
Packets(buf, last) ==
    \A i \in 1..Len(buf) : Genuine(buf[i]) /\ \A n \in buf[i].bytes : n <= last
OutOrder(out, h) ==
    \A i, j \in 1..Len(out) : i < j => \A m \in out[i] : BeforeBytes(h, m, out[j])
CrossOrder(out, buf, h) ==
    \A i \in 1..Len(out), j \in 1..Len(buf) : \A m \in out[i] : BeforePacket(h, m, buf[j])
BufOrder(buf, h) ==
    \A i, j \in 1..Len(buf) : i < j => \A m \in buf[i].bytes : BeforePacket(h, m, buf[j])

LineOK(out, buf, h, last) ==
    /\ Pictures(out, last) /\ Packets(buf, last)
    /\ OutOrder(out, h) /\ CrossOrder(out, buf, h) /\ BufOrder(buf, h)

Bytes == SUBSET (1..Frames)

\* A packet arrives: that of a new frame, or the one that was held back.
LEMMA LineAppend ==
    ASSUME NoWrap, NEW out \in Seq(Bytes), NEW buf \in Seq(Packet),
           NEW h \in Nat, NEW last \in Nat, LineOK(out, buf, h, last),
           NEW n \in 1..Frames, NEW upto \in Nat,
           (n = last + 1 /\ upto = n) \/ (n = h /\ n <= last /\ upto = last)
    PROVE  LineOK(out, Append(buf, PacketOf(n)), h, upto)
<1> DEFINE p == PacketOf(n)
           b == Append(buf, p)
<1>1. p \in Packet /\ p.bytes = {n} /\ p.seq = SeqNumOf(n) /\ n \in Nat /\ n >= 1
  BY SeqNumOfType, Numbers DEF PacketOf
<1>2. Genuine(p)
  BY <1>1 DEF Genuine
<1> HIDE DEF p
<1>3. /\ b \in Seq(Packet) /\ Len(b) = Len(buf) + 1 /\ Len(buf) \in Nat
      /\ \A i \in 1..Len(buf) : b[i] = buf[i]
      /\ b[Len(buf) + 1] = p
  BY <1>1, AppendProperties, LenProperties
<1> HIDE DEF b
<1>4. \A i \in 1..Len(b) : i = Len(b) \/ i \in 1..Len(buf)
  BY <1>3
<1>5. last <= upto /\ n <= upto
  BY <1>1
<1>6. ASSUME NEW m \in Int, m <= last PROVE BeforePacket(h, m, p)
  BY <1>1, <1>6 DEF BeforePacket, Before, NoFrame
<1>7. /\ \A i \in 1..Len(out) : out[i] \in Bytes
      /\ \A i \in 1..Len(buf) : buf[i] \in Packet
      /\ \A s \in Bytes : \A m \in s : m \in Int
  BY ElementOfSeq, MediaAssumption DEF Bytes
<1>8. Pictures(out, upto)
  <2> SUFFICES ASSUME NEW i \in 1..Len(out), NEW m \in out[i] PROVE m <= upto
    BY DEF LineOK, Pictures
  <2>1. m <= last /\ m \in Int
    BY <1>7 DEF LineOK, Pictures
  <2> QED
    BY <1>5, <2>1
<1>9. Packets(b, upto)
  <2> SUFFICES ASSUME NEW i \in 1..Len(b)
               PROVE  Genuine(b[i]) /\ \A m \in b[i].bytes : m <= upto
    BY DEF Packets
  <2>1. CASE i = Len(b)
    BY <1>1, <1>2, <1>3, <1>5, <2>1
  <2>2. CASE i \in 1..Len(buf)
    <3>1. Genuine(buf[i]) /\ \A m \in buf[i].bytes : m <= last /\ m \in Int
      BY <1>7, <2>2 DEF LineOK, Packets, Packet, Bytes
    <3> QED
      BY <1>3, <1>5, <2>2, <3>1
  <2> QED
    BY <1>4, <2>1, <2>2
<1>10. CrossOrder(out, b, h)
  <2> SUFFICES ASSUME NEW i \in 1..Len(out), NEW j \in 1..Len(b), NEW m \in out[i]
               PROVE  BeforePacket(h, m, b[j])
    BY DEF CrossOrder
  <2>1. CASE j = Len(b)
    <3>1. m <= last /\ m \in Int
      BY <1>7 DEF LineOK, Pictures
    <3> QED
      BY <1>3, <1>6, <2>1, <3>1
  <2>2. CASE j \in 1..Len(buf)
    <3>1. BeforePacket(h, m, buf[j])
      BY <2>2 DEF LineOK, CrossOrder
    <3> QED
      BY <1>3, <2>2, <3>1
  <2> QED
    BY <1>4, <2>1, <2>2
<1>11. BufOrder(b, h)
  <2> SUFFICES ASSUME NEW i \in 1..Len(b), NEW j \in 1..Len(b), i < j, NEW m \in b[i].bytes
               PROVE  BeforePacket(h, m, b[j])
    BY DEF BufOrder
  <2>1. i \in 1..Len(buf) /\ b[i] = buf[i]
    BY <1>3
  <2>2. CASE j = Len(b)
    <3>1. m <= last /\ m \in Int
      BY <1>7, <2>1 DEF LineOK, Packets, Packet, Bytes
    <3> QED
      BY <1>3, <1>6, <2>2, <3>1
  <2>3. CASE j \in 1..Len(buf)
    <3>1. BeforePacket(h, m, buf[j])
      BY <2>1, <2>3 DEF LineOK, BufOrder
    <3> QED
      BY <1>3, <2>3, <3>1
  <2> QED
    BY <1>4, <2>2, <2>3
<1> QED
  BY <1>8, <1>9, <1>10, <1>11 DEF LineOK, b, p

\* The front goes to the frame buffer.
LEMMA LinePop ==
    ASSUME NEW out \in Seq(Bytes), NEW buf \in Seq(Packet), buf # <<>>,
           NEW h, NEW last, LineOK(out, buf, h, last)
    PROVE  LineOK(Append(out, buf[1].bytes), Tail(buf), h, last)
<1> DEFINE x == buf[1].bytes
           o == Append(out, x)
           t == Tail(buf)
<1>1. buf[1] \in Packet /\ Len(buf) \in Nat /\ Len(buf) >= 1
  BY ElementOfSeq, LenProperties
<1>2. x \in Bytes
  BY <1>1 DEF Packet, Bytes
<1>3. /\ t \in Seq(Packet) /\ Len(t) = Len(buf) - 1 /\ \A i \in 1..Len(t) : t[i] = buf[i + 1]
  BY HeadTailProperties
<1> HIDE DEF t, x
<1>4. /\ o \in Seq(Bytes) /\ Len(o) = Len(out) + 1 /\ Len(out) \in Nat
      /\ \A i \in 1..Len(out) : o[i] = out[i]
      /\ o[Len(out) + 1] = x
  BY <1>2, AppendProperties, LenProperties
<1> HIDE DEF o
<1>5. \A i \in 1..Len(o) : i = Len(o) \/ i \in 1..Len(out)
  BY <1>4
<1>6. \A i \in 1..Len(t) : i + 1 \in 1..Len(buf) /\ 1 < i + 1
  BY <1>1, <1>3
<1>7. 1 \in 1..Len(buf)
  BY <1>1
<1>8. Pictures(o, last)
  <2> SUFFICES ASSUME NEW i \in 1..Len(o)
               PROVE  (\A n \in o[i] : n <= last) /\ (i # 1 => \E n \in 1..Frames : o[i] = {n})
    BY DEF Pictures
  <2>1. CASE i = Len(o)
    <3>1. o[i] = buf[1].bytes
      BY <1>4, <2>1 DEF x
    <3> QED
      BY <1>7, <3>1 DEF LineOK, Packets, Genuine
  <2>2. CASE i \in 1..Len(out)
    BY <1>4, <2>2 DEF LineOK, Pictures
  <2> QED
    BY <1>5, <2>1, <2>2
<1>9. Packets(t, last)
  BY <1>3, <1>6 DEF LineOK, Packets
<1>10. OutOrder(o, h)
  <2> SUFFICES ASSUME NEW i \in 1..Len(o), NEW j \in 1..Len(o), i < j, NEW m \in o[i]
               PROVE  BeforeBytes(h, m, o[j])
    BY DEF OutOrder
  <2>1. i \in 1..Len(out) /\ o[i] = out[i]
    BY <1>4
  <2>2. CASE j = Len(o)
    <3>1. BeforePacket(h, m, buf[1])
      BY <1>7, <2>1 DEF LineOK, CrossOrder
    <3> QED
      BY <1>4, <2>2, <3>1 DEF BeforePacket, BeforeBytes, x
  <2>3. CASE j \in 1..Len(out)
    BY <1>4, <2>1, <2>3 DEF LineOK, OutOrder
  <2> QED
    BY <1>5, <2>2, <2>3
<1>11. CrossOrder(o, t, h)
  <2> SUFFICES ASSUME NEW i \in 1..Len(o), NEW j \in 1..Len(t), NEW m \in o[i]
               PROVE  BeforePacket(h, m, t[j])
    BY DEF CrossOrder
  <2>1. CASE i = Len(o)
    <3>1. m \in buf[1].bytes
      BY <1>4, <2>1 DEF x
    <3> QED
      BY <1>3, <1>6, <1>7, <3>1 DEF LineOK, BufOrder
  <2>2. CASE i \in 1..Len(out)
    BY <1>3, <1>4, <1>6, <2>2 DEF LineOK, CrossOrder
  <2> QED
    BY <1>5, <2>1, <2>2
<1>12. BufOrder(t, h)
  <2> SUFFICES ASSUME NEW i \in 1..Len(t), NEW j \in 1..Len(t), i < j, NEW m \in t[i].bytes
               PROVE  BeforePacket(h, m, t[j])
    BY DEF BufOrder
  <2>1. i + 1 < j + 1
    OBVIOUS
  <2> QED
    BY <1>3, <1>6, <2>1 DEF LineOK, BufOrder
<1> QED
  BY <1>8, <1>9, <1>10, <1>11, <1>12 DEF LineOK, o, t, x

\* A frame is displayed.
LEMMA LineDisplay ==
    ASSUME NEW out \in Seq(Bytes), out # <<>>, NEW buf, NEW h, NEW last,
           LineOK(out, buf, h, last)
    PROVE  LineOK(Tail(out), buf, h, last)
<1> DEFINE t == Tail(out)
<1>1. /\ t \in Seq(Bytes) /\ Len(t) = Len(out) - 1 /\ Len(out) \in Nat /\ Len(t) \in Nat
      /\ \A i \in 1..Len(t) : t[i] = out[i + 1]
  BY HeadTailProperties, LenProperties
<1> HIDE DEF t
<1>2. \A i \in 1..Len(t) : i + 1 \in 1..Len(out) /\ i + 1 # 1
  BY <1>1
<1>3. Pictures(t, last)
  BY <1>1, <1>2 DEF LineOK, Pictures
<1>4. OutOrder(t, h)
  <2> SUFFICES ASSUME NEW i \in 1..Len(t), NEW j \in 1..Len(t), i < j, NEW m \in t[i]
               PROVE  BeforeBytes(h, m, t[j])
    BY DEF OutOrder
  <2>1. i + 1 < j + 1
    OBVIOUS
  <2> QED
    BY <1>1, <1>2, <2>1 DEF LineOK, OutOrder
<1>5. CrossOrder(t, buf, h)
  BY <1>1, <1>2 DEF LineOK, CrossOrder
<1> QED
  BY <1>3, <1>4, <1>5 DEF LineOK, t

\* From now on a frame is late; frames are sent.
LEMMA LineHold ==
    ASSUME NEW out, NEW buf, NEW last, LineOK(out, buf, NoFrame, last), NEW h
    PROVE  LineOK(out, buf, h, last)
BY DEF LineOK, OutOrder, CrossOrder, BufOrder, BeforeBytes, BeforePacket, Before

LEMMA LineLater ==
    ASSUME NEW out \in Seq(Bytes), NEW buf \in Seq(Packet), NEW h, NEW last \in Nat,
           LineOK(out, buf, h, last), NEW later \in Nat, last <= later
    PROVE  LineOK(out, buf, h, later)
<1>1. /\ \A i \in 1..Len(out) : \A n \in out[i] : n \in Int
      /\ \A i \in 1..Len(buf) : \A n \in buf[i].bytes : n \in Int
  <2>1. /\ \A i \in 1..Len(out) : out[i] \in Bytes
        /\ \A i \in 1..Len(buf) : buf[i] \in Packet
        /\ \A s \in Bytes : \A m \in s : m \in Int
    BY ElementOfSeq, MediaAssumption DEF Bytes
  <2> QED
    BY <2>1 DEF Packet, Bytes
<1>2. Pictures(out, later)
  <2>1. \A i \in 1..Len(out) : \A n \in out[i] : n <= later
    BY <1>1 DEF LineOK, Pictures
  <2> QED
    BY <2>1 DEF LineOK, Pictures
<1>3. Packets(buf, later)
  <2>1. \A i \in 1..Len(buf) : \A n \in buf[i].bytes : n <= later
    BY <1>1 DEF LineOK, Packets
  <2> QED
    BY <2>1 DEF LineOK, Packets
<1> QED
  BY <1>2, <1>3 DEF LineOK

\* The frame before the mark and the one at it are next to the recovered one.
LEMMA RepairNeighbours ==
    ASSUME NoWrap, MediaInv, NEW buf \in Seq(Packet), Len(buf) >= BufferSize,
           \A i \in 1..Len(buf) : Genuine(buf[i]), Gap(buf) = 2,
           buf[Mark(buf)].seq # 0, buf[Mark(buf) - 1].seq # 0
    PROVE  \E r \in Nat : /\ buf[Mark(buf)].bytes = {r + 1} /\ buf[Mark(buf) - 1].bytes = {r - 1}
                          /\ Target(buf) = First + r - 1 /\ r >= 2 /\ r + 1 \in 1..Frames
<1>1. Mark(buf) \in 1..Len(buf) /\ Mark(buf) - 1 \in 1..Len(buf)
  BY MarkInside
<1>2. Genuine(buf[Mark(buf)]) /\ Genuine(buf[Mark(buf) - 1])
  BY <1>1
<1>3. PICK y \in 1..Frames : buf[Mark(buf)].bytes = {y} /\ buf[Mark(buf)].seq = SeqNumOf(y)
  BY <1>2 DEF Genuine
<1>4. PICK x \in 1..Frames : buf[Mark(buf) - 1].bytes = {x} /\ buf[Mark(buf) - 1].seq = SeqNumOf(x)
  BY <1>2 DEF Genuine
<1>5. /\ SeqNumOf(x) = First + x - 1 /\ SeqNumOf(y) = First + y - 1
      /\ First \in Nat /\ x \in Nat /\ y \in Nat /\ x >= 1
  <2>1. SeqNumOf(x) = First + x - 1 /\ First \in Nat /\ x \in Nat
    BY Numbers
  <2>2. SeqNumOf(y) = First + y - 1 /\ y \in Nat
    BY Numbers
  <2> QED
    BY <2>1, <2>2
<1>6. y = x + 2 /\ Target(buf) = First + (x + 1) - 1
  BY <1>3, <1>4, <1>5 DEF Gap, Target
<1>7. y = (x + 1) + 1 /\ x = (x + 1) - 1 /\ x + 1 >= 2 /\ x + 1 \in Nat
  <2>1. y = x + 2 /\ x \in Nat /\ x >= 1
    BY <1>5, <1>6
  <2>2. x + 2 = (x + 1) + 1 /\ x = (x + 1) - 1
    BY <2>1
  <2>3. x + 1 >= 2 /\ x + 1 \in Nat
    BY <2>1
  <2> QED
    BY <2>1, <2>2, <2>3
<1>8. /\ buf[Mark(buf)].bytes = {(x + 1) + 1} /\ buf[Mark(buf) - 1].bytes = {(x + 1) - 1}
      /\ (x + 1) + 1 \in 1..Frames
  BY <1>3, <1>4, <1>7
<1> QED
  BY <1>6, <1>7, <1>8

\* A recovered frame is put in its place.
LEMMA LineRepair ==
    ASSUME NoWrap, MediaInv, NEW out \in Seq(Bytes), NEW buf \in Seq(Packet),
           Len(buf) >= BufferSize, NEW h \in Nat, NEW last \in Nat, sent <= last,
           LineOK(out, buf, h, last), Gap(buf) = 2, Recovers(buf),
           buf[Mark(buf)].seq # 0, buf[Mark(buf) - 1].seq # 0
    PROVE  LineOK(out, Repaired(buf), h, last)
<1> DEFINE M == Mark(buf)
           R == Reconstructed(buf)
           b == Repaired(buf)
<1>1. \A i \in 1..Len(buf) : Genuine(buf[i])
  BY DEF LineOK, Packets
<1>2. PICK r \in 1..Frames : /\ R = [seq |-> 0, bytes |-> {r}]
                             /\ r <= sent /\ Target(buf) = First + r - 1
  BY <1>1, ReconstructedFrame
<1>3. PICK q \in Nat : /\ buf[M].bytes = {q + 1} /\ buf[M - 1].bytes = {q - 1}
                       /\ Target(buf) = First + q - 1
  BY <1>1, RepairNeighbours
<1>4. /\ r \in Nat /\ r <= last /\ R.bytes = {r} /\ R.seq = 0
      /\ buf[M].bytes = {r + 1} /\ buf[M - 1].bytes = {r - 1}
  <2>1. First \in Nat /\ sent \in Nat /\ r \in Nat
    BY MediaAssumption, UtilityAssumption DEF SeqNum, MediaInv, TypeOK
  <2>2. r = q
    BY <1>2, <1>3, <2>1
  <2>3. r <= last
    BY <1>2, <2>1
  <2> QED
    BY <1>2, <1>3, <2>1, <2>2, <2>3
<1>5. M \in 2..Len(buf) /\ Len(buf) \in Nat /\ M \in Nat
  BY MarkInside
<1>6. /\ b \in Seq(Packet) /\ Len(b) = Len(buf) + 1
      /\ \A j \in 1..(Len(buf) + 1) :
            b[j] = IF j < M THEN buf[j] ELSE IF j = M THEN R ELSE buf[j - 1]
  BY RepairedProperties
<1>7. Genuine(R)
  BY <1>2 DEF Genuine
<1> HIDE DEF M, R, b
<1>8. ASSUME NEW j \in 1..Len(b)
      PROVE  \/ j < M /\ j \in 1..Len(buf) /\ b[j] = buf[j]
             \/ j = M /\ b[j] = R
             \/ j > M /\ j - 1 \in 1..Len(buf) /\ j - 1 >= M /\ b[j] = buf[j - 1]
  <2>1. b[j] = IF j < M THEN buf[j] ELSE IF j = M THEN R ELSE buf[j - 1]
    BY <1>6
  <2>2. j \in Nat /\ j >= 1 /\ j <= Len(buf) + 1
    BY <1>5, <1>6
  <2>3. CASE j < M
    BY <1>5, <2>1, <2>2, <2>3
  <2>4. CASE j = M
    BY <1>5, <2>1, <2>4
  <2>5. CASE j > M
    BY <1>5, <2>1, <2>2, <2>5
  <2> QED
    BY <1>5, <2>2, <2>3, <2>4, <2>5
<1>9. \A i \in 1..Len(buf) : \A n \in buf[i].bytes : n \in Int
  <2>1. \A i \in 1..Len(buf) : buf[i] \in Packet
    BY ElementOfSeq
  <2> QED
    BY <2>1, MediaAssumption DEF Packet
<1>10. \A i \in 1..Len(out) : \A n \in out[i] : n \in Int
  <2>1. \A i \in 1..Len(out) : out[i] \in Bytes
    BY ElementOfSeq
  <2> QED
    BY <2>1, MediaAssumption DEF Bytes
<1>11. /\ M \in 1..Len(buf) /\ M - 1 \in 1..Len(buf)
       /\ buf[M].seq # 0 /\ buf[M - 1].seq # 0
  BY <1>5 DEF M
\* What is before the frame before the mark is before the recovered one.
<1>12. ASSUME NEW m \in Int, BeforePacket(h, m, buf[M - 1]) PROVE BeforePacket(h, m, R)
  <2>1. Before(h, m, r - 1)
    BY <1>4, <1>11, <1>12 DEF BeforePacket
  <2> QED
    BY <1>4, <2>1 DEF Before, BeforePacket
\* The recovered one is before what is behind the mark.
<1>13. ASSUME NEW j \in 1..Len(buf), j > M PROVE BeforePacket(h, r, buf[j])
  <2>1. BeforePacket(h, r + 1, buf[j]) /\ BeforePacket(h, r - 1, buf[j])
    <3>1. r + 1 \in buf[M].bytes /\ r - 1 \in buf[M - 1].bytes /\ M - 1 < j
      BY <1>4, <1>5, <1>13
    <3> QED
      BY <1>11, <1>13, <3>1 DEF LineOK, BufOrder
  <2> SUFFICES ASSUME NEW n \in buf[j].bytes
               PROVE  Before(h, r, n) \/ (h # NoFrame /\ n = h + 1 /\ buf[j].seq = 0)
    BY DEF BeforePacket
  <2>2. n \in Int
    BY <1>9
  <2>3. CASE h # NoFrame /\ n = h + 1 /\ buf[j].seq = 0
    BY <2>3
  <2>4. CASE ~(h # NoFrame /\ n = h + 1 /\ buf[j].seq = 0)
    <3>1. Before(h, r + 1, n) /\ Before(h, r - 1, n)
      BY <2>1, <2>4 DEF BeforePacket
    <3> QED
      BY <1>4, <2>2, <3>1 DEF Before
  <2> QED
    BY <2>3, <2>4
<1>14. BeforePacket(h, r - 1, R) /\ BeforePacket(h, r, buf[M])
  BY <1>4 DEF BeforePacket, Before
<1>15. Packets(b, last)
  <2> SUFFICES ASSUME NEW j \in 1..Len(b)
               PROVE  Genuine(b[j]) /\ \A n \in b[j].bytes : n <= last
    BY DEF Packets
  <2>1. CASE j = M
    BY <1>4, <1>7, <1>8, <2>1
  <2>2. CASE j # M
    BY <1>8, <2>2 DEF LineOK, Packets
  <2> QED
    BY <2>1, <2>2
<1>16. CrossOrder(out, b, h)
  <2> SUFFICES ASSUME NEW i \in 1..Len(out), NEW j \in 1..Len(b), NEW m \in out[i]
               PROVE  BeforePacket(h, m, b[j])
    BY DEF CrossOrder
  <2>1. \A l \in 1..Len(buf) : BeforePacket(h, m, buf[l])
    BY DEF LineOK, CrossOrder
  <2>2. BeforePacket(h, m, R)
    BY <1>10, <1>11, <1>12, <2>1
  <2> QED
    BY <1>8, <2>1, <2>2
<1>17. BufOrder(b, h)
  <2> SUFFICES ASSUME NEW i \in 1..Len(b), NEW j \in 1..Len(b), i < j, NEW m \in b[i].bytes
               PROVE  BeforePacket(h, m, b[j])
    BY DEF BufOrder
  <2>1. i \in Nat /\ j \in Nat
    BY <1>5, <1>6
  <2>0. j = M => b[j] = R
    <3>1. j = M => ~(j < M) /\ ~(j > M)
      BY <1>5
    <3> QED
      BY <1>8, <3>1
  <2>2. CASE i = M
    <3>1. m = r /\ j - 1 \in 1..Len(buf) /\ j - 1 >= M /\ b[j] = buf[j - 1]
      BY <1>4, <1>5, <1>8, <2>1, <2>2
    <3>2. CASE j - 1 = M
      BY <1>14, <3>1, <3>2
    <3>3. CASE j - 1 # M
      <4>1. j - 1 > M
        BY <1>5, <2>1, <3>1, <3>3
      <4> QED
        BY <1>13, <3>1, <4>1
    <3> QED
      BY <3>2, <3>3
  <2>3. CASE i < M
    <3>1. i \in 1..Len(buf) /\ m \in buf[i].bytes /\ m \in Int
      BY <1>5, <1>8, <1>9, <2>1, <2>3
    <3>2. \A l \in 1..Len(buf) : i < l => BeforePacket(h, m, buf[l])
      BY <3>1 DEF LineOK, BufOrder
    <3>3. CASE j = M
      <4>1. CASE i = M - 1
        <5>1. m = r - 1
          BY <1>4, <3>1, <4>1
        <5> QED
          BY <1>14, <2>0, <3>3, <5>1
      <4>2. CASE i # M - 1
        <5>1. i < M - 1
          BY <1>5, <2>1, <2>3, <4>2
        <5>2. BeforePacket(h, m, R)
          BY <1>11, <1>12, <3>1, <3>2, <5>1
        <5> QED
          BY <2>0, <3>3, <5>2
      <4> QED
        BY <4>1, <4>2
    <3>4. CASE j < M
      BY <1>5, <1>8, <2>1, <3>2, <3>4
    <3>5. CASE j > M
      <4>1. j - 1 \in 1..Len(buf) /\ i < j - 1 /\ b[j] = buf[j - 1]
        BY <1>5, <1>8, <2>1, <2>3, <3>5
      <4> QED
        BY <3>2, <4>1
    <3> QED
      BY <1>5, <2>1, <3>3, <3>4, <3>5
  <2>4. CASE i > M
    <3>1. j > M /\ i - 1 \in 1..Len(buf) /\ j - 1 \in 1..Len(buf) /\ i - 1 < j - 1
      BY <1>5, <1>6, <2>1, <2>4
    <3>2. ~(i < M) /\ i # M /\ ~(j < M) /\ j # M
      <4>1. M \in Int /\ i \in Int /\ i > M
        BY <1>5, <2>1, <2>4
      <4>2. j \in Int /\ j > M
        BY <2>1, <3>1
      <4>3. ~(i < M) /\ i # M
        BY <4>1
      <4> QED
        BY <4>1, <4>2, <4>3
    <3>3. b[i] = buf[i - 1] /\ b[j] = buf[j - 1]
      BY <1>8, <3>2
    <3> QED
      BY <3>1, <3>3 DEF LineOK, BufOrder
  <2> QED
    BY <1>5, <2>1, <2>2, <2>3, <2>4
<1> QED
  BY <1>15, <1>16, <1>17 DEF LineOK, b

\* What has left the incoming buffer: the picture on display and the frame
\* buffer behind it.
Queue(x, fs) == <<x>> \o fs

LEMMA QueueShape ==
    ASSUME NEW x \in Bytes, NEW fs \in Seq(Bytes)
    PROVE  /\ Queue(x, fs) \in Seq(Bytes) /\ Len(Queue(x, fs)) = Len(fs) + 1 /\ Len(fs) \in Nat
           /\ Queue(x, fs)[1] = x
           /\ \A i \in 2..(Len(fs) + 1) : Queue(x, fs)[i] = fs[i - 1]
<1>1. <<x>> \in Seq(Bytes) /\ Len(<<x>>) = 1 /\ <<x>>[1] = x /\ Len(fs) \in Nat
  BY LenProperties
<1> DEFINE h == <<x>>
<1>2. Queue(x, fs) = h \o fs /\ h \in Seq(Bytes) /\ Len(h) = 1 /\ h[1] = x
  BY <1>1 DEF Queue
<1> HIDE DEF h
<1>3. /\ h \o fs \in Seq(Bytes) /\ Len(h \o fs) = 1 + Len(fs)
      /\ \A i \in 1..(1 + Len(fs)) : (h \o fs)[i] = IF i <= 1 THEN h[i] ELSE fs[i - 1]
  <2>1. /\ h \o fs \in Seq(Bytes) /\ Len(h \o fs) = Len(h) + Len(fs)
        /\ \A i \in 1..(Len(h) + Len(fs)) :
              (h \o fs)[i] = IF i <= Len(h) THEN h[i] ELSE fs[i - Len(h)]
    BY <1>2, ConcatProperties
  <2>2. Len(h) = 1
    BY <1>2
  <2> QED
    BY <2>1, <2>2
<1>4. Len(h \o fs) = Len(fs) + 1 /\ (h \o fs)[1] = x
  <2>1. 1 \in 1..(1 + Len(fs)) /\ 1 + Len(fs) = Len(fs) + 1
    BY <1>1
  <2> QED
    BY <1>2, <1>3, <2>1
<1>5. ASSUME NEW i \in 2..(Len(fs) + 1) PROVE (h \o fs)[i] = fs[i - 1]
  <2>1. i \in 1..(1 + Len(fs)) /\ ~(i <= 1)
    BY <1>1
  <2> QED
    BY <1>3, <2>1
<1> QED
  BY <1>1, <1>2, <1>3, <1>4, <1>5

LEMMA QueueAppend ==
    ASSUME NEW x \in Bytes, NEW fs \in Seq(Bytes), NEW y \in Bytes
    PROVE  Queue(x, Append(fs, y)) = Append(Queue(x, fs), y)
<1> DEFINE g == Append(fs, y)
           q == Queue(x, fs)
<1>1. /\ g \in Seq(Bytes) /\ Len(g) = Len(fs) + 1 /\ g[Len(fs) + 1] = y
      /\ \A i \in 1..Len(fs) : g[i] = fs[i]
  BY AppendProperties
<1>2. /\ q \in Seq(Bytes) /\ Len(q) = Len(fs) + 1 /\ Len(fs) \in Nat /\ q[1] = x
      /\ \A i \in 2..(Len(fs) + 1) : q[i] = fs[i - 1]
  BY QueueShape
<1> HIDE DEF g, q
<1>3. /\ Queue(x, g) \in Seq(Bytes) /\ Len(Queue(x, g)) = Len(g) + 1 /\ Queue(x, g)[1] = x
      /\ \A i \in 2..(Len(g) + 1) : Queue(x, g)[i] = g[i - 1]
  BY <1>1, QueueShape
<1>4. /\ Append(q, y) \in Seq(Bytes) /\ Len(Append(q, y)) = Len(q) + 1
      /\ \A i \in 1..Len(q) : Append(q, y)[i] = q[i]
      /\ Append(q, y)[Len(q) + 1] = y
  BY <1>2, AppendProperties
<1>5. ASSUME NEW i \in 1..Len(Queue(x, g)) PROVE Queue(x, g)[i] = Append(q, y)[i]
  <2>1. i \in 1..(Len(fs) + 2)
    BY <1>1, <1>2, <1>3
  <2>2. CASE i = 1
    BY <1>2, <1>3, <1>4, <2>2
  <2>3. CASE i = Len(fs) + 2
    <3>1. i \in 2..(Len(g) + 1) /\ i - 1 = Len(fs) + 1 /\ i = Len(q) + 1
      BY <1>1, <1>2, <2>3
    <3> QED
      BY <1>1, <1>3, <1>4, <3>1
  <2>4. CASE i \in 2..(Len(fs) + 1)
    <3>1. i \in 2..(Len(g) + 1) /\ i - 1 \in 1..Len(fs) /\ i \in 1..Len(q)
      BY <1>1, <1>2, <2>4
    <3> QED
      BY <1>1, <1>2, <1>3, <1>4, <2>4, <3>1
  <2> QED
    BY <1>2, <2>1, <2>2, <2>3, <2>4
<1>6. Queue(x, g) = Append(q, y)
  BY <1>1, <1>2, <1>3, <1>4, <1>5, SeqEqual
<1> QED
  BY <1>6 DEF g, q

LEMMA QueueTail ==
    ASSUME NEW x \in Bytes, NEW fs \in Seq(Bytes), fs # <<>>
    PROVE  Queue(Head(fs), Tail(fs)) = Tail(Queue(x, fs)) /\ Queue(x, fs) # <<>>
<1> DEFINE t == Tail(fs)
           q == Queue(x, fs)
           g == Queue(Head(fs), t)
<1>1. /\ t \in Seq(Bytes) /\ Len(t) = Len(fs) - 1 /\ \A i \in 1..Len(t) : t[i] = fs[i + 1]
      /\ Head(fs) \in Bytes /\ Head(fs) = fs[1] /\ Len(fs) \in Nat
  BY HeadTailProperties, LenProperties
<1>2. /\ q \in Seq(Bytes) /\ Len(q) = Len(fs) + 1
      /\ \A i \in 2..(Len(fs) + 1) : q[i] = fs[i - 1]
  BY QueueShape
<1> HIDE DEF t, q
<1>3. /\ g \in Seq(Bytes) /\ Len(g) = Len(t) + 1 /\ g[1] = Head(fs)
      /\ \A i \in 2..(Len(t) + 1) : g[i] = t[i - 1]
  BY <1>1, QueueShape
<1> HIDE DEF g
<1>4. q # <<>>
  BY <1>1, <1>2
<1>5. /\ Tail(q) \in Seq(Bytes) /\ Len(Tail(q)) = Len(q) - 1
      /\ \A i \in 1..Len(Tail(q)) : Tail(q)[i] = q[i + 1]
  BY <1>2, <1>4, HeadTailProperties
<1>6. ASSUME NEW i \in 1..Len(g) PROVE g[i] = Tail(q)[i]
  <2>1. i \in 1..Len(fs) /\ i \in 1..Len(Tail(q)) /\ i + 1 \in 2..(Len(fs) + 1)
    BY <1>1, <1>2, <1>3, <1>5
  <2>2. Tail(q)[i] = fs[i]
    <3>1. (i + 1) - 1 = i
      BY <2>1
    <3> QED
      BY <1>2, <1>5, <2>1, <3>1
  <2>3. CASE i = 1
    BY <1>1, <1>3, <2>2, <2>3
  <2>4. CASE i # 1
    <3>1. i \in 2..(Len(t) + 1) /\ i - 1 \in 1..Len(t) /\ (i - 1) + 1 = i
      BY <1>1, <2>1, <2>4
    <3> QED
      BY <1>1, <1>3, <2>2, <3>1
  <2> QED
    BY <2>3, <2>4
<1>7. g = Tail(q)
  <2>1. Len(g) = Len(Tail(q))
    BY <1>1, <1>2, <1>3, <1>5
  <2> QED
    BY <1>3, <1>5, <1>6, <2>1, SeqEqual
<1> QED
  BY <1>4, <1>7 DEF g, q, t

-----------------------------------------------------------------------------
(* The invariant of a stream that does not wrap.                           *)

\* Recovered packets, whose number is 0, are before the mark.
Fresh(buf) == \A j \in 1..Len(buf) : j > Len(buf) - Delay => buf[j].seq # 0

OrderInv == MediaInv /\ LineOK(Queue(shown, frames), incoming, held, sent) /\ Fresh(incoming)

LEMMA FreshAppend ==
    ASSUME NEW buf \in Seq(Packet), Fresh(buf), NEW p \in Packet, p.seq # 0
    PROVE  /\ Append(buf, p) \in Seq(Packet)
           /\ Fresh(Append(buf, p))
           /\ Len(Append(buf, p)) >= BufferSize =>
                /\ Append(buf, p)[Mark(Append(buf, p))].seq # 0
                /\ Append(buf, p)[Mark(Append(buf, p)) - 1].seq # 0
<1> USE MediaAssumption
<1> DEFINE b == Append(buf, p)
<1>1. /\ b \in Seq(Packet) /\ Len(b) = Len(buf) + 1 /\ Len(buf) \in Nat
      /\ \A i \in 1..Len(buf) : b[i] = buf[i]
      /\ b[Len(buf) + 1] = p
  BY AppendProperties, LenProperties
<1> HIDE DEF b
<1>2. ASSUME NEW j \in 1..Len(b), j >= Len(b) - Delay PROVE b[j].seq # 0
  <2>1. CASE j = Len(b)
    BY <1>1, <2>1
  <2>2. CASE j # Len(b)
    <3>1. j \in 1..Len(buf) /\ j > Len(buf) - Delay
      BY <1>1, <1>2, <2>2
    <3> QED
      BY <1>1, <3>1 DEF Fresh
  <2> QED
    BY <2>1, <2>2
<1>3. Fresh(b)
  BY <1>1, <1>2 DEF Fresh
<1>4. ASSUME Len(b) >= BufferSize PROVE b[Mark(b)].seq # 0 /\ b[Mark(b) - 1].seq # 0
  <2>1. /\ Mark(b) \in 1..Len(b) /\ Mark(b) - 1 \in 1..Len(b)
        /\ Mark(b) >= Len(b) - Delay /\ Mark(b) - 1 >= Len(b) - Delay
    BY <1>1, <1>4, MarkInside
  <2> QED
    BY <1>2, <2>1
<1> QED
  BY <1>1, <1>3, <1>4 DEF b

LEMMA ReceiveMediaLine ==
    ASSUME NoWrap, OrderInv, NEW n \in 1..Frames, NEW upto \in Nat,
           (n = sent + 1 /\ upto = n) \/ (n = held /\ n <= sent /\ upto = sent),
           ReceiveMedia(PacketOf(n)), shown' = shown
    PROVE  LineOK(Queue(shown', frames'), incoming', held, upto) /\ Fresh(incoming')
<1> USE MediaAssumption
<1> DEFINE p == PacketOf(n)
           out == Queue(shown, frames)
<1>1. MediaInv /\ TypeOK /\ LineOK(out, incoming, held, sent) /\ Fresh(incoming)
  BY DEF OrderInv, MediaInv
<1>2. /\ incoming \in Seq(Packet) /\ frames \in Seq(Bytes) /\ shown \in Bytes
      /\ sent \in Nat /\ held \in Nat /\ Len(incoming) \in Nat
  BY <1>1, LenProperties DEF TypeOK, Bytes, NoFrame
<1>3. p \in Packet /\ p.seq # 0
  BY SeqNumOfType, Numbers DEF PacketOf
<1>4. out \in Seq(Bytes)
  BY <1>2, QueueShape
<1> HIDE DEF out
<1>5. LineOK(out, With(p), held, upto)
  BY <1>1, <1>2, <1>4, LineAppend DEF With
<1> HIDE DEF p
<1>6. /\ With(p) \in Seq(Packet) /\ Fresh(With(p))
      /\ Len(With(p)) >= BufferSize => /\ With(p)[Mark(With(p))].seq # 0
                                      /\ With(p)[Mark(With(p)) - 1].seq # 0
  BY <1>1, <1>2, <1>3, FreshAppend DEF With
<1>7. LineOK(out, incoming, held, upto)
  BY <1>1, <1>2, <1>4, LineLater
<1>8. CASE DropInvalid(p)
  BY <1>1, <1>7, <1>8 DEF DropInvalid, out
<1>9. CASE FillBuffer(p)
  BY <1>5, <1>6, <1>9 DEF FillBuffer, With, out
<1>10. CASE Fault(p)
  BY <1>5, <1>6, <1>10 DEF Fault, With, out
<1>11. CASE Advance(p)
  <2> DEFINE buf == With(p)
             full == Passed(buf)
  <2>1. Len(buf) >= BufferSize /\ buf \in Seq(Packet) /\ full \in Seq(Packet) /\ full[1] \in Packet
    BY <1>2, <1>3, <1>11, AdvanceShape
  <2>2. /\ Len(buf) = Len(incoming) + 1 /\ incoming' \in Seq(Packet)
        /\ Len(incoming') = Len(full) - 1
        /\ \A j \in 1..Len(incoming') : incoming'[j] = full[j + 1]
        /\ frames' = Append(frames, full[1].bytes)
    BY <1>2, <1>3, <1>11, AdvanceShape
  <2>3. incoming' = Tail(full)
    BY <1>11 DEF Advance, Passed, With
  <2>4. full = IF Gap(buf) = 2 /\ Recovers(buf) THEN Repaired(buf) ELSE buf
    BY DEF Passed
  <2>5. LineOK(out, buf, held, upto) /\ Fresh(buf)
    BY <1>5, <1>6
  <2>6. buf[Mark(buf)].seq # 0 /\ buf[Mark(buf) - 1].seq # 0
    BY <1>6, <2>1
  <2> HIDE DEF buf, full
  <2>7. /\ Repaired(buf) \in Seq(Packet) /\ Len(Repaired(buf)) = Len(buf) + 1
        /\ \A j \in 1..(Len(buf) + 1) :
              Repaired(buf)[j] = IF j < Mark(buf) THEN buf[j]
                                 ELSE IF j = Mark(buf) THEN Reconstructed(buf) ELSE buf[j - 1]
    BY <2>1, RepairedProperties
  <2>8. Mark(buf) = Len(buf) - Delay + 1 /\ Len(buf) \in Nat
    BY <2>1, MarkInside
  <2>9. LineOK(out, full, held, upto) /\ Fresh(incoming') /\ full # <<>>
    <3>1. CASE Gap(buf) = 2 /\ Recovers(buf)
      <4>1. full = Repaired(buf)
        BY <2>4, <3>1
      <4>2. sent <= upto
        BY <1>2
      <4>3. LineOK(out, Repaired(buf), held, upto)
        BY <1>1, <1>2, <1>4, <2>1, <2>5, <2>6, <3>1, <4>2, LineRepair
      <4>4. ASSUME NEW j \in 1..Len(incoming'), j > Len(incoming') - Delay
            PROVE  incoming'[j].seq # 0
        <5>1. Len(incoming') = Len(buf)
          BY <2>2, <2>7, <2>8, <4>1
        <5>2. j \in 1..Len(buf) /\ j > Len(buf) - Delay
          BY <4>4, <5>1
        <5>3. j + 1 \in 1..(Len(buf) + 1) /\ j + 1 > Mark(buf) /\ (j + 1) - 1 = j
          <6>1. j \in Int /\ j + 1 \in 1..(Len(buf) + 1) /\ (j + 1) - 1 = j
            BY <2>8, <5>2
          <6>2. Delay \in Nat
            OBVIOUS
          <6>3. j + 1 > Len(buf) - Delay + 1
            BY <2>8, <5>2, <6>1, <6>2
          <6> QED
            BY <2>8, <6>1, <6>3
        <5>4. Repaired(buf)[j + 1] = buf[j]
          <6>1. Repaired(buf)[j + 1] = IF j + 1 < Mark(buf) THEN buf[j + 1]
                                       ELSE IF j + 1 = Mark(buf) THEN Reconstructed(buf)
                                       ELSE buf[(j + 1) - 1]
            BY <2>7, <5>3
          <6>2. ~(j + 1 < Mark(buf)) /\ j + 1 # Mark(buf)
            BY <2>8, <5>2, <5>3
          <6> QED
            BY <5>3, <6>1, <6>2
        <5>5. incoming'[j] = buf[j]
          BY <2>2, <4>1, <5>4
        <5> QED
          BY <2>5, <5>2, <5>5 DEF Fresh
      <4>5. full # <<>>
        BY <2>7, <2>8, <4>1
      <4> QED
        BY <4>1, <4>3, <4>4, <4>5 DEF Fresh
    <3>2. CASE ~(Gap(buf) = 2 /\ Recovers(buf))
      <4>1. full = buf
        BY <2>4, <3>2
      <4>2. ASSUME NEW j \in 1..Len(incoming'), j > Len(incoming') - Delay
            PROVE  incoming'[j].seq # 0
        <5>1. j + 1 \in 1..Len(buf) /\ j + 1 > Len(buf) - Delay
          BY <2>2, <2>8, <4>1, <4>2
        <5>2. incoming'[j] = buf[j + 1]
          BY <2>2, <4>1
        <5> QED
          BY <2>5, <5>1, <5>2 DEF Fresh
      <4>3. full # <<>>
        BY <1>2, <2>2, <4>1
      <4> QED
        BY <2>5, <4>1, <4>2, <4>3 DEF Fresh
    <3> QED
      BY <3>1, <3>2
  <2>10. LineOK(Append(out, full[1].bytes), incoming', held, upto)
    BY <1>4, <2>1, <2>3, <2>9, LinePop
  <2>11. full[1].bytes \in Bytes
    BY <2>1 DEF Packet, Bytes
  <2>12. Queue(shown', frames') = Append(out, full[1].bytes)
    BY <1>2, <2>2, <2>11, QueueAppend DEF out
  <2> QED
    BY <2>9, <2>10, <2>12
<1> QED
  BY <1>8, <1>9, <1>10, <1>11 DEF ReceiveMedia, p

LEMMA OrderInit == Init => OrderInv
<1> SUFFICES ASSUME Init PROVE OrderInv
  OBVIOUS
<1>1. MediaInv
  BY MediaInitOK
<1> DEFINE q == Queue(shown, frames)
<1>2. shown = {} /\ frames = <<>> /\ Len(incoming) = 0
  BY DEF Init
<1>3. shown \in Bytes /\ frames \in Seq(Bytes) /\ Len(frames) = 0
  BY <1>2 DEF Bytes
<1>4. Len(q) = 1 /\ q[1] = {}
  <2>1. Len(q) = Len(frames) + 1 /\ q[1] = shown
    BY <1>3, QueueShape
  <2> QED
    BY <1>2, <1>3, <2>1
<1> HIDE DEF q
<1>5. LineOK(q, incoming, held, sent)
  BY <1>2, <1>4 DEF LineOK, Pictures, Packets, OutOrder, CrossOrder, BufOrder
<1>6. Fresh(incoming)
  BY <1>2 DEF Fresh
<1> QED
  BY <1>1, <1>5, <1>6 DEF OrderInv, q

LEMMA OrderStep ==
    ASSUME NoWrap
    PROVE  OrderInv /\ [Next]_vars => OrderInv'
<1> SUFFICES ASSUME OrderInv, [Next]_vars PROVE OrderInv'
  OBVIOUS
<1> USE MediaAssumption
<1>1. MediaInv /\ TypeOK /\ HeldOK /\ LineOK(Queue(shown, frames), incoming, held, sent)
      /\ Fresh(incoming)
  BY DEF OrderInv, MediaInv
<1>2. MediaInv'
  BY <1>1, MediaStep
<1>3. /\ incoming \in Seq(Packet) /\ frames \in Seq(Bytes) /\ shown \in Bytes /\ sent \in Nat
      /\ Queue(shown, frames) \in Seq(Bytes)
  <2>1. incoming \in Seq(Packet) /\ frames \in Seq(Bytes) /\ shown \in Bytes /\ sent \in Nat
    BY <1>1 DEF TypeOK, Bytes
  <2> QED
    BY <2>1, QueueShape
<1>4. ASSUME NEW mediaFate \in MediaFate, NEW fecFate \in FecFate,
             SendNextPacket(mediaFate, fecFate)
      PROVE  OrderInv'
  <2> DEFINE n == sent + 1
  <2>1. /\ sent' = n /\ SendMedia(n, mediaFate) /\ shown' = shown /\ n \in 1..Frames
        /\ n \in Nat
    BY <1>1, <1>3, <1>4 DEF SendNextPacket, TypeOK
  <2>2. LineOK(Queue(shown', frames'), incoming', held, n) /\ Fresh(incoming')
    <3>1. CASE mediaFate \in {"received", "copied"}
      <4>1. ReceiveMedia(PacketOf(n))
        BY <2>1, <3>1 DEF SendMedia
      <4> QED
        BY <2>1, <4>1, ReceiveMediaLine
    <3>2. CASE mediaFate \notin {"received", "copied"}
      <4>1. frames' = frames /\ incoming' = incoming
        BY <2>1, <3>2 DEF SendMedia
      <4>2. LineOK(Queue(shown, frames), incoming, held, n)
        BY <1>1, <1>3, <2>1, LineLater
      <4> QED
        BY <1>1, <2>1, <4>1, <4>2
    <3> QED
      BY <3>1, <3>2
  <2>3. held' = held \/ held = NoFrame
    BY <2>1 DEF SendMedia
  <2>4. LineOK(Queue(shown', frames'), incoming', held', n)
    BY <2>2, <2>3, LineHold
  <2> QED
    BY <1>2, <2>1, <2>2, <2>4 DEF OrderInv
<1>5. CASE DeliverHeld
  <2>1. /\ UNCHANGED <<sent, shown, held>> /\ pending /\ ReceiveMedia(PacketOf(held))
    BY <1>5 DEF DeliverHeld
  <2>2. held \in 1..Frames /\ held <= sent
    BY <1>1, <2>1 DEF HeldOK, TypeOK
  <2>3. LineOK(Queue(shown', frames'), incoming', held, sent) /\ Fresh(incoming')
    BY <1>3, <2>1, <2>2, ReceiveMediaLine
  <2> QED
    BY <1>2, <2>1, <2>3 DEF OrderInv
<1>6. CASE DisplayNextFrame
  <2>1. /\ frames # <<>> /\ shown' = Head(frames) /\ frames' = Tail(frames)
        /\ UNCHANGED <<sent, incoming, held>>
    BY <1>6 DEF DisplayNextFrame
  <2>2. Queue(shown', frames') = Tail(Queue(shown, frames)) /\ Queue(shown, frames) # <<>>
    BY <1>3, <2>1, QueueTail
  <2>3. LineOK(Tail(Queue(shown, frames)), incoming, held, sent)
    BY <1>1, <1>3, <2>2, LineDisplay
  <2> QED
    BY <1>1, <1>2, <2>1, <2>2, <2>3 DEF OrderInv
<1>7. CASE UNCHANGED vars
  BY <1>1, <1>2, <1>7 DEF vars, OrderInv
<1> QED
  BY <1>4, <1>5, <1>6, <1>7 DEF Next

LEMMA OrderInvariant ==
    ASSUME NoWrap
    PROVE  Spec => []OrderInv
BY OrderInit, OrderStep, PTL DEF Spec

\* The pipeline of the properties is the queue followed by the buffer.
LEMMA PipelineShape ==
    ASSUME TypeOK
    PROVE  /\ Queue(shown, frames) \in Seq(Bytes) /\ Len(Queue(shown, frames)) \in Nat
           /\ Len(Queue(shown, frames)) >= 1 /\ Len(incoming) \in Nat
           /\ Len(Pipeline) = Len(Queue(shown, frames)) + Len(incoming)
           /\ DOMAIN Pipeline = 1..Len(Pipeline)
           /\ \A i \in 1..Len(Pipeline) :
                Pipeline[i] = IF i <= Len(Queue(shown, frames)) THEN Queue(shown, frames)[i]
                              ELSE incoming[i - Len(Queue(shown, frames))].bytes
<1> DEFINE q == Queue(shown, frames)
           b == [i \in DOMAIN incoming |-> incoming[i].bytes]
<1>1. /\ incoming \in Seq(Packet) /\ frames \in Seq(Bytes) /\ shown \in Bytes
      /\ Len(incoming) \in Nat /\ DOMAIN incoming = 1..Len(incoming)
  BY LenProperties DEF TypeOK, Bytes
<1>2. q \in Seq(Bytes) /\ Len(q) \in Nat /\ Len(q) >= 1
  BY <1>1, QueueShape
<1>3. Pipeline = q \o b
  BY DEF Pipeline, Queue
<1>4. \A i \in 1..Len(incoming) : incoming[i].bytes \in Bytes
  <2>1. \A i \in 1..Len(incoming) : incoming[i] \in Packet
    BY <1>1, ElementOfSeq
  <2> QED
    BY <2>1 DEF Packet, Bytes
<1>5. /\ b \in Seq(Bytes) /\ Len(b) = Len(incoming)
      /\ \A i \in 1..Len(incoming) : b[i] = incoming[i].bytes
  BY <1>1, <1>4
<1> HIDE DEF q, b
<1>6. /\ q \o b \in Seq(Bytes) /\ Len(q \o b) = Len(q) + Len(b)
      /\ \A i \in 1..(Len(q) + Len(b)) : (q \o b)[i] = IF i <= Len(q) THEN q[i] ELSE b[i - Len(q)]
  BY <1>2, <1>5, ConcatProperties
<1>7. Len(Pipeline) = Len(q) + Len(incoming) /\ DOMAIN Pipeline = 1..Len(Pipeline)
  BY <1>3, <1>5, <1>6, LenProperties
<1>8. ASSUME NEW i \in 1..Len(Pipeline)
      PROVE  Pipeline[i] = IF i <= Len(q) THEN q[i] ELSE incoming[i - Len(q)].bytes
  <2>1. i \in 1..(Len(q) + Len(b)) /\ i \in Nat /\ i <= Len(q) + Len(incoming)
    BY <1>1, <1>2, <1>5, <1>7
  <2>2. CASE i <= Len(q)
    BY <1>3, <1>6, <2>1, <2>2
  <2>3. CASE i > Len(q)
    <3>1. i - Len(q) \in 1..Len(incoming)
      BY <1>1, <1>2, <2>1, <2>3
    <3> QED
      BY <1>2, <1>3, <1>5, <1>6, <2>1, <2>3, <3>1
  <2> QED
    BY <1>2, <2>1, <2>2, <2>3
<1> QED
  BY <1>1, <1>2, <1>7, <1>8 DEF q

\* Whatever the network loses, delays or doubles, and however often packets
\* are recovered, the receiver never queues the XOR of several frames: the
\* places that recover_packet_by_fec compares hold exactly the other packets of
\* the group, or it gives up.
THEOREM MediaNoBrokenFrame ==
    ASSUME NoWrap
    PROVE  Spec => []NoBrokenFrame
<1>1. ASSUME OrderInv PROVE NoBrokenFrame
  <2> DEFINE q == Queue(shown, frames)
  <2>1. TypeOK /\ LineOK(q, incoming, held, sent)
    BY <1>1 DEF OrderInv, MediaInv
  <2>2. /\ Len(q) \in Nat /\ Len(q) >= 1 /\ Len(incoming) \in Nat
        /\ Len(Pipeline) = Len(q) + Len(incoming)
        /\ \A i \in 1..Len(Pipeline) :
              Pipeline[i] = IF i <= Len(q) THEN q[i] ELSE incoming[i - Len(q)].bytes
    BY <2>1, PipelineShape
  <2> HIDE DEF q
  <2> SUFFICES ASSUME NEW i \in 2..Len(Pipeline) PROVE \E n \in 1..Frames : Pipeline[i] = {n}
    BY DEF NoBrokenFrame
  <2>3. i \in 1..Len(Pipeline) /\ i # 1 /\ i \in Nat
    BY <2>2
  <2>4. CASE i <= Len(q)
    <3>1. i \in 1..Len(q) /\ Pipeline[i] = q[i]
      BY <2>2, <2>3, <2>4
    <3> QED
      BY <2>1, <2>3, <3>1 DEF LineOK, Pictures
  <2>5. CASE i > Len(q)
    <3>1. i - Len(q) \in 1..Len(incoming) /\ Pipeline[i] = incoming[i - Len(q)].bytes
      BY <2>2, <2>3, <2>5
    <3> QED
      BY <2>1, <3>1 DEF LineOK, Packets, Genuine
  <2> QED
    BY <2>2, <2>3, <2>4, <2>5
<1> QED
  BY <1>1, OrderInvariant, PTL

\* Frames are queued for the display in the order of the movie and each once,
\* recovered ones in the place of the lost packet; only a frame whose packet
\* came late or twice, and its successor, can be out of place.
THEOREM MediaFramesInOrder ==
    ASSUME NoWrap
    PROVE  Spec => []FramesInOrder
<1>1. ASSUME OrderInv PROVE FramesInOrder
  <2> DEFINE q == Queue(shown, frames)
             disturbed == IF held = NoFrame THEN {} ELSE {held, held + 1}
  <2>1. TypeOK /\ LineOK(q, incoming, held, sent)
    BY <1>1 DEF OrderInv, MediaInv
  <2>2. /\ Len(q) \in Nat /\ Len(q) >= 1 /\ Len(incoming) \in Nat
        /\ Len(Pipeline) = Len(q) + Len(incoming) /\ DOMAIN Pipeline = 1..Len(Pipeline)
        /\ \A i \in 1..Len(Pipeline) :
              Pipeline[i] = IF i <= Len(q) THEN q[i] ELSE incoming[i - Len(q)].bytes
    BY <2>1, PipelineShape
  <2> HIDE DEF q
  <2> HIDE DEF disturbed
  <2> SUFFICES ASSUME NEW i \in DOMAIN Pipeline, NEW j \in DOMAIN Pipeline, i < j,
                      NEW m \in Pipeline[i], NEW n \in Pipeline[j]
               PROVE  m < n \/ {m, n} \cap disturbed # {}
    BY Zenon DEF FramesInOrder, disturbed
  <2>3. /\ i \in 1..Len(Pipeline) /\ j \in 1..Len(Pipeline)
        /\ i \in Nat /\ j \in Nat /\ Len(Pipeline) \in Nat
    BY <2>2
  <2>4. Before(held, m, n) \/ (held # NoFrame /\ n = held + 1)
    <3>1. CASE j <= Len(q)
      <4>1. i \in 1..Len(q) /\ j \in 1..Len(q) /\ Pipeline[i] = q[i] /\ Pipeline[j] = q[j]
        BY <2>2, <2>3, <3>1
      <4> QED
        BY <2>1, <4>1 DEF LineOK, OutOrder, BeforeBytes
    <3>2. CASE j > Len(q)
      <4>1. j - Len(q) \in 1..Len(incoming) /\ n \in incoming[j - Len(q)].bytes
        BY <2>2, <2>3, <3>2
      <4>2. CASE i <= Len(q)
        <5>1. i \in 1..Len(q) /\ m \in q[i]
          BY <2>2, <2>3, <4>2
        <5> QED
          BY <2>1, <4>1, <5>1 DEF LineOK, CrossOrder, BeforePacket
      <4>3. CASE i > Len(q)
        <5>1. /\ i - Len(q) \in 1..Len(incoming) /\ m \in incoming[i - Len(q)].bytes
              /\ i - Len(q) < j - Len(q)
          BY <2>2, <2>3, <4>3
        <5> QED
          BY <2>1, <4>1, <5>1 DEF LineOK, BufOrder, BeforePacket
      <4> QED
        BY <2>2, <2>3, <4>2, <4>3
    <3> QED
      BY <2>2, <2>3, <3>1, <3>2
  <2> QED
    BY <2>4 DEF Before, disturbed
<1> QED
  BY <1>1, OrderInvariant, PTL

-----------------------------------------------------------------------------
(* Completeness of recovery.  A recovered packet has lost its number, so a *)
(* second recovery in the same group would miss it; but the group of a     *)
(* recovered frame has no other frame missing.                             *)

\* Frame m is in the buffer, or has left it at the front.
Reached(buf, m) ==
    \/ \E l \in 1..Len(buf) : buf[l].bytes = {m}
    \/ \A l \in 1..Len(buf) : \A x \in buf[l].bytes : m < x

\* Groups of recovered frames are whole, and no later group holds such a frame.
Whole(buf, fs, start) ==
    \A j \in 1..Len(buf) : buf[j].seq = 0 =>
        \A r \in buf[j].bytes :
            /\ r < start
            /\ \A c \in 1..Len(fs) : r \in fs[c].bytes => \A m \in fs[c].bytes : Reached(buf, m)

LEMMA ReachedAppend ==
    ASSUME NEW buf \in Seq(Packet), NEW p \in Packet, NEW m,
           \A x \in p.bytes : m < x, Reached(buf, m)
    PROVE  Reached(Append(buf, p), m)
<1> DEFINE b == Append(buf, p)
<1>1. /\ Len(b) = Len(buf) + 1 /\ Len(buf) \in Nat
      /\ \A i \in 1..Len(buf) : b[i] = buf[i] /\ i \in 1..Len(b)
      /\ b[Len(buf) + 1] = p
  BY AppendProperties, LenProperties
<1> HIDE DEF b
<1>2. CASE \E l \in 1..Len(buf) : buf[l].bytes = {m}
  BY <1>1, <1>2 DEF Reached
<1>3. CASE \A l \in 1..Len(buf) : \A x \in buf[l].bytes : m < x
  <2>1. ASSUME NEW l \in 1..Len(b), NEW x \in b[l].bytes PROVE m < x
    <3>1. l = Len(buf) + 1 \/ l \in 1..Len(buf)
      BY <1>1
    <3> QED
      BY <1>1, <1>3, <2>1, <3>1
  <2> QED
    BY <2>1 DEF Reached
<1> QED
  BY <1>2, <1>3 DEF Reached, b

LEMMA WholeAppend ==
    ASSUME NEW buf \in Seq(Packet), NEW fs, NEW start, Whole(buf, fs, start),
           NEW p \in Packet, p.seq # 0,
           \A c \in 1..Len(fs) : \A m \in fs[c].bytes : \A x \in p.bytes : m < x
    PROVE  Whole(Append(buf, p), fs, start)
<1> DEFINE b == Append(buf, p)
<1>1. /\ Len(b) = Len(buf) + 1 /\ Len(buf) \in Nat
      /\ \A i \in 1..Len(buf) : b[i] = buf[i]
      /\ b[Len(buf) + 1] = p
  BY AppendProperties, LenProperties
<1>2. ASSUME NEW m, \A x \in p.bytes : m < x, Reached(buf, m) PROVE Reached(b, m)
  BY <1>2, ReachedAppend
<1> HIDE DEF b
<1>3. ASSUME NEW j \in 1..Len(b), b[j].seq = 0, NEW r \in b[j].bytes
      PROVE  /\ r < start
             /\ \A c \in 1..Len(fs) : r \in fs[c].bytes => \A m \in fs[c].bytes : Reached(b, m)
  <2>1. j # Len(buf) + 1
    BY <1>1, <1>3
  <2>2. j \in 1..Len(buf) /\ b[j] = buf[j]
    BY <1>1, <2>1
  <2> QED
    BY <1>2, <1>3, <2>2 DEF Whole
<1> QED
  BY <1>3 DEF Whole, b

LEMMA WholePop ==
    ASSUME NEW buf \in Seq(Packet), buf # <<>>, BufOrder(buf, NoFrame),
           NEW fs, NEW start, Whole(buf, fs, start)
    PROVE  Whole(Tail(buf), fs, start)
<1> DEFINE t == Tail(buf)
<1>1. /\ t \in Seq(Packet) /\ Len(t) = Len(buf) - 1 /\ \A i \in 1..Len(t) : t[i] = buf[i + 1]
      /\ Len(buf) \in Nat /\ Len(t) \in Nat
  BY HeadTailProperties, LenProperties
<1> HIDE DEF t
<1>2. \A i \in 1..Len(t) : i + 1 \in 1..Len(buf) /\ 1 < i + 1
  BY <1>1
<1>3. ASSUME NEW m, Reached(buf, m) PROVE Reached(t, m)
  <2>1. CASE \A l \in 1..Len(buf) : \A x \in buf[l].bytes : m < x
    BY <1>1, <1>2, <2>1 DEF Reached
  <2>2. ASSUME NEW l \in 1..Len(buf), buf[l].bytes = {m} PROVE Reached(t, m)
    <3>1. CASE l = 1
      <4>1. ASSUME NEW i \in 1..Len(t), NEW x \in t[i].bytes PROVE m < x
        <5>1. i + 1 \in 1..Len(buf) /\ l < i + 1 /\ m \in buf[l].bytes /\ x \in buf[i + 1].bytes
          BY <1>1, <1>2, <2>2, <3>1, <4>1
        <5> QED
          BY <5>1 DEF BufOrder, BeforePacket, Before, NoFrame
      <4> QED
        BY <4>1 DEF Reached
    <3>2. CASE l # 1
      <4>1. l - 1 \in 1..Len(t) /\ (l - 1) + 1 = l
        BY <1>1, <3>2
      <4>2. t[l - 1].bytes = {m}
        BY <1>1, <2>2, <4>1
      <4> QED
        BY <4>1, <4>2 DEF Reached
    <3> QED
      BY <3>1, <3>2
  <2> QED
    BY <1>3, <2>1, <2>2 DEF Reached
<1>4. ASSUME NEW j \in 1..Len(t), t[j].seq = 0, NEW r \in t[j].bytes
      PROVE  /\ r < start
             /\ \A c \in 1..Len(fs) : r \in fs[c].bytes => \A m \in fs[c].bytes : Reached(t, m)
  <2>1. j + 1 \in 1..Len(buf) /\ buf[j + 1].seq = 0 /\ r \in buf[j + 1].bytes
    BY <1>1, <1>2, <1>4
  <2> QED
    BY <1>3, <2>1 DEF Whole
<1> QED
  BY <1>4 DEF Whole, t

\* An FEC packet more, or the oldest gone.
LEMMA WholeFec ==
    ASSUME NEW buf \in Seq(Packet), NEW fs, NEW start \in Int, Whole(buf, fs, start),
           NEW gs, NEW later \in Int, start <= later,
           \A c \in 1..Len(gs) : \/ \E d \in 1..Len(fs) : gs[c] = fs[d]
                                 \/ \A m \in gs[c].bytes : start <= m
    PROVE  Whole(buf, gs, later)
<1> SUFFICES ASSUME NEW j \in 1..Len(buf), buf[j].seq = 0, NEW r \in buf[j].bytes
             PROVE  /\ r < later
                    /\ \A c \in 1..Len(gs) :
                         r \in gs[c].bytes => \A m \in gs[c].bytes : Reached(buf, m)
  BY DEF Whole
<1>1. buf[j] \in Packet
  BY ElementOfSeq
<1>2. r \in Int /\ r < start
  BY <1>1, MediaAssumption DEF Whole, Packet
<1>3. ASSUME NEW c \in 1..Len(gs), r \in gs[c].bytes, NEW m \in gs[c].bytes
      PROVE  Reached(buf, m)
  <2>1. PICK d \in 1..Len(fs) : gs[c] = fs[d]
    BY <1>2, <1>3
  <2> QED
    BY <1>3, <2>1 DEF Whole
<1> QED
  BY <1>2, <1>3

LEMMA WholeRepair ==
    ASSUME NoWrap, MediaInv, NEW buf \in Seq(Packet), Len(buf) >= BufferSize,
           \A i \in 1..Len(buf) : Genuine(buf[i]), Gap(buf) = 2, Recovers(buf),
           buf[Mark(buf)].seq # 0, buf[Mark(buf) - 1].seq # 0,
           Whole(buf, fecs, GroupStart)
    PROVE  Whole(Repaired(buf), fecs, GroupStart)
<1> DEFINE M == Mark(buf)
           R == Reconstructed(buf)
           b == Repaired(buf)
<1>1. PICK r \in 1..Frames :
             /\ R = [seq |-> 0, bytes |-> {r}]
             /\ r < GroupStart /\ Target(buf) = First + r - 1
             /\ \A c \in 1..Len(fecs) : r \in fecs[c].bytes =>
                  \A m \in fecs[c].bytes : m = r \/ \E l \in 1..Len(buf) : buf[l].bytes = {m}
  BY ReconstructedFrame
<1>2. PICK q \in Nat : buf[M - 1].bytes = {q - 1} /\ Target(buf) = First + q - 1
  BY RepairNeighbours
<1>3. r \in Nat /\ buf[M - 1].bytes = {r - 1} /\ R.bytes = {r} /\ R.seq = 0
  <2>1. First \in Nat /\ r \in Nat
    BY MediaAssumption, UtilityAssumption DEF SeqNum
  <2>2. r = q
    BY <1>1, <1>2, <2>1
  <2> QED
    BY <1>1, <1>2, <2>1, <2>2
<1>4. M \in 2..Len(buf) /\ Len(buf) \in Nat /\ M \in Nat
  BY MarkInside
<1>5. /\ Len(b) = Len(buf) + 1
      /\ \A j \in 1..(Len(buf) + 1) :
            b[j] = IF j < M THEN buf[j] ELSE IF j = M THEN R ELSE buf[j - 1]
  BY RepairedProperties
<1> HIDE DEF M, R, b
<1>6. ASSUME NEW j \in 1..Len(b) PROVE (j = M /\ b[j] = R) \/ \E l \in 1..Len(buf) : b[j] = buf[l]
  <2>1. j \in Nat /\ j >= 1 /\ j <= Len(buf) + 1
    BY <1>4, <1>5
  <2>2. CASE j < M
    BY <1>4, <1>5, <2>1, <2>2
  <2>3. CASE j = M
    BY <1>4, <1>5, <2>3
  <2>4. CASE j > M
    <3>1. j - 1 \in 1..Len(buf) /\ b[j] = buf[j - 1]
      BY <1>4, <1>5, <2>1, <2>4
    <3> QED
      BY <3>1
  <2> QED
    BY <1>4, <2>1, <2>2, <2>3, <2>4
<1>7. ASSUME NEW l \in 1..Len(buf) PROVE \E j \in 1..Len(b) : b[j] = buf[l]
  <2>1. CASE l < M
    <3>1. l \in 1..Len(b) /\ b[l] = buf[l]
      BY <1>4, <1>5, <2>1
    <3> QED
      BY <3>1
  <2>2. CASE l >= M
    <3>1. l + 1 \in 1..Len(b) /\ l + 1 \in 1..(Len(buf) + 1) /\ l + 1 > M /\ (l + 1) - 1 = l
      BY <1>4, <1>5, <2>2
    <3>2. b[l + 1] = buf[l]
      BY <1>4, <1>5, <3>1
    <3> QED
      BY <3>1, <3>2
  <2> QED
    BY <1>4, <2>1, <2>2
<1>8. M \in 1..Len(b) /\ b[M] = R
  BY <1>4, <1>5
<1>9. ASSUME NEW m \in Int, Reached(buf, m) PROVE Reached(b, m)
  <2>1. ASSUME NEW l \in 1..Len(buf), buf[l].bytes = {m} PROVE Reached(b, m)
    BY <1>7, <2>1 DEF Reached
  <2>2. CASE \A l \in 1..Len(buf) : \A x \in buf[l].bytes : m < x
    <3>1. ASSUME NEW j \in 1..Len(b), NEW x \in b[j].bytes PROVE m < x
      <4>1. CASE j = M /\ b[j] = R
        <5>1. M - 1 \in 1..Len(buf)
          BY <1>4
        <5>2. m < r - 1 /\ x = r
          BY <1>3, <2>2, <3>1, <4>1, <5>1
        <5> QED
          BY <1>3, <5>2
      <4>2. ASSUME NEW l \in 1..Len(buf), b[j] = buf[l] PROVE m < x
        BY <2>2, <3>1, <4>2
      <4> QED
        BY <1>6, <4>1, <4>2
    <3> QED
      BY <3>1 DEF Reached
  <2> QED
    BY <1>9, <2>1, <2>2 DEF Reached
<1>10. \A c \in 1..Len(fecs) : \A m \in fecs[c].bytes : m \in Int
  BY FecDisjoint
<1>11. ASSUME NEW j \in 1..Len(b), b[j].seq = 0, NEW x \in b[j].bytes
       PROVE  /\ x < GroupStart
              /\ \A c \in 1..Len(fecs) :
                   x \in fecs[c].bytes => \A m \in fecs[c].bytes : Reached(b, m)
  <2>1. CASE j = M /\ b[j] = R
    <3>1. x = r
      BY <1>3, <1>11, <2>1
    <3>2. ASSUME NEW c \in 1..Len(fecs), r \in fecs[c].bytes, NEW m \in fecs[c].bytes
          PROVE  Reached(b, m)
      <4>1. CASE m = r
        BY <1>3, <1>8, <4>1 DEF Reached
      <4>2. CASE m # r
        <5>1. \E l \in 1..Len(buf) : buf[l].bytes = {m}
          BY <1>1, <3>2, <4>2
        <5> QED
          BY <1>9, <1>10, <5>1 DEF Reached
      <4> QED
        BY <4>1, <4>2
    <3> QED
      BY <1>1, <3>1, <3>2
  <2>2. ASSUME NEW l \in 1..Len(buf), b[j] = buf[l]
        PROVE  /\ x < GroupStart
               /\ \A c \in 1..Len(fecs) :
                    x \in fecs[c].bytes => \A m \in fecs[c].bytes : Reached(b, m)
    BY <1>9, <1>10, <1>11, <2>2 DEF Whole
  <2> QED
    BY <1>6, <2>1, <2>2
<1> QED
  BY <1>11 DEF Whole, b

\* Numbers that grow along a sequence and leave none out stand side by side.
Rising(v, L) == /\ \A i \in 1..L : v[i] \in Int
                /\ \A i, j \in 1..L : i < j => v[i] < v[j]
NoneMissing(v, L, S) == \A y \in S : \E l \in 1..L : v[l] = y

LEMMA DenseUp ==
    ASSUME NEW L \in Nat, NEW v, Rising(v, L), NEW x \in 1..L, NEW d \in Nat,
           NoneMissing(v, L, v[x]..(v[x] + d))
    PROVE  \A e \in 0..d : x + e \in 1..L /\ v[x + e] = v[x] + e
<1> USE DEF Rising
<1> DEFINE S == {e \in 0..d : ~(x + e \in 1..L /\ v[x + e] = v[x] + e)}
<1> SUFFICES ASSUME S # {} PROVE FALSE
  OBVIOUS
<1>1. S \subseteq Nat
  OBVIOUS
<1>2. PICK e \in S : \A g \in S : e <= g
  BY <1>1, LeastNumber
<1>3. e \in 0..d /\ e \in Nat /\ ~(x + e \in 1..L /\ v[x + e] = v[x] + e) /\ v[x] \in Int
  OBVIOUS
<1>4. e # 0
  BY <1>3
<1>5. x + (e - 1) \in 1..L /\ v[x + (e - 1)] = v[x] + (e - 1)
  <2>1. e - 1 \in 0..d /\ ~(e <= e - 1)
    BY <1>3, <1>4
  <2> QED
    BY <1>2, <2>1
<1> HIDE DEF S
<1>6. PICK l \in 1..L : v[l] = v[x] + e
  <2>1. v[x] + e \in v[x]..(v[x] + d)
    BY <1>3
  <2> QED
    BY <2>1 DEF NoneMissing
<1> DEFINE y == x + (e - 1)
           z == x + e
<1>7. y \in 1..L /\ y \in Nat /\ z = y + 1 /\ v[y] < v[l] /\ l \in Nat
  BY <1>3, <1>5, <1>6
<1>8. v[z] = v[x] + e => ~(z \in 1..L)
  BY <1>3
<1>9. v[y] = v[x] + (e - 1)
  BY <1>5
<1> HIDE DEF y, z
<1>10. ~(l <= y)
  <2> SUFFICES ASSUME l <= y PROVE FALSE
    OBVIOUS
  <2>1. CASE l = y
    BY <1>7, <2>1
  <2>2. CASE l # y
    <3>1. l < y
      BY <1>7, <2>2
    <3>2. v[l] < v[y] /\ v[l] \in Int /\ v[y] \in Int
      BY <1>7, <3>1
    <3> QED
      BY <1>7, <3>2
  <2> QED
    BY <2>1, <2>2
<1>11. z \in 1..L /\ z <= l
  BY <1>7, <1>10
<1>12. z # l
  BY <1>6, <1>8, <1>11
<1>13. z < l /\ y < z
  BY <1>7, <1>11, <1>12
<1>14. v[z] < v[l] /\ v[y] < v[z] /\ v[z] \in Int /\ v[y] \in Int /\ v[l] \in Int
  BY <1>7, <1>11, <1>13
<1> QED
  BY <1>3, <1>6, <1>9, <1>14

LEMMA DenseDown ==
    ASSUME NEW L \in Nat, NEW v, Rising(v, L), NEW x \in 1..L, NEW d \in Nat,
           NoneMissing(v, L, (v[x] - d)..v[x])
    PROVE  \A e \in 0..d : x - e \in 1..L /\ v[x - e] = v[x] - e
<1> USE DEF Rising
<1> DEFINE S == {e \in 0..d : ~(x - e \in 1..L /\ v[x - e] = v[x] - e)}
<1> SUFFICES ASSUME S # {} PROVE FALSE
  OBVIOUS
<1>1. S \subseteq Nat
  OBVIOUS
<1>2. PICK e \in S : \A g \in S : e <= g
  BY <1>1, LeastNumber
<1>3. e \in 0..d /\ e \in Nat /\ ~(x - e \in 1..L /\ v[x - e] = v[x] - e) /\ v[x] \in Int
  OBVIOUS
<1>4. e # 0
  BY <1>3
<1>5. x - (e - 1) \in 1..L /\ v[x - (e - 1)] = v[x] - (e - 1)
  <2>1. e - 1 \in 0..d /\ ~(e <= e - 1)
    BY <1>3, <1>4
  <2> QED
    BY <1>2, <2>1
<1> HIDE DEF S
<1>6. PICK l \in 1..L : v[l] = v[x] - e
  <2>1. v[x] - e \in (v[x] - d)..v[x]
    BY <1>3
  <2> QED
    BY <2>1 DEF NoneMissing
<1> DEFINE y == x - (e - 1)
           z == x - e
<1>7. y \in 1..L /\ y \in Nat /\ z = y - 1 /\ v[l] < v[y] /\ l \in Nat /\ z \in Int
  BY <1>3, <1>5, <1>6
<1>8. v[z] = v[x] - e => ~(z \in 1..L)
  BY <1>3
<1>9. v[y] = v[x] - (e - 1)
  BY <1>5
<1> HIDE DEF y, z
<1>10. ~(y <= l)
  <2> SUFFICES ASSUME y <= l PROVE FALSE
    OBVIOUS
  <2>1. CASE l = y
    BY <1>7, <2>1
  <2>2. CASE l # y
    <3>1. y < l
      BY <1>7, <2>2
    <3>2. v[y] < v[l] /\ v[l] \in Int /\ v[y] \in Int
      BY <1>7, <3>1
    <3> QED
      BY <1>7, <3>2
  <2> QED
    BY <2>1, <2>2
<1>11. z \in 1..L /\ l <= z
  BY <1>7, <1>10
<1>12. z # l
  BY <1>6, <1>8, <1>11
<1>13. l < z /\ z < y
  BY <1>7, <1>11, <1>12
<1>14. v[l] < v[z] /\ v[z] < v[y] /\ v[z] \in Int /\ v[y] \in Int /\ v[l] \in Int
  BY <1>7, <1>11, <1>13
<1> QED
  BY <1>3, <1>6, <1>9, <1>14

\* A group that fits on both sides of the mark stays inside the buffer.
LEMMA NoFaults ==
    ASSUME NoWrap, MediaInv, NEW buf \in Seq(Packet), Len(buf) >= BufferSize,
           k > 1, k <= Delay + 1, k <= BufferSize - Delay + 1
    PROVE  ~Faults(buf)
<1> SUFFICES ASSUME Faults(buf) PROVE FALSE
  OBVIOUS
<1> DEFINE i == Target(buf) - Candidate(buf).base
<1>1. Candidates(buf) # {}
  BY DEF Faults
<1>2. i \in 0..(k - 1)
  BY <1>1, CandidateGroup
<1>3. /\ k \in Nat /\ Delay \in Nat /\ BufferSize \in Nat
      /\ Len(buf) \in Nat /\ DOMAIN buf = 1..Len(buf) /\ Mark(buf) = Len(buf) - Delay + 1
  BY MediaAssumption, LenProperties DEF MediaInv, TypeOK, Mark
<1>4. Others(buf) = (0..(k - 1)) \ {i}
  BY DEF Others
<1>5. \A u : Place(buf, u) = IF u < i THEN Mark(buf) - i + u ELSE Mark(buf) + u - i - 1
  BY DEF Place
<1> HIDE DEF i
<1>6. Others(buf) # {}
  <2>1. 0 \in 0..(k - 1) /\ 1 \in 0..(k - 1)
    BY <1>3
  <2> QED
    BY <1>4, <2>1
<1>7. ASSUME NEW u \in Others(buf) PROVE ~OutOfBuffer(buf, u)
  <2>1. u \in Nat /\ u <= k - 1 /\ u # i /\ i \in Nat /\ i <= k - 1
    BY <1>2, <1>3, <1>4
  <2>2. Place(buf, u) \in 1..Len(buf)
    <3>1. CASE u < i
      <4>1. Place(buf, u) = Mark(buf) - i + u
        BY <1>5, <3>1
      <4> QED
        BY <1>3, <2>1, <3>1, <4>1
    <3>2. CASE ~(u < i)
      <4>1. Place(buf, u) = Mark(buf) + u - i - 1
        BY <1>5, <3>2
      <4> QED
        BY <1>3, <2>1, <3>2, <4>1
    <3> QED
      BY <3>1, <3>2
  <2> QED
    BY <1>3, <2>2 DEF OutOfBuffer
<1> QED
  BY <1>6, <1>7 DEF Faults

\* Where recovery looks for offset u of a group whose offset i is missing.
Spot(buf, i, u) == IF u < i THEN Mark(buf) - i + u ELSE Mark(buf) + u - i - 1

\* Frame n is missing at the mark, and no other frame of a group of g anywhere.
Around(buf, n) == buf[Mark(buf)].bytes = {n + 1} /\ buf[Mark(buf) - 1].bytes = {n - 1}
AllBut(buf, n, a, g) ==
    \A m \in a..(a + g - 1) : m # n => \E l \in 1..Len(buf) : buf[l].bytes = {m}

\* The frames of the group stand side by side around the mark.
Settled(buf) == /\ Len(buf) >= BufferSize /\ \A j \in 1..Len(buf) : Genuine(buf[j])
                /\ BufOrder(buf, NoFrame)

LEMMA GroupPlaces ==
    ASSUME NEW buf \in Seq(Packet), Settled(buf), NEW n \in Nat, Around(buf, n),
           NEW a \in Nat, NEW g \in Nat, a <= n, n <= a + g - 1, AllBut(buf, n, a, g)
    PROVE  \A u \in 0..(g - 1) : u # n - a =>
              /\ Spot(buf, n - a, u) \in 1..Len(buf)
              /\ buf[Spot(buf, n - a, u)].bytes = {a + u}
<1> SUFFICES ASSUME NEW u \in 0..(g - 1), u # n - a
             PROVE  /\ Spot(buf, n - a, u) \in 1..Len(buf)
                    /\ buf[Spot(buf, n - a, u)].bytes = {a + u}
  OBVIOUS
<1> DEFINE L == Len(buf)
           M == Mark(buf)
           v == [j \in 1..L |-> CHOOSE x \in 1..Frames : buf[j].bytes = {x}]
           y == Spot(buf, n - a, u)
<1>1. M \in 2..L /\ L \in Nat /\ M \in Nat /\ M \in 1..L /\ M - 1 \in 1..L
  BY MarkInside DEF Settled
<1>2. ASSUME NEW j \in 1..L PROVE v[j] \in Int /\ buf[j].bytes = {v[j]}
  <2>1. \E x \in 1..Frames : buf[j].bytes = {x}
    BY DEF Settled, Genuine
  <2>2. v[j] = CHOOSE x \in 1..Frames : buf[j].bytes = {x}
    OBVIOUS
  <2>3. v[j] \in 1..Frames /\ buf[j].bytes = {v[j]}
    BY <2>1, <2>2
  <2> QED
    BY <2>3, MediaAssumption
<1> HIDE DEF v
<1>3. Rising(v, L)
  <2>1. ASSUME NEW w \in 1..L, NEW j \in 1..L, w < j PROVE v[w] < v[j]
    <3>1. v[w] \in buf[w].bytes /\ v[j] \in buf[j].bytes
      BY <1>2
    <3> QED
      BY <2>1, <3>1 DEF Settled, BufOrder, BeforePacket, Before, NoFrame
  <2> QED
    BY <1>2, <2>1 DEF Rising
<1>4. v[M] = n + 1 /\ v[M - 1] = n - 1
  BY <1>1, <1>2 DEF Around
<1>5. ASSUME NEW m \in a..(a + g - 1), m # n PROVE \E l \in 1..L : v[l] = m
  <2>1. PICK l \in 1..L : buf[l].bytes = {m}
    BY <1>5 DEF AllBut
  <2>2. v[l] = m
    BY <1>2, <2>1
  <2> QED
    BY <2>2
<1>6. y = IF u < n - a THEN M - (n - a) + u ELSE M + u - (n - a) - 1
  BY DEF Spot
<1>7. SUFFICES y \in 1..L /\ v[y] = a + u
  BY <1>2
<1> HIDE DEF L, M, y
<1>8. CASE u > n - a
  <2> DEFINE d == a + g - 1 - (n + 1)
             e == u - (n - a) - 1
  <2>1. d \in Nat /\ e \in 0..d
    BY <1>8
  <2>2. NoneMissing(v, L, v[M]..(v[M] + d))
    <3>1. ASSUME NEW m \in v[M]..(v[M] + d) PROVE m \in a..(a + g - 1) /\ m # n
      BY <1>4, <2>1
    <3> QED
      BY <1>5, <3>1 DEF NoneMissing
  <2>3. M + e = y /\ v[M] + e = a + u
    BY <1>1, <1>4, <1>6, <1>8
  <2> HIDE DEF d, e
  <2>4. M + e \in 1..L /\ v[M + e] = v[M] + e
    BY <1>1, <1>3, <2>1, <2>2, DenseUp
  <2> QED
    BY <2>3, <2>4
<1>9. CASE u < n - a
  <2> DEFINE d == n - 1 - a
             x == M - 1
             e == (n - a) - 1 - u
  <2>1. d \in Nat /\ e \in 0..d
    BY <1>9
  <2>2. NoneMissing(v, L, (v[x] - d)..v[x])
    <3>1. ASSUME NEW m \in (v[x] - d)..v[x] PROVE m \in a..(a + g - 1) /\ m # n
      BY <1>4, <2>1
    <3> QED
      BY <1>5, <3>1 DEF NoneMissing
  <2>3. x - e = y /\ v[x] - e = a + u /\ x \in 1..L
    BY <1>1, <1>4, <1>6, <1>9
  <2> HIDE DEF d, x, e
  <2>4. x - e \in 1..L /\ v[x - e] = v[x] - e
    BY <1>1, <1>3, <2>1, <2>2, <2>3, DenseDown
  <2> QED
    BY <2>3, <2>4
<1> QED
  BY <1>8, <1>9

LEMMA NoMiss ==
    ASSUME NoWrap, MediaInv, NEW buf \in Seq(Packet), Len(buf) >= BufferSize,
           \A j \in 1..Len(buf) : Genuine(buf[j]), BufOrder(buf, NoFrame),
           Whole(buf, fecs, GroupStart), Gap(buf) = 2,
           buf[Mark(buf)].seq # 0, buf[Mark(buf) - 1].seq # 0, k > 1,
           \E lost \in LoneLosses(buf) : Recoverable(buf, lost)
    PROVE  Recovers(buf)
<1> DEFINE M == Mark(buf)
<1>1. PICK q \in Nat : /\ buf[M].bytes = {q + 1} /\ buf[M - 1].bytes = {q - 1}
                       /\ Target(buf) = First + q - 1 /\ q >= 2 /\ q + 1 \in 1..Frames
  BY RepairNeighbours
<1>2. /\ fecs \in Seq(FecPacket) /\ DOMAIN fecs = 1..Len(fecs) /\ k \in Nat /\ k <= MaskBits
      /\ MaskBits \in Nat /\ First \in Nat /\ Frames \in Nat
      /\ DOMAIN buf = 1..Len(buf) /\ First >= 1
  <2>1. fecs \in Seq(FecPacket) /\ k \in FecK /\ First \in SeqNum /\ First >= 1
    BY MediaAssumption DEF MediaInv, TypeOK, NoWrap
  <2>2. DOMAIN fecs = 1..Len(fecs) /\ DOMAIN buf = 1..Len(buf)
    BY <2>1, LenProperties
  <2>3. k \in 1..MaskBits /\ MaskBits \in Nat /\ Frames \in Nat
    BY <2>1, MediaAssumption
  <2> QED
    BY <2>1, <2>2, <2>3, UtilityAssumption DEF SeqNum
<1>3. PICK c \in 1..Len(fecs), n \in 1..Frames :
         /\ n \in fecs[c].bytes /\ buf[M].bytes = {n + 1}
         /\ \A m \in fecs[c].bytes \ {n} : \E l \in 1..Len(buf) : buf[l].bytes = {m}
  <2>1. PICK n \in LoneLosses(buf), f \in Range(fecs) :
             /\ n \in f.bytes
             /\ \A m \in f.bytes \ {n} : \E p \in Range(buf) : p.bytes = {m}
    BY DEF Recoverable
  <2>2. PICK c \in 1..Len(fecs) : f = fecs[c]
    BY <1>2, <2>1 DEF Range
  <2>3. \A m : (\E p \in Range(buf) : p.bytes = {m}) => \E l \in 1..Len(buf) : buf[l].bytes = {m}
    BY <1>2 DEF Range
  <2>4. \A m \in f.bytes \ {n} : \E l \in 1..Len(buf) : buf[l].bytes = {m}
    BY <2>1, <2>3
  <2>5. n \in 1..Frames /\ buf[M].bytes = {n + 1}
    BY <2>1 DEF LoneLosses
  <2> QED
    BY <2>1, <2>2, <2>4, <2>5
<1>4. PICK a \in 1..Frames : /\ fecs[c].bytes = a..(a + k - 1) /\ fecs[c].base = First + a - 1
                             /\ a + k - 1 <= sent
  BY FecGroup
<1>5. n \in 1..Frames /\ n \in Nat /\ a \in Nat /\ a <= n /\ n <= a + k - 1
  BY <1>2, <1>3, <1>4
<1>6. n = q
  <2>1. n + 1 = q + 1
    BY <1>1, <1>3
  <2> QED
    BY <1>1, <1>5, <2>1
<1>7. M \in 1..Len(buf) /\ M - 1 \in 1..Len(buf) /\ M \in Nat /\ Len(buf) \in Nat
  BY MarkInside
<1>8. ~Reached(buf, n)
  <2>1. ASSUME NEW l \in 1..Len(buf), buf[l].bytes = {n} PROVE FALSE
    <3>1. n \in buf[l].bytes /\ n + 1 \in buf[M].bytes /\ n - 1 \in buf[M - 1].bytes
      BY <1>1, <1>6, <2>1
    <3>2. l < M - 1 \/ l = M - 1 \/ l = M \/ M < l
      BY <1>7
    <3>3. CASE l < M - 1
      <4>1. n < n - 1
        BY <1>7, <3>1, <3>3 DEF BufOrder, BeforePacket, Before, NoFrame
      <4> QED
        BY <1>5, <4>1
    <3>4. CASE M < l
      <4>1. n + 1 < n
        BY <1>7, <3>1, <3>4 DEF BufOrder, BeforePacket, Before, NoFrame
      <4> QED
        BY <1>5, <4>1
    <3>5. CASE l = M - 1 \/ l = M
      <4>1. n = n - 1 \/ n = n + 1
        BY <1>1, <1>6, <2>1, <3>5
      <4> QED
        BY <1>5, <4>1
    <3> QED
      BY <3>2, <3>3, <3>4, <3>5
  <2>2. ~(n < n - 1) /\ n - 1 \in buf[M - 1].bytes
    BY <1>1, <1>5, <1>6
  <2> QED
    BY <1>7, <2>1, <2>2 DEF Reached
<1>9. c \in Candidates(buf)
  <2>1. /\ fecs[c].base <= Target(buf) /\ Target(buf) <= fecs[c].base + MaskBits
        /\ Target(buf) - fecs[c].base < k /\ Target(buf) - fecs[c].base = n - a
    BY <1>1, <1>2, <1>4, <1>5, <1>6
  <2> QED
    BY <1>2, <2>1 DEF Candidates, Covers
<1>10. PICK d \in 1..Len(fecs), b \in 1..Frames :
             /\ Candidate(buf) = fecs[d]
             /\ fecs[d].bytes = b..(b + k - 1) /\ fecs[d].base = First + b - 1
             /\ Target(buf) - Candidate(buf).base \in 0..(k - 1)
  BY <1>9, CandidateGroup
<1>11. d = c
  <2>1. Target(buf) - (First + b - 1) \in 0..(k - 1) /\ b \in Nat
    BY <1>2, <1>10
  <2>2. n \in b..(b + k - 1)
    BY <1>1, <1>2, <1>5, <1>6, <2>1
  <2> QED
    BY <1>3, <1>10, <2>2, FecDisjoint
<1>12. Candidate(buf).base = First + a - 1 /\ Target(buf) - Candidate(buf).base = n - a
  <2>1. Candidate(buf).base = First + a - 1
    BY <1>4, <1>10, <1>11
  <2>2. Target(buf) = First + n - 1
    BY <1>1, <1>6
  <2>3. (First + n - 1) - (First + a - 1) = n - a
    BY <1>2, <1>5
  <2> QED
    BY <2>1, <2>2, <2>3
<1>13. \A u \in 0..(k - 1) : u # n - a =>
             Place(buf, u) \in 1..Len(buf) /\ buf[Place(buf, u)].bytes = {a + u}
  <2>1. Around(buf, n) /\ AllBut(buf, n, a, k)
    BY <1>1, <1>3, <1>4, <1>6 DEF Around, AllBut
  <2>2. \A u \in 0..(k - 1) : u # n - a =>
              /\ Spot(buf, n - a, u) \in 1..Len(buf)
              /\ buf[Spot(buf, n - a, u)].bytes = {a + u}
    <3>1. Settled(buf)
      BY DEF Settled
    <3>2. k \in Nat /\ n \in Nat /\ a \in Nat /\ a <= n /\ n <= a + k - 1
      BY <1>2, <1>5
    <3> QED
      BY <2>1, <3>1, <3>2, GroupPlaces
  <2>3. \A u : Place(buf, u) = Spot(buf, n - a, u)
    BY <1>12 DEF Place, Spot
  <2> QED
    BY <2>2, <2>3
<1>14. Others(buf) = (0..(k - 1)) \ {n - a}
  BY <1>12 DEF Others
<1>15. ASSUME NEW u \in Others(buf) PROVE ~OutOfBuffer(buf, u) /\ ~Differs(buf, u)
  <2> DEFINE y == Place(buf, u)
  <2>1. y \in 1..Len(buf) /\ buf[y].bytes = {a + u} /\ u \in 0..(k - 1)
    BY <1>13, <1>14
  <2>2. a + u \in fecs[c].bytes /\ u \in Nat
    BY <1>2, <1>4, <1>5, <2>1
  <2>3. buf[y].seq # 0
    <3> SUFFICES ASSUME buf[y].seq = 0 PROVE FALSE
      OBVIOUS
    <3>1. a + u \in buf[y].bytes
      BY <2>1
    <3>2. Reached(buf, n)
      BY <1>3, <2>1, <2>2, <3>1 DEF Whole
    <3> QED
      BY <1>8, <3>2
  <2>4. Genuine(buf[y])
    BY <2>1
  <2>5. PICK m \in 1..Frames : buf[y].bytes = {m} /\ buf[y].seq = SeqNumOf(m)
    BY <2>3, <2>4 DEF Genuine
  <2>6. m = a + u /\ SeqNumOf(m) = First + m - 1
    BY <2>1, <2>5, Numbers
  <2>7. buf[y].seq = Candidate(buf).base + u
    <3>1. First + (a + u) - 1 = (First + a - 1) + u
      BY <1>2, <1>5, <2>2
    <3> QED
      BY <1>12, <2>5, <2>6, <3>1
  <2> QED
    BY <1>2, <2>1, <2>7 DEF OutOfBuffer, Differs
<1>16. Others(buf) # {}
  <2>1. 0 \in 0..(k - 1) /\ 1 \in 0..(k - 1)
    BY <1>2
  <2>2. 0 # n - a \/ 1 # n - a
    OBVIOUS
  <2>3. 0 \in Others(buf) \/ 1 \in Others(buf)
    BY <1>14, <2>1, <2>2
  <2> QED
    BY <2>3
<1>17. Candidates(buf) # {} /\ ~Faults(buf)
  BY <1>9, <1>15, <1>16, Zenon DEF Faults
<1> QED
  BY <1>15, <1>17, Zenon DEF Recovers

\* A lone loss is a gap of two for the code.
LEMMA LoneGap ==
    ASSUME NoWrap, MediaInv, NEW buf \in Seq(Packet), Len(buf) >= BufferSize,
           \A j \in 1..Len(buf) : Genuine(buf[j]),
           buf[Mark(buf)].seq # 0, buf[Mark(buf) - 1].seq # 0, NEW n \in LoneLosses(buf)
    PROVE  Gap(buf) = 2
<1>1. Mark(buf) \in 1..Len(buf) /\ Mark(buf) - 1 \in 1..Len(buf)
  BY MarkInside
<1>2. n \in 1..Frames /\ buf[Mark(buf)].bytes = {n + 1} /\ buf[Mark(buf) - 1].bytes = {n - 1}
  BY DEF LoneLosses
<1>3. PICK y \in 1..Frames : buf[Mark(buf)].bytes = {y} /\ buf[Mark(buf)].seq = SeqNumOf(y)
  BY <1>1 DEF Genuine
<1>4. PICK x \in 1..Frames : buf[Mark(buf) - 1].bytes = {x} /\ buf[Mark(buf) - 1].seq = SeqNumOf(x)
  BY <1>1 DEF Genuine
<1>5. y = n + 1 /\ x = n - 1
  BY <1>2, <1>3, <1>4
<1>6. SeqNumOf(x) = First + x - 1 /\ First \in Nat /\ x \in Nat
  BY Numbers
<1>7. SeqNumOf(y) = First + y - 1 /\ n \in Nat
  <2>1. SeqNumOf(y) = First + y - 1
    BY Numbers
  <2> QED
    BY <1>2, <2>1, MediaAssumption
<1> QED
  BY <1>3, <1>4, <1>5, <1>6, <1>7 DEF Gap

Fits == k > 1 /\ k <= Delay + 1 /\ k <= BufferSize - Delay + 1

RecoverInv ==
    /\ OrderInv
    /\ held = NoFrame => Whole(incoming, fecs, GroupStart)
    /\ held = NoFrame /\ Fits => verdict \notin {"missed", "fault"}

LEMMA ReceiveMediaWhole ==
    ASSUME NoWrap, RecoverInv, held = NoFrame, NEW n \in 1..Frames, n = sent + 1,
           ReceiveMedia(PacketOf(n)), shown' = shown
    PROVE  /\ Whole(incoming', fecs, GroupStart)
           /\ Fits => verdict' \notin {"missed", "fault"}
<1> USE MediaAssumption
<1> DEFINE p == PacketOf(n)
           out == Queue(shown, frames)
<1>1. /\ OrderInv /\ MediaInv /\ TypeOK /\ LineOK(out, incoming, NoFrame, sent)
      /\ Fresh(incoming) /\ Whole(incoming, fecs, GroupStart)
      /\ Fits => verdict \notin {"missed", "fault"}
  BY DEF RecoverInv, OrderInv, MediaInv
<1>2. /\ incoming \in Seq(Packet) /\ frames \in Seq(Bytes) /\ shown \in Bytes
      /\ sent \in Nat /\ Len(incoming) \in Nat
  BY <1>1, LenProperties DEF TypeOK, Bytes
<1>3. p \in Packet /\ p.seq # 0 /\ p.bytes = {n} /\ n \in Nat
  BY SeqNumOfType, Numbers DEF PacketOf
<1>4. out \in Seq(Bytes)
  BY <1>2, QueueShape
<1> HIDE DEF out
<1>5. LineOK(out, With(p), NoFrame, n)
  BY <1>1, <1>2, <1>3, <1>4, LineAppend DEF With, NoFrame
<1> HIDE DEF p
<1>6. /\ With(p) \in Seq(Packet) /\ Fresh(With(p))
      /\ Len(With(p)) >= BufferSize => /\ With(p)[Mark(With(p))].seq # 0
                                      /\ With(p)[Mark(With(p)) - 1].seq # 0
  BY <1>1, <1>2, <1>3, FreshAppend DEF With
<1>7. Whole(With(p), fecs, GroupStart)
  <2>1. ASSUME NEW c \in 1..Len(fecs), NEW m \in fecs[c].bytes, NEW x \in p.bytes PROVE m < x
    <3>1. PICK a \in 1..Frames : fecs[c].bytes = a..(a + k - 1) /\ a + k - 1 <= sent
      BY <1>1, FecGroup
    <3>2. k \in Nat
      BY <1>1 DEF TypeOK
    <3> QED
      BY <1>2, <1>3, <2>1, <3>1, <3>2
  <2> QED
    BY <1>1, <1>2, <1>3, <2>1, WholeAppend DEF With
<1>8. CASE DropInvalid(p)
  BY <1>1, <1>8 DEF DropInvalid
<1>9. CASE FillBuffer(p)
  BY <1>1, <1>7, <1>9 DEF FillBuffer, With
<1> DEFINE buf == With(p)
<1>10. CASE Fault(p)
  <2>1. buf \in Seq(Packet) /\ Len(buf) >= BufferSize /\ Faults(buf) /\ incoming' = buf
    BY <1>6, <1>10 DEF Fault, With
  <2>2. ~Fits
    BY <1>1, <2>1, NoFaults DEF Fits
  <2> QED
    BY <1>7, <2>1, <2>2
<1>11. CASE Advance(p)
  <2> DEFINE full == Passed(buf)
  <2>1. Len(buf) >= BufferSize /\ buf \in Seq(Packet) /\ full \in Seq(Packet)
    BY <1>2, <1>3, <1>11, AdvanceShape
  <2>2. /\ incoming' = Tail(full)
        /\ verdict' = IF LoneLosses(buf) = {} THEN verdict
                      ELSE IF Gap(buf) = 2 /\ Recovers(buf) THEN "recovered"
                      ELSE IF \E m \in LoneLosses(buf) : Recoverable(buf, m) THEN "missed"
                                                                         ELSE "hopeless"
    BY <1>11 DEF Advance, Passed, With
  <2>3. full = IF Gap(buf) = 2 /\ Recovers(buf) THEN Repaired(buf) ELSE buf
    BY DEF Passed
  <2>4. /\ LineOK(out, buf, NoFrame, n) /\ Whole(buf, fecs, GroupStart)
        /\ buf[Mark(buf)].seq # 0 /\ buf[Mark(buf) - 1].seq # 0
    BY <1>5, <1>6, <1>7, <2>1
  <2> HIDE DEF buf, full
  <2>5. (\A j \in 1..Len(buf) : Genuine(buf[j])) /\ BufOrder(buf, NoFrame)
    BY <2>4 DEF LineOK, Packets
  <2>6. Whole(full, fecs, GroupStart) /\ BufOrder(full, NoFrame) /\ full # <<>>
    <3>1. CASE Gap(buf) = 2 /\ Recovers(buf)
      <4>1. full = Repaired(buf)
        BY <2>3, <3>1
      <4>2. LineOK(out, Repaired(buf), NoFrame, n)
        <5>1. NoFrame \in Nat /\ sent <= n
          BY <1>2 DEF NoFrame
        <5> QED
          BY <1>1, <1>3, <1>4, <2>1, <2>4, <3>1, <5>1, LineRepair
      <4>3. Whole(Repaired(buf), fecs, GroupStart)
        BY <1>1, <2>1, <2>4, <2>5, <3>1, WholeRepair
      <4>4. Len(Repaired(buf)) = Len(buf) + 1 /\ Len(buf) \in Nat
        BY <2>1, RepairedProperties, LenProperties
      <4>5. full # <<>>
        BY <4>1, <4>4
      <4> QED
        BY <4>1, <4>2, <4>3, <4>5 DEF LineOK
    <3>2. CASE ~(Gap(buf) = 2 /\ Recovers(buf))
      <4>1. full = buf
        BY <2>3, <3>2
      <4>2. full # <<>>
        BY <2>1, <4>1
      <4> QED
        BY <2>4, <2>5, <4>1, <4>2
    <3> QED
      BY <3>1, <3>2
  <2>7. Whole(incoming', fecs, GroupStart)
    BY <2>1, <2>2, <2>6, WholePop
  <2>8. ASSUME Fits PROVE verdict' \notin {"missed", "fault"}
    <3>1. verdict \notin {"missed", "fault"}
      BY <1>1, <2>8
    <3>2. CASE \E m \in LoneLosses(buf) : Recoverable(buf, m)
      <4>1. Gap(buf) = 2
        BY <1>1, <2>1, <2>4, <2>5, <3>2, LoneGap
      <4>2. Recovers(buf)
        BY <1>1, <2>1, <2>4, <2>5, <2>8, <3>2, <4>1, NoMiss DEF Fits
      <4> QED
        BY <2>2, <3>2, <4>1, <4>2
    <3>3. CASE ~\E m \in LoneLosses(buf) : Recoverable(buf, m)
      BY <2>2, <3>1, <3>3
    <3> QED
      BY <3>2, <3>3
  <2> QED
    BY <2>7, <2>8
<1> QED
  BY <1>8, <1>9, <1>10, <1>11 DEF ReceiveMedia, p

\* The FEC buffer changes by an FEC packet of the group just completed.
LEMMA SendFecs ==
    ASSUME MediaInv, NEW mediaFate, NEW fecFate, SendNextPacket(mediaFate, fecFate)
    PROVE  /\ GroupStart \in Int /\ GroupStart' \in Int /\ GroupStart <= GroupStart'
           /\ \A c \in 1..Len(fecs') : \/ \E d \in 1..Len(fecs) : fecs'[c] = fecs[d]
                                      \/ \A m \in fecs'[c].bytes : GroupStart <= m
<1> DEFINE n == sent + 1
<1>1. TypeOK /\ GenOK
  BY DEF MediaInv
<1>2. /\ sent < Frames /\ sent' = n /\ gen' = NextGen(n) /\ k' = k
      /\ IF GroupComplete THEN SendFec(n, fecFate) ELSE UNCHANGED <<fecSeq, fecUtil, fecs>>
  BY DEF SendNextPacket
<1>3. k \in Nat /\ k >= 1 /\ gen.left \in 1..k /\ fecs \in Seq(FecPacket) /\ Frames \in Nat
  BY <1>1, MediaAssumption DEF TypeOK
<1>4. /\ sent \in Nat /\ GroupStart \in 1..n /\ n \in 1..Frames
      /\ GenBytes(n) = GroupStart..n /\ GenBase(SeqNumOf(n)) \in SeqNum
  BY <1>1, <1>2, GroupGrows
<1>5. GroupStart \in Int /\ GroupStart' \in Int /\ GroupStart <= GroupStart'
  <2>1. gen'.left = k \/ gen'.left = gen.left - 1
    BY <1>2 DEF NextGen
  <2>2. GroupStart' = n - (k - gen'.left) + 1 /\ GroupStart = sent - (k - gen.left) + 1
    BY <1>2 DEF GroupStart, Collected
  <2>3. \A s, c, l, m \in Int : l <= c /\ (m = c \/ m = l - 1)
                                  => s - (c - l) + 1 <= (s + 1) - (c - m) + 1
    OBVIOUS
  <2>4. k \in Int /\ gen.left \in Int /\ gen'.left \in Int /\ sent \in Int /\ gen.left <= k
    BY <1>3, <1>4, <2>1
  <2>5. GroupStart \in Int /\ GroupStart' \in Int
    BY <2>2, <2>4
  <2> QED
    BY <2>1, <2>2, <2>3, <2>4, <2>5
<1>6. ASSUME NEW c \in 1..Len(fecs')
      PROVE  \/ \E d \in 1..Len(fecs) : fecs'[c] = fecs[d]
             \/ \A m \in fecs'[c].bytes : GroupStart <= m
  <2>1. CASE fecs' = fecs
    BY <2>1
  <2>2. CASE fecs' # fecs
    <3> DEFINE f == [base |-> GenBase(SeqNumOf(n)), bytes |-> GenBytes(n)]
               g == Append(fecs, f)
    <3>1. ReceiveFec(f, fecSeq)
      BY <1>2, <2>2 DEF SendFec
    <3>2. fecs' = g \/ fecs' = Tail(g) \/ (fecs' = Tail(fecs) /\ Len(fecs) > BufferSize)
      <4> DEFINE kept == IF Valid(fecUtil, fecSeq) THEN g ELSE fecs
      <4>1. fecs' = IF Len(kept) > BufferSize THEN Tail(kept) ELSE kept
        BY <3>1 DEF ReceiveFec
      <4>2. kept = g \/ kept = fecs
        OBVIOUS
      <4> HIDE DEF kept, g
      <4> QED
        BY <2>2, <4>1, <4>2
    <3>3. f \in FecPacket /\ \A m \in f.bytes : GroupStart <= m
      <4>1. GenBytes(n) \in SUBSET (1..Frames)
        BY <1>3, <1>4
      <4> QED
        BY <1>4, <4>1 DEF FecPacket
    <3> HIDE DEF f
    <3>4. /\ g \in Seq(FecPacket) /\ g # <<>> /\ Len(g) = Len(fecs) + 1 /\ Len(fecs) \in Nat
          /\ g[Len(fecs) + 1] = f /\ \A d \in 1..Len(fecs) : g[d] = fecs[d]
      BY <1>3, <3>3, AppendProperties, LenProperties
    <3> HIDE DEF g
    <3>5. \A d \in 1..Len(g) : \/ \E e \in 1..Len(fecs) : g[d] = fecs[e]
                               \/ \A m \in g[d].bytes : GroupStart <= m
      <4> SUFFICES ASSUME NEW d \in 1..Len(g)
                   PROVE  \/ \E e \in 1..Len(fecs) : g[d] = fecs[e]
                          \/ \A m \in g[d].bytes : GroupStart <= m
        OBVIOUS
      <4>1. d = Len(fecs) + 1 \/ d \in 1..Len(fecs)
        BY <3>4
      <4> QED
        BY <3>3, <3>4, <4>1
    <3>6. CASE fecs' = g
      BY <3>5, <3>6
    <3>7. CASE fecs' = Tail(g)
      <4>1. c + 1 \in 1..Len(g) /\ fecs'[c] = g[c + 1]
        BY <3>4, <3>7, HeadTailProperties
      <4> QED
        BY <3>5, <4>1
    <3>8. CASE fecs' = Tail(fecs) /\ Len(fecs) > BufferSize
      <4>1. fecs # <<>>
        BY <3>8
      <4>2. c + 1 \in 1..Len(fecs) /\ fecs'[c] = fecs[c + 1]
        BY <1>3, <3>4, <3>8, <4>1, HeadTailProperties
      <4> QED
        BY <4>2
    <3> QED
      BY <3>2, <3>6, <3>7, <3>8
  <2> QED
    BY <2>1, <2>2
<1> QED
  BY <1>5, <1>6

LEMMA RecoverStep ==
    ASSUME NoWrap
    PROVE  RecoverInv /\ [Next]_vars => RecoverInv'
<1> SUFFICES ASSUME RecoverInv, [Next]_vars PROVE RecoverInv'
  OBVIOUS
<1>1. OrderInv /\ MediaInv
  BY DEF RecoverInv, OrderInv
<1>2. OrderInv' /\ MediaInv'
  <2>1. OrderInv'
    BY <1>1, OrderStep
  <2> QED
    BY <2>1 DEF OrderInv
<1>3. incoming' \in Seq(Packet)
  BY <1>2 DEF MediaInv, TypeOK
<1>4. ASSUME NEW mediaFate \in MediaFate, NEW fecFate \in FecFate,
             SendNextPacket(mediaFate, fecFate), held' = NoFrame
      PROVE  /\ Whole(incoming', fecs', GroupStart')
             /\ Fits => verdict' \notin {"missed", "fault"}
  <2> DEFINE n == sent + 1
  <2>1. SendMedia(n, mediaFate) /\ shown' = shown /\ sent \in Nat /\ n \in 1..Frames
    BY <1>1, <1>4, MediaAssumption DEF SendNextPacket, MediaInv, TypeOK
  <2>2. mediaFate \notin {"held", "copied"} /\ held = NoFrame
    BY <1>4, <2>1 DEF SendMedia, NoFrame
  <2>3. Whole(incoming, fecs, GroupStart) /\ (Fits => verdict \notin {"missed", "fault"})
    BY <2>2 DEF RecoverInv
  <2>4. Whole(incoming', fecs, GroupStart) /\ (Fits => verdict' \notin {"missed", "fault"})
    <3>1. CASE mediaFate = "received"
      <4>1. ReceiveMedia(PacketOf(n))
        BY <2>1, <3>1 DEF SendMedia
      <4> QED
        BY <2>1, <2>2, <4>1, ReceiveMediaWhole
    <3>2. CASE mediaFate # "received"
      <4>1. UNCHANGED <<util, incoming, frames, corrected, uncorrectable, verdict>>
        BY <2>1, <2>2, <3>2 DEF SendMedia
      <4> QED
        BY <2>3, <4>1
    <3> QED
      BY <3>1, <3>2
  <2>5. /\ GroupStart \in Int /\ GroupStart' \in Int /\ GroupStart <= GroupStart'
        /\ \A c \in 1..Len(fecs') : \/ \E d \in 1..Len(fecs) : fecs'[c] = fecs[d]
                                    \/ \A m \in fecs'[c].bytes : GroupStart <= m
    BY <1>1, <1>4, SendFecs
  <2>6. Whole(incoming', fecs', GroupStart')
    BY <1>3, <2>4, <2>5, WholeFec
  <2> QED
    BY <2>4, <2>6
<1>5. ASSUME NEW mediaFate \in MediaFate, NEW fecFate \in FecFate,
             SendNextPacket(mediaFate, fecFate)
      PROVE  RecoverInv'
  <2>1. k' = k
    BY <1>5 DEF SendNextPacket
  <2> QED
    BY <1>2, <1>4, <1>5, <2>1 DEF RecoverInv, Whole, Reached, Fits
<1>6. CASE DeliverHeld
  <2>1. held' # NoFrame
    BY <1>1, <1>6, MediaAssumption DEF DeliverHeld, MediaInv, HeldOK, TypeOK, NoFrame
  <2> QED
    BY <1>2, <2>1 DEF RecoverInv
<1>7. CASE DisplayNextFrame
  <2>1. UNCHANGED <<k, sent, gen, incoming, fecs, held, verdict>>
    BY <1>7 DEF DisplayNextFrame
  <2>2. GroupStart' = GroupStart /\ (Fits' <=> Fits)
    BY <2>1 DEF GroupStart, Collected, Fits
  <2>3. held' = NoFrame => Whole(incoming', fecs', GroupStart')
    BY <2>1, <2>2 DEF RecoverInv
  <2>4. held' = NoFrame /\ Fits' => verdict' \notin {"missed", "fault"}
    BY <2>1, <2>2 DEF RecoverInv
  <2> QED
    BY <1>2, <2>3, <2>4 DEF RecoverInv, Whole, Reached
<1>8. CASE UNCHANGED vars
  <2>1. UNCHANGED <<k, sent, gen, incoming, fecs, held, verdict>>
    BY <1>8 DEF vars
  <2>2. GroupStart' = GroupStart /\ (Fits' <=> Fits)
    BY <2>1 DEF GroupStart, Collected, Fits
  <2>3. held' = NoFrame => Whole(incoming', fecs', GroupStart')
    BY <2>1, <2>2 DEF RecoverInv
  <2>4. held' = NoFrame /\ Fits' => verdict' \notin {"missed", "fault"}
    BY <2>1, <2>2 DEF RecoverInv
  <2> QED
    BY <1>2, <2>3, <2>4 DEF RecoverInv, Whole, Reached
<1> QED
  BY <1>5, <1>6, <1>7, <1>8 DEF Next

\* As long as no packet came late or twice, recover_packet_by_fec rebuilds
\* every lost frame whose two neighbours meet at the mark of a full buffer and
\* whose FEC packet and group were received, and never reaches outside the
\* deque, for groups that fit around the mark: earlier recoveries, whose packets
\* have no number, do not stand in the way.
THEOREM MediaRecoversLoneLosses ==
    ASSUME NoWrap
    PROVE  Spec => []RecoversLoneLosses
<1>1. Init => RecoverInv
  <2> SUFFICES ASSUME Init PROVE RecoverInv
    OBVIOUS
  <2>1. OrderInv
    BY OrderInit
  <2>2. Len(incoming) = 0 /\ verdict = "none"
    BY DEF Init
  <2> QED
    BY <2>1, <2>2 DEF RecoverInv, Whole
<1>2. RecoverInv => RecoversLoneLosses
  BY DEF RecoverInv, RecoversLoneLosses, Fits
<1> QED
  BY <1>1, <1>2, RecoverStep, PTL DEF Spec

-----------------------------------------------------------------------------
(* The statistics.  Every packet but the first Delay - 1 from the end has  *)
(* passed the mark, and with it the gap before it: the packets that passed *)
(* and the gaps that were counted have different sequence numbers.         *)

\* Numbers that grow along a sequence grow by one per place at least.
LEMMA RisingGap ==
    ASSUME NEW L \in Nat, NEW v, Rising(v, L), NEW x \in 1..L, NEW y \in 1..L, x <= y
    PROVE  y - x <= v[y] - v[x]
<1> DEFINE S == {e \in 0..(L - x) : ~(e <= v[x + e] - v[x])}
<1>1. S = {}
  <2> SUFFICES ASSUME S # {} PROVE FALSE
    OBVIOUS
  <2>1. S \subseteq Nat
    OBVIOUS
  <2>2. PICK e \in S : \A g \in S : e <= g
    BY <2>1, LeastNumber
  <2>3. e \in 0..(L - x) /\ e \in Nat /\ ~(e <= v[x + e] - v[x]) /\ v[x] \in Int
    BY DEF Rising
  <2>4. e # 0
    <3>1. x + 0 = x /\ v[x] - v[x] = 0
      BY <2>3
    <3> QED
      BY <2>3, <3>1
  <2>5. e - 1 <= v[x + (e - 1)] - v[x]
    <3>1. e - 1 \in 0..(L - x) /\ ~(e <= e - 1)
      BY <2>3, <2>4
    <3> QED
      BY <2>2, <3>1
  <2> HIDE DEF S
  <2> DEFINE i == x + (e - 1)
             j == x + e
  <2>6. i \in 1..L /\ j \in 1..L /\ i < j
    BY <2>3, <2>4
  <2>7. e - 1 <= v[i] - v[x] /\ ~(e <= v[j] - v[x])
    BY <2>3, <2>5
  <2> HIDE DEF i, j
  <2>8. v[i] < v[j] /\ v[i] \in Int /\ v[j] \in Int
    BY <2>6 DEF Rising
  <2> QED
    BY <2>3, <2>7, <2>8
<1>2. y - x \in 0..(L - x) /\ x + (y - x) = y
  OBVIOUS
<1>3. y - x <= v[x + (y - x)] - v[x]
  BY <1>1, <1>2
<1> QED
  BY <1>2, <1>3

LEMMA SeqGap ==
    ASSUME NoWrap, NEW buf \in Seq(Packet), \A j \in 1..Len(buf) : Genuine(buf[j]),
           BufOrder(buf, NoFrame), NEW x \in 1..Len(buf), NEW y \in 1..Len(buf), x <= y,
           buf[x].seq # 0, buf[y].seq # 0
    PROVE  y - x <= buf[y].seq - buf[x].seq
<1> DEFINE L == Len(buf)
           v == [j \in 1..L |-> CHOOSE n \in 1..Frames : buf[j].bytes = {n}]
<1>1. L \in Nat
  BY LenProperties
<1>2. ASSUME NEW j \in 1..L
      PROVE  /\ v[j] \in 1..Frames /\ v[j] \in Int /\ buf[j].bytes = {v[j]}
             /\ buf[j].seq # 0 => buf[j].seq = First + v[j] - 1
  <2>1. PICK n \in 1..Frames : buf[j].bytes = {n} /\ buf[j].seq \in {SeqNumOf(n), 0}
    BY DEF Genuine
  <2>2. v[j] = CHOOSE m \in 1..Frames : buf[j].bytes = {m}
    OBVIOUS
  <2>3. v[j] \in 1..Frames /\ buf[j].bytes = {v[j]}
    BY <2>1, <2>2
  <2>4. v[j] = n
    BY <2>1, <2>3
  <2>5. SeqNumOf(n) = First + n - 1 /\ n \in Nat
    BY Numbers
  <2> QED
    BY <2>1, <2>3, <2>4, <2>5
<1> HIDE DEF v
<1>3. Rising(v, L)
  <2>1. ASSUME NEW w \in 1..L, NEW j \in 1..L, w < j PROVE v[w] < v[j]
    <3>1. v[w] \in buf[w].bytes /\ v[j] \in buf[j].bytes
      BY <1>2
    <3> QED
      BY <2>1, <3>1 DEF BufOrder, BeforePacket, Before, NoFrame
  <2> QED
    BY <1>2, <2>1 DEF Rising
<1>4. x \in 1..L /\ y \in 1..L
  OBVIOUS
<1> HIDE DEF L
<1>5. y - x <= v[y] - v[x]
  BY <1>1, <1>3, <1>4, RisingGap
<1>6. /\ buf[x].seq = First + v[x] - 1 /\ buf[y].seq = First + v[y] - 1
      /\ v[x] \in Int /\ v[y] \in Int
  BY <1>2, <1>4
<1>7. First \in Nat /\ x \in Int /\ y \in Int
  BY <1>1, <1>4, MediaAssumption, UtilityAssumption DEF SeqNum
<1> QED
  BY <1>5, <1>6, <1>7

\* The next packet of a stream that is past its probation.
LEMMA NextCounted ==
    ASSUME NEW u \in Utility, u.probation = 0, NEW seq \in SeqNum,
           u.max < seq, seq - u.max < MaxDropout
    PROVE  /\ Accepts(u, seq) /\ UpdateSeq(u, seq) \in Utility
           /\ UpdateSeq(u, seq).received = u.received + 1 /\ UpdateSeq(u, seq).base = u.base
           /\ UpdateSeq(u, seq).max = seq /\ UpdateSeq(u, seq).cycles = u.cycles
           /\ UpdateSeq(u, seq).probation = 0
<1> USE UtilityAssumption
<1>1. u.max \in SeqNum /\ u.max \in Nat /\ seq \in Nat /\ Mod \in Nat /\ seq < Mod
  BY DEF Utility, SeqNum
<1>2. Udelta(seq, u.max) = seq - u.max
  BY <1>1 DEF Udelta, Wrap
<1>3. InWindow(u, seq) /\ ~InProbation(u) /\ ~Jumped(u, seq)
  BY <1>2 DEF InWindow, InProbation, Jumped
<1>4. UpdateSeq(u, seq) = Counted([u EXCEPT !.max = seq, !.cycles = IF seq < u.max THEN @ + Mod ELSE @])
  BY <1>3 DEF UpdateSeq
<1>5. ~(seq < u.max)
  BY <1>1
<1> QED
  BY <1>3, <1>4, <1>5, UpdateType DEF Accepts, Counted, Utility

\* During probation.
LEMMA NextProbed ==
    ASSUME NEW u \in Utility, u.probation # 0, NEW seq \in SeqNum
    PROVE  /\ ~Accepts(u, seq) => UpdateSeq(u, seq).probation # 0
           /\ Accepts(u, seq) => /\ UpdateSeq(u, seq).received = 1 /\ UpdateSeq(u, seq).base = seq
                                 /\ UpdateSeq(u, seq).max = seq /\ UpdateSeq(u, seq).cycles = 0
                                 /\ UpdateSeq(u, seq).probation = 0
<1> USE UtilityAssumption
<1>1. InProbation(u) /\ u.probation \in Nat /\ MinSequential \in Nat /\ MinSequential >= 2
  BY DEF InProbation, Utility
<1>2. Accepts(u, seq) <=> LastOfProbation(u, seq)
  BY <1>1 DEF Accepts
<1>3. CASE LastOfProbation(u, seq)
  <2>1. UpdateSeq(u, seq) = Counted(InitSeq([u EXCEPT !.probation = 0], seq))
    BY <1>1, <1>3 DEF UpdateSeq
  <2> QED
    BY <1>2, <1>3, <2>1 DEF Counted, InitSeq, Utility
<1>4. CASE ~LastOfProbation(u, seq)
  <2>1. UpdateSeq(u, seq) = Probe(u, seq)
    BY <1>1, <1>4 DEF UpdateSeq
  <2>2. Probe(u, seq).probation = IF InSequence(u, seq) THEN u.probation - 1 ELSE MinSequential - 1
    BY DEF Probe, Utility
  <2>3. InSequence(u, seq) => u.probation # 1
    BY <1>4 DEF LastOfProbation
  <2> QED
    BY <1>1, <1>2, <1>4, <2>1, <2>2, <2>3
<1> QED
  BY <1>3, <1>4

\* Either no packet has been counted; or all that were counted are still in the
\* buffer; or the packets up to the mark and the c gaps between them are no more
\* than the numbers from base_seq to the mark.
Probing == util = NoUtility \/ util.probation # 0
Filling(u, buf) == /\ u.received = Len(buf) /\ buf[1].seq = u.base
                   /\ \A j \in 1..Len(buf) : buf[j].seq # 0
Balanced(u, buf, c) == /\ Len(buf) >= BufferSize - 1
                       /\ u.received + c - (Delay - 1) <= buf[Mark(buf)].seq - u.base + 1
StatOK(u, buf, c) == /\ u.cycles = 0 /\ Len(buf) >= 1 /\ u.max = buf[Len(buf)].seq
                     /\ (c = 0 /\ Filling(u, buf)) \/ Balanced(u, buf, c)

Gaps == corrected + uncorrectable

\* The next packet is one that update_seq counts: fewer than MAX_DROPOUT packets
\* have been lost since the last one.  So it is in every stream of fewer than
\* MaxDropout frames.
NoBurst == ~Probing => First + sent - util.max < MaxDropout

StatInv ==
    /\ OrderInv
    /\ held = NoFrame => IF Probing THEN Len(incoming) = 0 /\ Gaps = 0
                         ELSE StatOK(util, incoming, Gaps)

Orderly(buf) == (\A j \in 1..Len(buf) : Genuine(buf[j])) /\ BufOrder(buf, NoFrame) /\ Fresh(buf)

\* A packet of a buffer with a number that is none of a recovered packet.
LEMMA PacketNumber ==
    ASSUME NEW buf \in Seq(Packet), NEW j \in 1..Len(buf)
    PROVE  buf[j] \in Packet /\ buf[j].seq \in SeqNum /\ buf[j].seq \in Int
<1>1. buf[j] \in Packet
  BY ElementOfSeq
<1> QED
  BY <1>1, UtilityAssumption DEF Packet, SeqNum

\* A buffer that has just been filled is balanced.
LEMMA FilledBalanced ==
    ASSUME NoWrap, NEW u \in Utility, NEW buf \in Seq(Packet), Orderly(buf),
           NEW c \in Nat, StatOK(u, buf, c), Len(buf) >= BufferSize - 1
    PROVE  Balanced(u, buf, c)
<1> SUFFICES ASSUME c = 0, Filling(u, buf) PROVE Balanced(u, buf, c)
  BY DEF StatOK
<1> DEFINE x == Mark(buf)
           L == Len(buf)
<1>1. L \in Nat /\ x = L - Delay + 1 /\ Delay \in Nat /\ Delay >= 1 /\ BufferSize \in Nat
      /\ Delay <= BufferSize - 1
  BY LenProperties, MediaAssumption DEF Mark
<1>2. x \in 1..L /\ 1 \in 1..L /\ 1 <= x
  BY <1>1
<1>3. buf[1].seq # 0 /\ buf[x].seq # 0 /\ buf[1].seq = u.base /\ u.received = L
  BY <1>2 DEF Filling
<1>4. buf[1].seq \in Int /\ buf[x].seq \in Int
  BY <1>2, PacketNumber
<1> HIDE DEF x
<1>5. x - 1 <= buf[x].seq - buf[1].seq
  BY <1>2, <1>3, SeqGap DEF Orderly
<1> HIDE DEF L
<1>6. L + 0 - (Delay - 1) <= buf[x].seq - buf[1].seq + 1
  <2>1. \A d, l, y, z \in Int : (l - d + 1) - 1 <= y - z => l + 0 - (d - 1) <= y - z + 1
    OBVIOUS
  <2>2. (L - Delay + 1) - 1 <= buf[x].seq - buf[1].seq /\ L \in Int /\ Delay \in Int
    BY <1>1, <1>5
  <2> QED
    BY <1>4, <2>1, <2>2
<1> QED
  BY <1>3, <1>6 DEF Balanced, x, L

\* The statistics the player shows, from the invariant.
LEMMA StatBound ==
    ASSUME NoWrap, NEW u \in Utility, NEW buf \in Seq(Packet), Orderly(buf),
           NEW c \in Nat, StatOK(u, buf, c)
    PROVE  u.received + c <= Expected(u)
<1> DEFINE L == Len(buf)
           x == Mark(buf)
<1>1. /\ L \in Nat /\ L >= 1 /\ u.cycles = 0 /\ u.max = buf[L].seq /\ L \in 1..L
      /\ u.received \in Nat /\ u.base \in Int /\ buf[L].seq \in Int
  BY LenProperties, PacketNumber, UtilityAssumption DEF StatOK, Utility, SeqNum
<1>2. Expected(u) = buf[L].seq - u.base + 1
  BY <1>1 DEF Expected, ExtendedMax
<1>3. Delay \in Nat /\ Delay >= 1 /\ BufferSize \in Nat /\ Delay <= BufferSize - 1 /\ x = L - Delay + 1
  BY MediaAssumption DEF Mark
<1>4. buf[L].seq # 0
  <2>1. L \in 1..Len(buf) /\ L > Len(buf) - Delay
    BY <1>1, <1>3
  <2> QED
    BY <2>1 DEF Orderly, Fresh
<1>5. CASE c = 0 /\ Filling(u, buf)
  <2>1. 1 \in 1..L /\ 1 <= L
    BY <1>1
  <2>2. buf[1].seq = u.base /\ buf[1].seq # 0 /\ u.received = L
    BY <1>5, <2>1 DEF Filling
  <2>3. L - 1 <= buf[L].seq - buf[1].seq
    BY <1>1, <1>4, <2>1, <2>2, SeqGap DEF Orderly
  <2> HIDE DEF L
  <2> QED
    BY <1>1, <1>2, <1>5, <2>2, <2>3
<1>6. CASE Balanced(u, buf, c)
  <2>1. L >= BufferSize - 1 /\ u.received + c - (Delay - 1) <= buf[x].seq - u.base + 1
    BY <1>6 DEF Balanced
  <2>2. x \in 1..L /\ x <= L /\ x > L - Delay
    BY <1>1, <1>3, <2>1
  <2>3. buf[x].seq # 0 /\ buf[x].seq \in Int
    BY <2>2, PacketNumber DEF Orderly, Fresh
  <2> HIDE DEF x
  <2>4. L - x <= buf[L].seq - buf[x].seq
    BY <1>1, <1>4, <2>2, <2>3, SeqGap DEF Orderly
  <2> HIDE DEF L
  <2>5. L - x = Delay - 1
    BY <1>1, <1>3
  <2>6. Delay - 1 \in Int /\ Delay - 1 <= buf[L].seq - buf[x].seq
    BY <1>3, <2>4, <2>5
  <2>7. \A d, r, b, l, y \in Int : d <= l - y /\ r + c - d <= y - b + 1 => r + c <= l - b + 1
    OBVIOUS
  <2>8. u.received + c <= buf[L].seq - u.base + 1
    <3>1. u.received \in Int
      BY <1>1
    <3> QED
      BY <1>1, <2>1, <2>3, <2>6, <2>7, <3>1
  <2> QED
    BY <1>2, <2>8
<1> QED
  BY <1>5, <1>6 DEF StatOK

Longer(buf, old) == /\ Len(old) \in Nat /\ Len(buf) = Len(old) + 1
                    /\ \A i \in 1..Len(old) : buf[i] = old[i]

\* The packet at the mark passes it, and with it the gap before it, which is
\* counted (g = 1) only if a number is missing there.
LEMMA MarkPasses ==
    ASSUME NoWrap, NEW u \in Utility, NEW old \in Seq(Packet), NEW c \in Nat, Balanced(u, old, c),
           NEW buf \in Seq(Packet), Longer(buf, old), Orderly(buf),
           Len(buf) >= BufferSize, buf[Mark(buf)].seq # 0, buf[Mark(buf) - 1].seq # 0,
           NEW g \in {0, 1}, g = 1 => Gap(buf) >= 2
    PROVE  (u.received + 1) + (c + g) - (Delay - 1) <= buf[Mark(buf)].seq - u.base + 1
<1> DEFINE m == Mark(buf)
<1>1. /\ Len(buf) = Len(old) + 1 /\ Len(old) \in Nat
      /\ \A i \in 1..Len(old) : buf[i] = old[i]
  BY DEF Longer
<1>2. m \in 2..Len(buf) /\ m = Len(buf) - Delay + 1 /\ Delay \in Nat /\ Delay >= 1
  <2>1. m \in 2..Len(buf) /\ m = Len(buf) - Delay + 1
    BY MarkInside
  <2> QED
    BY <2>1, MediaAssumption
<1>3. m - 1 \in 1..Len(old) /\ m - 1 \in 1..Len(buf) /\ m \in 1..Len(buf) /\ m - 1 <= m
      /\ m - (m - 1) = 1
  BY <1>1, <1>2
<1>4. Mark(old) = m - 1
  BY <1>1, <1>2 DEF Mark
<1>5. old[m - 1] = buf[m - 1] /\ buf[m].seq \in Int /\ buf[m - 1].seq \in Int
  BY <1>1, <1>3, PacketNumber
<1>6. m - (m - 1) <= buf[m].seq - buf[m - 1].seq
  <2>1. buf[m].seq # 0 /\ buf[m - 1].seq # 0
    OBVIOUS
  <2> HIDE DEF m
  <2> DEFINE i == m - 1
  <2>2. i \in 1..Len(buf) /\ i <= m /\ buf[i].seq # 0
    BY <1>3, <2>1
  <2> HIDE DEF i
  <2>3. m - i <= buf[m].seq - buf[i].seq
    BY <1>3, <2>1, <2>2, SeqGap DEF Orderly
  <2> QED
    BY <2>3 DEF i
<1>7. Gap(buf) = buf[m].seq - buf[m - 1].seq
  BY DEF Gap
<1>8. u.received + c - (Delay - 1) <= buf[m - 1].seq - u.base + 1
  BY <1>4, <1>5 DEF Balanced
<1>9. 1 + g <= buf[m].seq - buf[m - 1].seq
  <2>1. 1 <= buf[m].seq - buf[m - 1].seq
    BY <1>3, <1>6
  <2>2. g = 1 => 2 <= buf[m].seq - buf[m - 1].seq
    BY <1>7
  <2>3. g = 0 \/ g = 1
    OBVIOUS
  <2>4. CASE g = 0
    BY <2>1, <2>4
  <2>5. CASE g = 1
    BY <2>2, <2>5
  <2> QED
    BY <2>3, <2>4, <2>5
<1>10. u.received \in Int /\ u.base \in Int /\ Delay - 1 \in Int /\ c \in Int /\ g \in Int
  BY <1>2, UtilityAssumption DEF Utility, SeqNum
<1>11. \A d, r, b, y, z, e, h \in Int : r + e - d <= y - b + 1 /\ 1 + h <= z - y
                                          => (r + 1) + (e + h) - d <= z - b + 1
  OBVIOUS
<1> HIDE DEF m
<1>12. (u.received + 1) + (c + g) - (Delay - 1) <= buf[m].seq - u.base + 1
  BY <1>5, <1>8, <1>9, <1>10, <1>11
<1> QED
  BY <1>12 DEF m

\* The buffer after a packet has been put through: its last packet and the one
\* at its mark are those of the buffer before.
LEMMA AdvanceEnds ==
    ASSUME incoming \in Seq(Packet), NEW p \in Packet, Advance(p)
    PROVE  /\ Len(incoming') \in Nat /\ Len(incoming') >= BufferSize - 1 /\ Len(incoming') >= 1
           /\ incoming'[Len(incoming')] = p
           /\ incoming'[Mark(incoming')] = With(p)[Mark(With(p))]
<1> DEFINE buf == With(p)
           full == Passed(buf)
           m == Mark(buf)
<1>1. /\ buf \in Seq(Packet) /\ Len(buf) = Len(incoming) + 1 /\ Len(incoming) \in Nat
      /\ Len(buf) >= BufferSize /\ buf[Len(buf)] = p
  BY AdvanceShape
<1>2. /\ Len(incoming') = Len(full) - 1
      /\ \A j \in 1..Len(incoming') : incoming'[j] = full[j + 1]
  BY AdvanceShape
<1>3. full = IF Gap(buf) = 2 /\ Recovers(buf) THEN Repaired(buf) ELSE buf
  BY DEF Passed
<1> HIDE DEF buf, full
<1>4. m \in 2..Len(buf) /\ m = Len(buf) - Delay + 1 /\ Len(buf) \in Nat
  BY <1>1, MarkInside
<1>5. Delay \in Nat /\ Delay >= 1 /\ BufferSize \in Nat /\ BufferSize >= 2
  BY MediaAssumption
<1> HIDE DEF m
<1>6. CASE Gap(buf) = 2 /\ Recovers(buf)
  <2>1. full = Repaired(buf)
    BY <1>3, <1>6
  <2>2. /\ Len(full) = Len(buf) + 1
        /\ \A j \in 1..(Len(buf) + 1) :
              full[j] = IF j < m THEN buf[j] ELSE IF j = m THEN Reconstructed(buf) ELSE buf[j - 1]
    BY <1>1, <2>1, RepairedProperties DEF m
  <2>3. Len(incoming') = Len(buf)
    BY <1>2, <1>4, <2>2
  <2>4. ASSUME NEW j \in m..Len(buf) PROVE incoming'[j] = buf[j]
    <3>1. j \in 1..Len(buf) /\ j + 1 \in 1..(Len(buf) + 1) /\ ~(j + 1 < m) /\ j + 1 # m
          /\ (j + 1) - 1 = j
      BY <1>4
    <3>2. full[j + 1] = buf[j]
      BY <2>2, <3>1
    <3> QED
      BY <1>2, <2>3, <3>1, <3>2
  <2>5. Mark(incoming') = m
    BY <1>4, <2>3 DEF Mark
  <2>6. m \in m..Len(buf) /\ Len(buf) \in m..Len(buf)
    BY <1>4
  <2>7. incoming'[m] = buf[m] /\ incoming'[Len(buf)] = buf[Len(buf)]
    BY <2>4, <2>6
  <2> QED
    BY <1>1, <1>4, <1>5, <2>3, <2>5, <2>7 DEF buf, m
<1>7. CASE ~(Gap(buf) = 2 /\ Recovers(buf))
  <2>1. full = buf
    BY <1>3, <1>7
  <2>2. Len(incoming') = Len(buf) - 1
    BY <1>2, <2>1
  <2>3. ASSUME NEW j \in 2..Len(buf) PROVE incoming'[j - 1] = buf[j]
    <3>1. j - 1 \in 1..(Len(buf) - 1) /\ (j - 1) + 1 = j
      BY <1>4
    <3> QED
      BY <1>2, <2>1, <2>2, <3>1
  <2>4. Mark(incoming') = m - 1
    BY <1>4, <1>5, <2>2 DEF Mark
  <2>5. Len(buf) \in 2..Len(buf)
    BY <1>4
  <2>6. incoming'[m - 1] = buf[m] /\ incoming'[Len(buf) - 1] = buf[Len(buf)]
    BY <1>4, <2>3, <2>5
  <2> QED
    BY <1>1, <1>4, <1>5, <2>2, <2>4, <2>6 DEF buf, m
<1> QED
  BY <1>6, <1>7

Counts(u, v, seq) == /\ v.received = u.received + 1 /\ v.base = u.base /\ v.max = seq
                     /\ v.cycles = 0 /\ v \in Utility

\* A packet that is counted and appended, or put through, keeps the balance.
LEMMA StatAdvance ==
    ASSUME NoWrap, incoming \in Seq(Packet), NEW p \in Packet, Orderly(incoming),
           Orderly(With(p)), NEW u \in Utility, NEW v, Counts(u, v, p.seq),
           corrected \in Nat, uncorrectable \in Nat, StatOK(u, incoming, Gaps),
           With(p)[Mark(With(p))].seq # 0, With(p)[Mark(With(p)) - 1].seq # 0,
           Advance(p)
    PROVE  StatOK(v, incoming', Gaps')
<1> DEFINE buf == With(p)
           g == IF Gap(buf) >= 2 THEN 1 ELSE 0
           h == Gaps' - Gaps
<1>1. /\ buf \in Seq(Packet) /\ Len(buf) = Len(incoming) + 1 /\ Len(incoming) \in Nat
      /\ Len(buf) >= BufferSize /\ \A j \in 1..Len(incoming) : buf[j] = incoming[j]
  BY AdvanceShape
<1>2. Gaps \in Nat
  BY DEF Gaps
<1>3. Balanced(u, incoming, Gaps)
  <2>1. Len(incoming) >= BufferSize - 1
    BY <1>1, MediaAssumption
  <2> QED
    BY <1>2, <2>1, FilledBalanced
<1>4. h \in {0, 1} /\ (h = 1 => Gap(buf) >= 2) /\ Gaps' = Gaps + h
  <2>1. /\ corrected' = IF Gap(buf) = 2 /\ Recovers(buf) THEN corrected + 1 ELSE corrected
        /\ uncorrectable' = IF Gap(buf) >= 2 /\ ~(Gap(buf) = 2 /\ Recovers(buf))
                            THEN uncorrectable + 1 ELSE uncorrectable
    BY DEF Advance, With
  <2>2. Gaps' = corrected' + uncorrectable' /\ Gaps = corrected + uncorrectable
    BY DEF Gaps
  <2> HIDE DEF buf
  <2>3. CASE Gap(buf) = 2 /\ Recovers(buf)
    <3>1. corrected' = corrected + 1 /\ uncorrectable' = uncorrectable /\ Gap(buf) >= 2
      BY <2>1, <2>3
    <3> QED
      BY <2>2, <3>1
  <2>4. CASE Gap(buf) >= 2 /\ ~(Gap(buf) = 2 /\ Recovers(buf))
    <3>1. corrected' = corrected /\ uncorrectable' = uncorrectable + 1
      BY <2>1, <2>4
    <3> QED
      BY <2>2, <2>4, <3>1
  <2>5. CASE ~(Gap(buf) >= 2) /\ ~(Gap(buf) = 2 /\ Recovers(buf))
    <3>1. corrected' = corrected /\ uncorrectable' = uncorrectable
      BY <2>1, <2>5
    <3> QED
      BY <2>2, <3>1
  <2> QED
    BY <2>3, <2>4, <2>5
<1> HIDE DEF h
<1>5. Longer(buf, incoming)
  BY <1>1 DEF Longer
<1>6. /\ Len(incoming') >= BufferSize - 1 /\ Len(incoming') >= 1
      /\ incoming'[Len(incoming')] = p
      /\ incoming'[Mark(incoming')] = buf[Mark(buf)]
  BY AdvanceEnds
<1>7. buf[Mark(buf)].seq # 0 /\ buf[Mark(buf) - 1].seq # 0 /\ Orderly(buf)
  OBVIOUS
<1> HIDE DEF buf
<1>8. (u.received + 1) + (Gaps + h) - (Delay - 1) <= buf[Mark(buf)].seq - u.base + 1
  BY <1>1, <1>2, <1>3, <1>4, <1>5, <1>7, MarkPasses
<1>9. Balanced(v, incoming', Gaps')
  BY <1>4, <1>6, <1>8 DEF Balanced, Counts
<1> QED
  BY <1>6, <1>9 DEF StatOK, Counts

LEMMA StatFill ==
    ASSUME incoming \in Seq(Packet), NEW p \in Packet, p.seq # 0, NEW u \in Utility, NEW v,
           Counts(u, v, p.seq), StatOK(u, incoming, Gaps), FillBuffer(p)
    PROVE  StatOK(v, incoming', Gaps')
<1>1. /\ incoming' = Append(incoming, p) /\ Gaps' = Gaps /\ Len(incoming) + 1 < BufferSize
  BY DEF FillBuffer, Gaps
<1>2. /\ Len(incoming') = Len(incoming) + 1 /\ Len(incoming) \in Nat
      /\ \A i \in 1..Len(incoming) : incoming'[i] = incoming[i]
      /\ incoming'[Len(incoming) + 1] = p
  BY <1>1, AppendProperties, LenProperties
<1>3. Gaps = 0 /\ Filling(u, incoming) /\ Len(incoming) >= 1
  <2>1. ~Balanced(u, incoming, Gaps)
    <3>1. ~(Len(incoming) >= BufferSize - 1)
      BY <1>1, <1>2, MediaAssumption
    <3> QED
      BY <3>1 DEF Balanced
  <2> QED
    BY <2>1 DEF StatOK
<1>4. Filling(v, incoming')
  <2>1. v.received = Len(incoming') /\ incoming'[1].seq = v.base
    <3>1. 1 \in 1..Len(incoming)
      BY <1>2, <1>3
    <3> QED
      BY <1>2, <1>3, <3>1 DEF Filling, Counts
  <2>2. ASSUME NEW j \in 1..Len(incoming') PROVE incoming'[j].seq # 0
    <3>1. j \in 1..Len(incoming) \/ j = Len(incoming) + 1
      BY <1>2
    <3> QED
      BY <1>2, <1>3, <3>1 DEF Filling
  <2> QED
    BY <2>1, <2>2 DEF Filling
<1> QED
  BY <1>1, <1>2, <1>3, <1>4 DEF StatOK, Counts

LEMMA StatFault ==
    ASSUME NoWrap, incoming \in Seq(Packet), NEW p \in Packet, Orderly(incoming),
           Orderly(With(p)), NEW u \in Utility, NEW v, Counts(u, v, p.seq),
           corrected \in Nat, uncorrectable \in Nat, StatOK(u, incoming, Gaps),
           With(p)[Mark(With(p))].seq # 0, With(p)[Mark(With(p)) - 1].seq # 0,
           Fault(p)
    PROVE  StatOK(v, incoming', Gaps')
<1> DEFINE buf == With(p)
<1>1. incoming' = buf /\ Gaps' = Gaps /\ Len(buf) >= BufferSize /\ buf = Append(incoming, p)
  BY DEF Fault, Gaps, With
<1>2. /\ buf \in Seq(Packet) /\ Len(buf) = Len(incoming) + 1 /\ Len(incoming) \in Nat
      /\ \A i \in 1..Len(incoming) : buf[i] = incoming[i]
      /\ buf[Len(incoming) + 1] = p
  BY <1>1, AppendProperties, LenProperties
<1>3. Gaps \in Nat /\ Gaps + 0 = Gaps
  BY DEF Gaps
<1>4. BufferSize \in Nat /\ BufferSize >= 2
  BY MediaAssumption
<1>5. Balanced(u, incoming, Gaps)
  <2>1. Len(incoming) >= BufferSize - 1
    BY <1>1, <1>2, <1>4
  <2> QED
    BY <1>3, <2>1, FilledBalanced
<1>6. Longer(buf, incoming)
  BY <1>2 DEF Longer
<1>7. buf[Mark(buf)].seq # 0 /\ buf[Mark(buf) - 1].seq # 0 /\ Orderly(buf)
  OBVIOUS
<1>8. Len(buf) >= BufferSize - 1 /\ Len(buf) >= 1 /\ buf[Len(buf)] = p
  BY <1>1, <1>2, <1>4
<1>9. incoming' = buf /\ Len(buf) >= BufferSize
  BY <1>1
<1> HIDE DEF buf
<1>10. (u.received + 1) + (Gaps + 0) - (Delay - 1) <= buf[Mark(buf)].seq - u.base + 1
  <2>1. 0 \in {0, 1} /\ (0 = 1 => Gap(buf) >= 2)
    OBVIOUS
  <2> DEFINE g == 0
  <2>2. g \in {0, 1} /\ (g = 1 => Gap(buf) >= 2)
    OBVIOUS
  <2> HIDE DEF g
  <2>3. (u.received + 1) + (Gaps + g) - (Delay - 1) <= buf[Mark(buf)].seq - u.base + 1
    BY <1>2, <1>3, <1>5, <1>6, <1>7, <1>9, <2>2, MarkPasses
  <2> QED
    BY <2>3 DEF g
<1>11. Balanced(v, incoming', Gaps)
  BY <1>3, <1>8, <1>9, <1>10 DEF Balanced, Counts
<1>12. Gaps' = Gaps
  BY DEF Fault, Gaps
<1> QED
  BY <1>8, <1>9, <1>11, <1>12 DEF StatOK, Counts

\* During probation no packet is buffered but the one that ends it.
LEMMA StatProbe ==
    ASSUME TypeOK, Probing, Len(incoming) = 0, Gaps = 0, NEW p \in Packet, p.seq # 0,
           ReceiveMedia(p)
    PROVE  IF Probing' THEN Len(incoming') = 0 /\ Gaps' = 0
           ELSE StatOK(util', incoming', Gaps')
<1>1. p.seq \in SeqNum /\ util \in Utility \cup {NoUtility} /\ incoming \in Seq(Packet)
  BY DEF Packet, TypeOK
<1> DEFINE u == IF util = NoUtility THEN NewUtility(p.seq) ELSE util
<1>2. u \in Utility /\ u.probation # 0
  <2>1. CASE util = NoUtility
    <3>1. NewUtility(p.seq) \in Utility
      BY <1>1, WrapType, UtilityAssumption DEF NewUtility, Utility, NoBadSeq
    <3>2. NewUtility(p.seq).probation = MinSequential /\ MinSequential # 0
      BY UtilityAssumption DEF NewUtility
    <3> QED
      BY <2>1, <3>1, <3>2
  <2>2. CASE util # NoUtility
    BY <1>1, <2>2 DEF Probing
  <2> QED
    BY <2>1, <2>2
<1>3. util' = UpdateSeq(u, p.seq) /\ (Valid(util, p.seq) <=> Accepts(u, p.seq))
  BY DEF ReceiveMedia, Updated, Valid
<1> HIDE DEF u
<1>4. CASE ~Accepts(u, p.seq)
  <2>1. util'.probation # 0
    BY <1>1, <1>2, <1>3, <1>4, NextProbed
  <2>2. incoming' = incoming /\ Gaps' = Gaps
    BY <1>3, <1>4 DEF ReceiveMedia, DropInvalid, FillBuffer, Advance, Fault, Gaps
  <2> QED
    BY <2>1, <2>2 DEF Probing
<1>5. CASE Accepts(u, p.seq)
  <2>1. /\ util'.received = 1 /\ util'.base = p.seq /\ util'.max = p.seq
        /\ util'.cycles = 0 /\ util'.probation = 0
    BY <1>1, <1>2, <1>3, <1>5, NextProbed
  <2>2. util' \in Utility
    BY <1>1, <1>2, <1>3, UpdateType
  <2>3. ~Probing'
    BY <2>1, <2>2, EmptyAssumption DEF Probing
  <2>4. /\ Append(incoming, p) \in Seq(Packet) /\ Len(Append(incoming, p)) = 1
        /\ Append(incoming, p)[1] = p
    <3>1. /\ Append(incoming, p) \in Seq(Packet)
          /\ Len(Append(incoming, p)) = Len(incoming) + 1
          /\ Append(incoming, p)[Len(incoming) + 1] = p
      BY <1>1, AppendProperties
    <3> QED
      BY <3>1
  <2>5. FillBuffer(p)
    <3>1. ~(Len(Append(incoming, p)) >= BufferSize)
      BY <2>4, MediaAssumption
    <3> QED
      BY <1>3, <1>5, <3>1 DEF ReceiveMedia, DropInvalid, Advance, Fault
  <2>6. incoming' = Append(incoming, p) /\ Gaps' = Gaps
    BY <2>5 DEF FillBuffer, Gaps
  <2>7. Len(incoming') = 1 /\ incoming'[1] = p /\ Gaps' = 0
    BY <2>4, <2>6
  <2>8. StatOK(util', incoming', Gaps')
    BY <2>1, <2>7 DEF StatOK, Filling
  <2> QED
    BY <2>3, <2>8
<1> QED
  BY <1>4, <1>5

LEMMA StatReceive ==
    ASSUME NoWrap, NoBurst, StatInv, held = NoFrame, NEW n \in 1..Frames,
           n = sent + 1, ReceiveMedia(PacketOf(n))
    PROVE  IF Probing' THEN Len(incoming') = 0 /\ Gaps' = 0
           ELSE StatOK(util', incoming', Gaps')
<1> DEFINE p == PacketOf(n)
           out == Queue(shown, frames)
<1>1. /\ OrderInv /\ MediaInv /\ TypeOK /\ LineOK(out, incoming, NoFrame, sent)
      /\ Fresh(incoming)
      /\ IF Probing THEN Len(incoming) = 0 /\ Gaps = 0 ELSE StatOK(util, incoming, Gaps)
  BY DEF StatInv, OrderInv, MediaInv
<1>2. /\ incoming \in Seq(Packet) /\ frames \in Seq(Bytes) /\ shown \in Bytes
      /\ sent \in Nat /\ Len(incoming) \in Nat /\ util \in Utility \cup {NoUtility}
      /\ corrected \in Nat /\ uncorrectable \in Nat
  BY <1>1, LenProperties DEF TypeOK, Bytes
<1>3. p \in Packet /\ p.seq # 0 /\ n \in Nat /\ p.seq = First + n - 1 /\ p.seq \in SeqNum
  BY SeqNumOfType, Numbers DEF PacketOf
<1>4. out \in Seq(Bytes)
  BY <1>2, QueueShape
<1> HIDE DEF out
<1>5. LineOK(out, With(p), NoFrame, n)
  BY <1>1, <1>2, <1>3, <1>4, LineAppend DEF With, NoFrame
<1>6. ReceiveMedia(p)
  OBVIOUS
<1> HIDE DEF p
<1>7. /\ With(p) \in Seq(Packet) /\ Fresh(With(p))
      /\ Len(With(p)) >= BufferSize => /\ With(p)[Mark(With(p))].seq # 0
                                      /\ With(p)[Mark(With(p)) - 1].seq # 0
  BY <1>1, <1>2, <1>3, FreshAppend DEF With
<1>8. Orderly(incoming) /\ Orderly(With(p))
  BY <1>1, <1>5, <1>7 DEF LineOK, Packets, Orderly
<1>9. CASE Probing
  BY <1>1, <1>3, <1>6, <1>9, StatProbe
<1>10. CASE ~Probing
  <2>1. util \in Utility /\ util # NoUtility /\ util.probation = 0 /\ StatOK(util, incoming, Gaps)
    BY <1>1, <1>2, <1>10 DEF Probing
  <2>2. util.max < p.seq /\ p.seq - util.max < MaxDropout
    <3> DEFINE L == Len(incoming)
    <3>1. L \in 1..Len(incoming) /\ util.max = incoming[L].seq
      BY <1>2, <2>1 DEF StatOK
    <3>2. L > Len(incoming) - Delay
      BY <1>2, MediaAssumption
    <3>3. incoming[L].seq # 0 /\ Genuine(incoming[L]) /\ \A m \in incoming[L].bytes : m <= sent
      BY <1>1, <3>1, <3>2 DEF Fresh, LineOK, Packets
    <3> HIDE DEF L
    <3>4. PICK m \in 1..Frames : incoming[L].bytes = {m} /\ incoming[L].seq \in {SeqNumOf(m), 0}
      BY <3>3 DEF Genuine
    <3>5. m <= sent /\ incoming[L].seq = First + m - 1 /\ m \in Nat /\ m >= 1 /\ First \in Nat
      BY <3>3, <3>4, Numbers
    <3>6. First + sent - util.max < MaxDropout
      BY <1>10 DEF NoBurst
    <3>7. util.max = First + m - 1 /\ p.seq = First + n - 1
      BY <1>3, <3>1, <3>5
    <3> QED
      BY <1>2, <1>3, <3>5, <3>6, <3>7
  <2>3. /\ Accepts(util, p.seq) /\ UpdateSeq(util, p.seq) \in Utility
        /\ UpdateSeq(util, p.seq).received = util.received + 1
        /\ UpdateSeq(util, p.seq).base = util.base
        /\ UpdateSeq(util, p.seq).max = p.seq
        /\ UpdateSeq(util, p.seq).cycles = util.cycles
        /\ UpdateSeq(util, p.seq).probation = 0
    BY <1>3, <2>1, <2>2, NextCounted
  <2>4. util' = UpdateSeq(util, p.seq) /\ Valid(util, p.seq)
    BY <1>6, <2>1, <2>3 DEF ReceiveMedia, Updated, Valid
  <2>5. Counts(util, util', p.seq) /\ ~Probing'
    <3>1. util.cycles = 0
      BY <2>1 DEF StatOK
    <3>2. util' \in Utility /\ util'.probation = 0
      BY <2>3, <2>4
    <3>3. util' # NoUtility
      BY <3>2, EmptyAssumption
    <3> QED
      BY <2>3, <2>4, <3>1, <3>2, <3>3 DEF Counts, Probing
  <2>6. CASE FillBuffer(p)
    <3>1. StatOK(util', incoming', Gaps')
      BY <1>2, <1>3, <2>1, <2>5, <2>6, StatFill
    <3> QED
      BY <2>5, <3>1
  <2>7. CASE Advance(p)
    <3>1. Len(With(p)) >= BufferSize
      BY <2>7 DEF Advance, With
    <3>2. StatOK(util', incoming', Gaps')
      BY <1>2, <1>3, <1>7, <1>8, <2>1, <2>5, <2>7, <3>1, StatAdvance
    <3> QED
      BY <2>5, <3>2
  <2>8. CASE Fault(p)
    <3>1. Len(With(p)) >= BufferSize
      BY <2>8 DEF Fault, With
    <3>2. StatOK(util', incoming', Gaps')
      BY <1>2, <1>3, <1>7, <1>8, <2>1, <2>5, <2>8, <3>1, StatFault
    <3> QED
      BY <2>5, <3>2
  <2> QED
    BY <1>6, <2>4, <2>6, <2>7, <2>8 DEF ReceiveMedia, DropInvalid
<1> QED
  BY <1>9, <1>10

LEMMA StatStep ==
    ASSUME NoWrap
    PROVE  StatInv /\ NoBurst /\ [Next]_vars => StatInv'
<1> SUFFICES ASSUME StatInv, NoBurst, [Next]_vars PROVE StatInv'
  OBVIOUS
<1>1. OrderInv /\ MediaInv /\ OrderInv'
  <2>1. OrderInv
    BY DEF StatInv
  <2> QED
    BY <2>1, OrderStep DEF OrderInv
<1>2. ASSUME UNCHANGED <<util, incoming, corrected, uncorrectable>>, held' = NoFrame,
             held = NoFrame
      PROVE  StatInv'
  <2>1. Gaps' = Gaps /\ (Probing' <=> Probing)
    BY <1>2 DEF Gaps, Probing
  <2>2. IF Probing THEN Len(incoming) = 0 /\ Gaps = 0 ELSE StatOK(util, incoming, Gaps)
    BY <1>2 DEF StatInv
  <2>3. IF Probing' THEN Len(incoming') = 0 /\ Gaps' = 0 ELSE StatOK(util', incoming', Gaps')
    BY <1>2, <2>1, <2>2
  <2> QED
    BY <1>1, <2>3 DEF StatInv
<1>3. ASSUME NEW mediaFate \in MediaFate, NEW fecFate \in FecFate,
             SendNextPacket(mediaFate, fecFate)
      PROVE  StatInv'
  <2> DEFINE n == sent + 1
  <2>1. SendMedia(n, mediaFate) /\ n \in 1..Frames
    BY <1>1, <1>3, MediaAssumption DEF SendNextPacket, MediaInv, TypeOK
  <2>2. CASE held' # NoFrame
    BY <1>1, <2>2 DEF StatInv
  <2>3. CASE held' = NoFrame
    <3>1. mediaFate \notin {"held", "copied"} /\ held = NoFrame
      BY <2>1, <2>3, MediaAssumption DEF SendMedia, NoFrame
    <3>2. CASE mediaFate = "received"
      <4>1. ReceiveMedia(PacketOf(n))
        BY <2>1, <3>2 DEF SendMedia
      <4>2. IF Probing' THEN Len(incoming') = 0 /\ Gaps' = 0 ELSE StatOK(util', incoming', Gaps')
        BY <2>1, <3>1, <4>1, StatReceive
      <4> QED
        BY <1>1, <4>2 DEF StatInv
    <3>3. CASE mediaFate # "received"
      <4>1. UNCHANGED <<util, incoming, corrected, uncorrectable>>
        BY <2>1, <3>1, <3>3 DEF SendMedia
      <4> QED
        BY <1>2, <2>3, <3>1, <4>1
    <3> QED
      BY <3>2, <3>3
  <2> QED
    BY <2>2, <2>3
<1>4. CASE DeliverHeld
  <2>1. held' # NoFrame
    BY <1>1, <1>4, MediaAssumption DEF DeliverHeld, MediaInv, HeldOK, TypeOK, NoFrame
  <2> QED
    BY <1>1, <2>1 DEF StatInv
<1>5. CASE DisplayNextFrame \/ UNCHANGED vars
  <2>1. UNCHANGED <<util, incoming, corrected, uncorrectable, held>>
    BY <1>5 DEF DisplayNextFrame, vars
  <2>2. CASE held = NoFrame
    BY <1>2, <2>1, <2>2
  <2>3. CASE held # NoFrame
    BY <1>1, <2>1, <2>3 DEF StatInv
  <2> QED
    BY <2>2, <2>3
<1> QED
  BY <1>3, <1>4, <1>5 DEF Next

\* As long as no packet came late or twice, the packets received, the gaps
\* corrected and the gaps given up are together no more than the packets
\* expected, so that the number of lost packets of the player's statistics never
\* wraps below 0: for a stream without a burst of MAX_DROPOUT losses, after
\* which update_seq restarts its own counters and not those of the gaps.
THEOREM MediaStatisticsAddUp ==
    ASSUME NoWrap
    PROVE  Spec /\ []NoBurst => []StatisticsAddUp
<1>1. Init => StatInv
  <2> SUFFICES ASSUME Init PROVE StatInv
    OBVIOUS
  <2>1. OrderInv
    BY OrderInit
  <2>2. util = NoUtility /\ Len(incoming) = 0 /\ Gaps = 0
    BY DEF Init, Gaps
  <2> QED
    BY <2>1, <2>2 DEF StatInv, Probing
<1>2. StatInv => StatisticsAddUp
  <2> SUFFICES ASSUME StatInv, held = NoFrame, util # NoUtility, util.probation = 0
               PROVE  util.received + corrected + uncorrectable <= Expected(util)
    BY DEF StatisticsAddUp
  <2>1. /\ StatOK(util, incoming, Gaps) /\ TypeOK
        /\ LineOK(Queue(shown, frames), incoming, NoFrame, sent) /\ Fresh(incoming)
    BY DEF StatInv, OrderInv, MediaInv, Probing
  <2>2. /\ util \in Utility /\ incoming \in Seq(Packet)
        /\ corrected \in Nat /\ uncorrectable \in Nat
    BY <2>1 DEF TypeOK
  <2>3. Orderly(incoming)
    BY <2>1 DEF LineOK, Packets, Orderly
  <2>4. Gaps \in Nat
    BY <2>2 DEF Gaps
  <2>5. util.received + Gaps <= Expected(util)
    BY <2>1, <2>2, <2>3, <2>4, StatBound
  <2>6. util.received \in Nat
    BY <2>2 DEF Utility
  <2> QED
    BY <2>2, <2>5, <2>6 DEF Gaps
<1> QED
  BY <1>1, <1>2, StatStep, PTL DEF Spec
=============================================================================
