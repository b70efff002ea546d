--------------------------- MODULE RtpSenderProofs ---------------------------
(***************************************************************************)
(* The safety of the sender's life cycle, for every source length, FEC     *)
(* setting and queue bound.                                                *)
(***************************************************************************)
EXTENDS RtpSender, TLAPS

-----------------------------------------------------------------------------
(* The strand's queue.                                                     *)

\* Queueing stop()'s cancel leaves the functions of the chain as they are.
LEMMA AppendCancel ==
    ASSUME NEW q \in Seq(StrandOps), OneChainOp(q)
    PROVE  /\ Append(q, "cancel") \in Seq(StrandOps)
           /\ HasChainOp(Append(q, "cancel")) <=> HasChainOp(q)
           /\ OneChainOp(Append(q, "cancel"))
BY DEF HasChainOp, OneChainOp, StrandOps, ChainOps

\* Queueing a function of the chain makes it the only one if there was none.
LEMMA AppendChainOp ==
    ASSUME NEW q \in Seq(StrandOps), NEW op \in ChainOps, ~HasChainOp(q)
    PROVE  /\ Append(q, op) \in Seq(StrandOps)
           /\ HasChainOp(Append(q, op))
           /\ OneChainOp(Append(q, op))
<1> DEFINE r == Append(q, op)
<1>1. /\ r \in Seq(StrandOps)
      /\ Len(r) = Len(q) + 1
      /\ DOMAIN r = 1..(Len(q) + 1)
      /\ r[Len(q) + 1] = op
      /\ \A i \in 1..Len(q) : r[i] = q[i]
  BY DEF StrandOps
<1>2. \A i \in DOMAIN r : r[i] \in ChainOps => i = Len(q) + 1
  BY <1>1 DEF HasChainOp
<1>3. Len(q) + 1 \in DOMAIN r
  BY <1>1
<1> QED
  BY <1>1, <1>2, <1>3 DEF HasChainOp, OneChainOp

\* Running a cancel leaves the functions of the chain as they are.
LEMMA TailCancel ==
    ASSUME NEW q \in Seq(StrandOps), q # <<>>, Head(q) = "cancel", OneChainOp(q)
    PROVE  /\ Tail(q) \in Seq(StrandOps)
           /\ HasChainOp(Tail(q)) <=> HasChainOp(q)
           /\ OneChainOp(Tail(q))
<1> DEFINE r == Tail(q)
<1>1. /\ r \in Seq(StrandOps)
      /\ DOMAIN r = 1..(Len(q) - 1)
      /\ DOMAIN q = 1..Len(q)
      /\ \A i \in DOMAIN r : r[i] = q[i + 1]
      /\ q[1] \notin ChainOps
  BY DEF ChainOps
<1>2. HasChainOp(r) => HasChainOp(q)
  BY <1>1 DEF HasChainOp
<1>3. HasChainOp(q) => HasChainOp(r)
  <2>1. SUFFICES ASSUME NEW i \in DOMAIN q, q[i] \in ChainOps
                 PROVE  HasChainOp(r)
    BY DEF HasChainOp
  <2>2. i - 1 \in DOMAIN r /\ r[i - 1] = q[i]
    BY <1>1, <2>1
  <2> QED
    BY <2>1, <2>2 DEF HasChainOp
<1>4. OneChainOp(r)
  BY <1>1 DEF OneChainOp
<1> QED
  BY <1>1, <1>2, <1>3, <1>4

\* Running the one function of the chain leaves none behind.
LEMMA TailChainOp ==
    ASSUME NEW q \in Seq(StrandOps), q # <<>>, Head(q) \in ChainOps, OneChainOp(q)
    PROVE  /\ Tail(q) \in Seq(StrandOps)
           /\ HasChainOp(q)
           /\ ~HasChainOp(Tail(q))
           /\ OneChainOp(Tail(q))
BY DEF HasChainOp, OneChainOp, StrandOps, ChainOps

-----------------------------------------------------------------------------
(* Counting the links of the chain.                                        *)

LEMMA WaitsNat == \A f \in [Binding -> Nat] : Waits(f) \in Nat
BY DEF Waits, Binding

\* Every term of ChainLinks is a natural number.
LEMMA LinksNat ==
    ASSUME TypeOK
    PROVE  /\ Waits(armed) \in Nat /\ Waits(due) \in Nat /\ Waits(aborted) \in Nat
           /\ bodies \in Nat /\ InStrand \in {0, 1} /\ InQueue \in {0, 1}
BY WaitsNat DEF TypeOK, InStrand, InQueue

\* One wait more or less under one binding.
LEMMA WaitsExcept ==
    ASSUME NEW f \in [Binding -> Nat], NEW b \in Binding
    PROVE  /\ [f EXCEPT ![b] = @ + 1] \in [Binding -> Nat]
           /\ Waits([f EXCEPT ![b] = @ + 1]) = Waits(f) + 1
           /\ f[b] > 0 => /\ [f EXCEPT ![b] = @ - 1] \in [Binding -> Nat]
                          /\ Waits([f EXCEPT ![b] = @ - 1]) = Waits(f) - 1
BY DEF Waits, Binding

\* Cancelling turns every pending wait into an aborted one.
LEMMA CancelLinks ==
    ASSUME TypeOK, CancelWaits
    PROVE  /\ armed' \in [Binding -> Nat] /\ aborted' \in [Binding -> Nat]
           /\ Waits(armed') = 0
           /\ Waits(aborted') = Waits(aborted) + Waits(armed)
BY DEF TypeOK, CancelWaits, Waits, Binding

\* Arming does the same and adds one wait.
LEMMA ArmLinks ==
    ASSUME TypeOK, NEW b \in Binding, ArmTimer(b)
    PROVE  /\ armed' \in [Binding -> Nat] /\ aborted' \in [Binding -> Nat]
           /\ Waits(armed') = 1
           /\ Waits(aborted') = Waits(aborted) + Waits(armed)
<1>1. armed' \in [Binding -> Nat] /\ aborted' \in [Binding -> Nat]
  BY DEF TypeOK, ArmTimer
<1>2. Waits(armed') = 1
  BY DEF ArmTimer, Waits, Binding
<1>3. Waits(aborted') = Waits(aborted) + Waits(armed)
  BY DEF TypeOK, ArmTimer, Waits, Binding
<1> QED
  BY <1>1, <1>2, <1>3

-----------------------------------------------------------------------------
(* The inductive invariant.                                                *)

\* A destroyed sender is not running, and the rest is what the runs check.
IInv ==
    /\ TypeOK
    /\ OneChain
    /\ NotRunningMeansQuiet
    /\ owner = "dead" => ~running

LEMMA InitIInv == Init => IInv
<1> SUFFICES ASSUME Init PROVE IInv
  OBVIOUS
<1>1. TypeOK
  <2>1. /\ armed \in [Binding -> Nat]
        /\ due \in [Binding -> Nat]
        /\ aborted \in [Binding -> Nat]
    BY DEF Init
  <2>2. strandQ \in Seq(StrandOps)
    BY DEF Init
  <2>3. left \in 0..MaxFrames /\ fecLeft \in 0..FecK
    BY SenderAssumption DEF Init
  <2> QED
    BY <2>1, <2>2, <2>3 DEF Init, TypeOK
<1>2. ~HasChainOp(strandQ) /\ OneChainOp(strandQ)
  BY DEF Init, HasChainOp, OneChainOp
<1>3. Waits(armed) = 0 /\ Waits(due) = 0 /\ Waits(aborted) = 0
  BY DEF Init, Waits, Binding
<1>4. ChainLinks = 0
  BY <1>2, <1>3 DEF Init, ChainLinks, InStrand, InQueue
<1> QED
  BY <1>1, <1>2, <1>4 DEF Init, IInv, OneChain, NotRunningMeansQuiet

\* start() opens a chain only when none exists.
LEMMA PlayIInv == IInv /\ Play => IInv'
<1> SUFFICES ASSUME IInv, Play PROVE IInv'
  OBVIOUS
<1> USE DEF IInv, OneChain, NotRunningMeansQuiet, Play, StartSender
<1>1. CASE running
  BY <1>1 DEF TypeOK, ChainLinks, InStrand, InQueue
<1>2. CASE ~running /\ StrandFree
  <2>1. /\ armed' \in [Binding -> Nat] /\ aborted' \in [Binding -> Nat]
        /\ Waits(armed') = 1 /\ Waits(aborted') = Waits(aborted) + Waits(armed)
    BY <1>2, ArmLinks DEF Binding
  <2>2. ChainLinks' = 1
    BY <1>2, <2>1, LinksNat DEF ChainLinks, InStrand, InQueue
  <2>3. TypeOK'
    BY <1>2, <2>1 DEF TypeOK
  <2> QED
    BY <1>2, <2>2, <2>3
<1>3. CASE ~running /\ ~StrandFree
  <2>1. ~HasChainOp(strandQ) /\ "arm" \in ChainOps
    BY <1>3, LinksNat DEF ChainLinks, InQueue, ChainOps
  <2>2. HasChainOp(strandQ') /\ OneChainOp(strandQ') /\ strandQ' \in Seq(StrandOps)
    BY <1>3, <2>1, AppendChainOp DEF TypeOK
  <2>3. ChainLinks' = 1
    BY <1>3, <2>1, <2>2, LinksNat DEF ChainLinks, InStrand, InQueue
  <2>4. TypeOK'
    BY <1>3, <2>2 DEF TypeOK
  <2> QED
    BY <1>3, <2>2, <2>3, <2>4
<1> QED
  BY <1>1, <1>2, <1>3

\* stop() aborts the pending wait or queues its cancel: the links stay.
LEMMA StopIInv ==
    ASSUME IInv, StopSender, UNCHANGED <<due, bodies, holder, left, fecLeft>>,
           session' \in {"ready", "playing"},
           owner' \in {"alive", "destroying"}
    PROVE  IInv'
<1> USE DEF IInv, OneChain, NotRunningMeansQuiet, StopSender
<1>1. CASE running /\ StrandFree
  <2>1. /\ armed' \in [Binding -> Nat] /\ aborted' \in [Binding -> Nat]
        /\ Waits(armed') = 0 /\ Waits(aborted') = Waits(aborted) + Waits(armed)
    BY <1>1, CancelLinks
  <2>2. ChainLinks' = ChainLinks
    BY <1>1, <2>1, LinksNat DEF ChainLinks, InStrand, InQueue
  <2>3. TypeOK'
    BY <1>1, <2>1 DEF TypeOK
  <2> QED
    BY <1>1, <2>2, <2>3
<1>2. CASE running /\ ~StrandFree
  <2>1. /\ strandQ' \in Seq(StrandOps)
        /\ HasChainOp(strandQ') <=> HasChainOp(strandQ)
        /\ OneChainOp(strandQ')
    BY <1>2, AppendCancel DEF TypeOK
  <2>2. ChainLinks' = ChainLinks
    BY <1>2, <2>1 DEF ChainLinks, InStrand, InQueue
  <2>3. TypeOK'
    BY <1>2, <2>1 DEF TypeOK
  <2> QED
    BY <1>2, <2>1, <2>2, <2>3
<1>3. CASE ~running
  BY <1>3 DEF TypeOK, ChainLinks, InStrand, InQueue
<1> QED
  BY <1>1, <1>2, <1>3

\* An expiry turns a pending wait into a queued handler.
LEMMA ExpireIInv == \A b \in Binding : IInv /\ Expire(b) => IInv'
<1> SUFFICES ASSUME NEW b \in Binding, IInv, Expire(b) PROVE IInv'
  OBVIOUS
<1> USE DEF IInv, OneChain, NotRunningMeansQuiet, Expire
<1>1. /\ armed' \in [Binding -> Nat] /\ Waits(armed') = Waits(armed) - 1
      /\ due' \in [Binding -> Nat] /\ Waits(due') = Waits(due) + 1
  BY WaitsExcept DEF TypeOK
<1>2. ChainLinks' = ChainLinks
  BY <1>1, LinksNat DEF ChainLinks, InStrand, InQueue
<1>3. TypeOK'
  BY <1>1 DEF TypeOK
<1> QED
  BY <1>2, <1>3

\* A due handler starts executing, or joins the strand's queue as its only
\* function of the chain.
LEMMA HandlerDueIInv == \A b \in Binding : IInv /\ HandlerDue(b) => IInv'
<1> SUFFICES ASSUME NEW b \in Binding, IInv, HandlerDue(b) PROVE IInv'
  OBVIOUS
<1> USE DEF IInv, OneChain, NotRunningMeansQuiet, HandlerDue
<1>1. due' \in [Binding -> Nat] /\ Waits(due') = Waits(due) - 1
  BY WaitsExcept DEF TypeOK
<1>2. Waits(due') \in Nat
  BY <1>1, WaitsNat
<1>3. CASE b = "unbound"
  <2>1. ChainLinks' = ChainLinks
    BY <1>1, <1>3, LinksNat DEF ChainLinks, InStrand, InQueue
  <2>2. TypeOK'
    BY <1>1, <1>3 DEF TypeOK
  <2> QED
    BY <1>3, <2>1, <2>2
<1>4. CASE b = "strand" /\ StrandFree
  <2>1. ChainLinks' = ChainLinks
    BY <1>1, <1>4, LinksNat DEF ChainLinks, InStrand, InQueue, StrandFree
  <2>2. TypeOK'
    BY <1>1, <1>4 DEF TypeOK
  <2> QED
    BY <1>4, <2>1, <2>2
<1>5. CASE b = "strand" /\ ~StrandFree
  <2>1. ~HasChainOp(strandQ) /\ "tick" \in ChainOps
    BY <1>1, <1>2, LinksNat DEF ChainLinks, InQueue, ChainOps
  <2>2. HasChainOp(strandQ') /\ OneChainOp(strandQ') /\ strandQ' \in Seq(StrandOps)
    BY <1>5, <2>1, AppendChainOp DEF TypeOK
  <2>3. ChainLinks' = ChainLinks
    BY <1>1, <1>5, <2>1, <2>2, LinksNat DEF ChainLinks, InStrand, InQueue
  <2>4. TypeOK'
    BY <1>1, <1>5, <2>2 DEF TypeOK
  <2> QED
    BY <1>5, <2>2, <2>3, <2>4
<1> QED
  BY <1>3, <1>4, <1>5 DEF Binding

\* The handler of an aborted wait is the last link when it clears running_.
LEMMA HandlerAbortedIInv == \A b \in Binding : IInv /\ HandlerAborted(b) => IInv'
<1> SUFFICES ASSUME NEW b \in Binding, IInv, HandlerAborted(b) PROVE IInv'
  OBVIOUS
<1> USE DEF IInv, OneChain, NotRunningMeansQuiet, HandlerAborted
<1>1. aborted' \in [Binding -> Nat] /\ Waits(aborted') = Waits(aborted) - 1
  BY WaitsExcept DEF TypeOK
<1>2. Waits(aborted') \in Nat
  BY <1>1, WaitsNat
<1>3. CASE b = "unbound" \/ StrandFree
  <2>1. ChainLinks' = 0
    BY <1>1, <1>2, <1>3, LinksNat DEF ChainLinks, InStrand, InQueue
  <2>2. TypeOK'
    BY <1>1, <1>3 DEF TypeOK
  <2> QED
    BY <1>3, <2>1, <2>2
<1>4. CASE ~(b = "unbound" \/ StrandFree)
  <2>1. ~HasChainOp(strandQ) /\ "abort" \in ChainOps
    BY <1>1, <1>2, LinksNat DEF ChainLinks, InQueue, ChainOps
  <2>2. HasChainOp(strandQ') /\ OneChainOp(strandQ') /\ strandQ' \in Seq(StrandOps)
    BY <1>4, <2>1, AppendChainOp DEF TypeOK
  <2>3. ChainLinks' = ChainLinks
    BY <1>1, <1>4, <2>1, <2>2, LinksNat DEF ChainLinks, InStrand, InQueue
  <2>4. TypeOK'
    BY <1>1, <1>4, <2>2 DEF TypeOK
  <2> QED
    BY <1>4, <2>2, <2>3, <2>4
<1> QED
  BY <1>3, <1>4

\* A handler ends: it was the only link, and it arms the next wait, or clears
\* running_ at the end of the source, or throws and leaves running_ set.
LEMMA HandlerEndsIInv == IInv /\ HandlerEnds => IInv'
<1> SUFFICES ASSUME IInv, HandlerEnds PROVE IInv'
  OBVIOUS
<1> USE DEF IInv, OneChain, NotRunningMeansQuiet
<1>1. /\ bodies' \in Nat /\ holder' \in {"none", "body"}
      /\ UNCHANGED <<session, owner, due, strandQ>>
  BY DEF TypeOK, HandlerEnds
<1>2. /\ bodies' = 0 /\ InStrand' = 0 /\ InQueue' = 0 /\ running = TRUE
      /\ Waits(armed) = 0 /\ Waits(due') = 0 /\ Waits(aborted) = 0
  <2>1. bodies + InStrand >= 1 /\ bodies + InStrand \in Nat
    BY LinksNat DEF HandlerEnds, InStrand
  <2>2. ChainLinks = 1
    BY <2>1, LinksNat DEF ChainLinks
  <2>3. /\ bodies + InStrand = 1 /\ InQueue = 0
        /\ Waits(armed) = 0 /\ Waits(due) = 0 /\ Waits(aborted) = 0
    BY <2>1, <2>2, LinksNat DEF ChainLinks
  <2>4. running = TRUE
    BY <2>2 DEF TypeOK
  <2>5. bodies' = 0 /\ holder' = "none"
    BY <2>3, LinksNat DEF HandlerEnds, InStrand, TypeOK
  <2>6. InQueue' = InQueue
    BY <1>1 DEF InQueue
  <2>7. InStrand' = 0
    BY <2>5 DEF InStrand
  <2> QED
    BY <1>1, <2>3, <2>4, <2>5, <2>6, <2>7
<1>3. CASE SourceEnded
  <2>1. ChainLinks' = 0
    BY <1>1, <1>2, <1>3 DEF SourceEnded, ChainLinks
  <2>2. TypeOK'
    BY <1>1, <1>3 DEF SourceEnded, TypeOK
  <2> QED
    BY <1>1, <1>3, <2>1, <2>2 DEF SourceEnded
<1>4. CASE FrameSent
  <2>1. left' \in 0..MaxFrames
    BY <1>4, SenderAssumption DEF TypeOK, FrameSent
  <2>2. fecLeft' \in 0..FecK
    BY <1>4, SenderAssumption DEF TypeOK, FrameSent, FecCount
  <2>3. /\ armed' \in [Binding -> Nat] /\ aborted' \in [Binding -> Nat]
        /\ Waits(armed') \in {0, 1} /\ Waits(aborted') = 0
    <3>1. CASE FecThrows
      BY <1>2, <1>4, <3>1 DEF FrameSent, TypeOK
    <3>2. CASE ~FecThrows
      BY <1>2, <1>4, <3>2, ArmLinks DEF FrameSent, Binding
    <3> QED
      BY <3>1, <3>2
  <2>4. ChainLinks' <= 1
    BY <1>1, <1>2, <2>3 DEF ChainLinks
  <2>5. TypeOK'
    BY <1>1, <1>4, <2>1, <2>2, <2>3 DEF FrameSent, TypeOK
  <2> QED
    BY <1>1, <1>2, <1>4, <2>4, <2>5 DEF FrameSent
<1> QED
  BY <1>3, <1>4 DEF HandlerEnds

\* The strand runs its next function.
LEMMA StrandRunIInv == IInv /\ StrandRun => IInv'
<1> SUFFICES ASSUME IInv, StrandRun PROVE IInv'
  OBVIOUS
<1> USE DEF IInv, OneChain, NotRunningMeansQuiet
<1>1. /\ holder = "none" /\ strandQ # <<>> /\ strandQ' = Tail(strandQ)
      /\ UNCHANGED <<session, owner, due, bodies, left, fecLeft>>
      /\ InStrand = 0
  BY DEF StrandRun, InStrand
<1>2. CASE Head(strandQ) = "cancel"
  <2>1. CancelWaits /\ UNCHANGED <<running, holder>>
    BY <1>2 DEF StrandRun
  <2>2. /\ strandQ' \in Seq(StrandOps)
        /\ HasChainOp(strandQ') <=> HasChainOp(strandQ)
        /\ OneChainOp(strandQ')
    BY <1>1, <1>2, TailCancel DEF TypeOK
  <2>3. /\ armed' \in [Binding -> Nat] /\ aborted' \in [Binding -> Nat]
        /\ Waits(armed') = 0 /\ Waits(aborted') = Waits(aborted) + Waits(armed)
    BY <2>1, CancelLinks
  <2>4. ChainLinks' = ChainLinks
    BY <1>1, <2>1, <2>2, <2>3, LinksNat DEF ChainLinks, InStrand, InQueue
  <2>5. TypeOK'
    BY <1>1, <2>1, <2>2, <2>3 DEF TypeOK
  <2> QED
    BY <1>1, <2>1, <2>2, <2>4, <2>5
<1>3. CASE Head(strandQ) \in ChainOps
  <2>1. /\ strandQ' \in Seq(StrandOps) /\ OneChainOp(strandQ')
        /\ InQueue = 1 /\ InQueue' = 0
    BY <1>1, <1>3, TailChainOp DEF TypeOK, InQueue
  <2>2. /\ ChainLinks = 1 /\ bodies' = 0 /\ running
        /\ Waits(armed) = 0 /\ Waits(due') = 0 /\ Waits(aborted) = 0
    BY <1>1, <2>1, LinksNat DEF ChainLinks
  <2>3. CASE Head(strandQ) = "arm"
    <3>1. ArmTimer("unbound") /\ UNCHANGED <<running, holder>>
      BY <2>3 DEF StrandRun
    <3>2. /\ armed' \in [Binding -> Nat] /\ aborted' \in [Binding -> Nat]
          /\ Waits(armed') = 1 /\ Waits(aborted') = 0
      BY <2>2, <3>1, ArmLinks DEF Binding
    <3>3. ChainLinks' = 1
      BY <1>1, <2>1, <2>2, <3>1, <3>2 DEF ChainLinks, InStrand
    <3>4. TypeOK'
      BY <1>1, <2>1, <3>1, <3>2 DEF TypeOK
    <3> QED
      BY <1>1, <2>1, <2>2, <3>1, <3>3, <3>4
  <2>4. CASE Head(strandQ) = "abort"
    <3>1. running' = FALSE /\ UNCHANGED <<armed, aborted, holder>>
      BY <2>4 DEF StrandRun
    <3>2. ChainLinks' = 0
      BY <1>1, <2>1, <2>2, <3>1 DEF ChainLinks, InStrand
    <3>3. TypeOK'
      BY <1>1, <2>1, <3>1 DEF TypeOK
    <3> QED
      BY <1>1, <2>1, <3>1, <3>2, <3>3
  <2>5. CASE Head(strandQ) = "tick"
    <3>1. holder' = "body" /\ UNCHANGED <<running, armed, aborted>>
      BY <2>5 DEF StrandRun
    <3>2. ChainLinks' = 1
      BY <1>1, <2>1, <2>2, <3>1 DEF ChainLinks, InStrand
    <3>3. TypeOK'
      BY <1>1, <2>1, <3>1 DEF TypeOK
    <3> QED
      BY <1>1, <2>1, <2>2, <3>1, <3>2, <3>3
  <2> QED
    BY <1>3, <2>3, <2>4, <2>5 DEF ChainOps
<1>4. Head(strandQ) \in StrandOps
  BY <1>1 DEF TypeOK
<1> QED
  BY <1>2, <1>3, <1>4 DEF StrandOps

\* Every step of the specification preserves the invariant.
LEMMA NextIInv == IInv /\ [Next]_vars => IInv'
<1> SUFFICES ASSUME IInv, [Next]_vars PROVE IInv'
  OBVIOUS
<1>1. CASE Play
  BY <1>1, PlayIInv
<1>2. CASE Pause
  BY <1>2, StopIInv DEF Pause
<1>3. CASE BeginDestroy
  BY <1>3, StopIInv DEF BeginDestroy, IInv, TypeOK
<1>4. CASE EndDestroy
  BY <1>4 DEF EndDestroy, IInv, TypeOK, OneChain, NotRunningMeansQuiet,
              ChainLinks, InStrand, InQueue
<1>5. CASE IoThreads
  BY <1>5, ExpireIInv, HandlerDueIInv, HandlerAbortedIInv, HandlerEndsIInv,
     StrandRunIInv DEF IoThreads
<1>6. CASE UNCHANGED vars
  BY <1>6 DEF vars, IInv, TypeOK, OneChain, NotRunningMeansQuiet, ChainLinks,
              InStrand, InQueue
<1> QED
  BY <1>1, <1>2, <1>3, <1>4, <1>5, <1>6 DEF Next

LEMMA SpecIInv == Spec => []IInv
BY InitIInv, NextIInv, PTL DEF Spec

-----------------------------------------------------------------------------
(* Results.                                                                *)

\* Every variable keeps its type; in particular the counter of the FEC group
\* and the frames left never leave their range.
THEOREM SenderTypeCorrect == Spec => []TypeOK
BY SpecIInv, PTL DEF IInv

\* start(), stop(), expiries and cancellations in any order never yield a
\* second timer chain.
THEOREM SenderOneChain == Spec => []OneChain
BY SpecIInv, PTL DEF IInv

\* running_ is false only when no wait, handler or arming function is left.
THEOREM SenderNotRunningMeansQuiet == Spec => []NotRunningMeansQuiet
BY SpecIInv, PTL DEF IInv

\* No timer handler runs on a destroyed sender.
THEOREM SenderNoHandlerAfterDestruction == Spec => []NoHandlerAfterDestruction
<1>1. IInv => NoHandlerAfterDestruction
  BY DEF IInv, NotRunningMeansQuiet, NoHandlerAfterDestruction
<1> QED
  BY <1>1, SpecIInv, PTL
=============================================================================
