------------------------------ MODULE RtpSender ------------------------------
(***************************************************************************)
(* Life cycle of one unicast_jpeg_rtp_sender (rtp_lib/src/rtp_endsystem.cpp *)
(* 13-171) under the RTSP methods that drive it (rtsp_lib/src/             *)
(* rtsp_methods.cpp 260-300).                                              *)
(*                                                                         *)
(* PLAY calls start(), PAUSE calls stop(), deleting the session runs the   *)
(* destructor; all three are called by an io thread that holds             *)
(* sessions_mutex_, so they never overlap each other.  They do overlap the *)
(* timer handler send_next_packet_handler, which the other io threads run. *)
(* The io_context, its timers and its strand are external (Boost.Asio):    *)
(*                                                                         *)
(*  - a wait on send_packet_timer_ is "armed" until the timer expires      *)
(*    ("due": its handler is queued with success) or is cancelled          *)
(*    ("aborted": queued with operation_aborted).  cancel() has no effect  *)
(*    on a wait that is already due;                                       *)
(*  - the handler armed by start() is not bound to the strand ("unbound"), *)
(*    the one a handler arms for the next frame is ("strand");             *)
(*  - dispatch to the strand runs the function at once when the strand is  *)
(*    free and queues it behind the others when it is not.                 *)
(*                                                                         *)
(* What a packet contains is left out; the source is the number of frames  *)
(* that can still be read before a read, a parse or the file ends.         *)
(***************************************************************************)
EXTENDS Integers, Sequences

CONSTANTS
    MaxFrames,  \* longest source
    UseFec,     \* the session was set up with the channel/FEC option
    FecK,       \* fec_k of that option (uint16_t)
    MaskBits,   \* bits of the FEC mask array: 6 octets, 48 bits
    MaxQueue    \* bound of the model on functions queued in the strand

ASSUME SenderAssumption ==
    /\ MaxFrames \in Nat
    /\ UseFec \in BOOLEAN
    /\ FecK \in Nat
    /\ MaskBits \in Nat
    /\ MaxQueue \in Nat

VARIABLES
    session,   \* rtsp_server_session::state_ of the owning session
    owner,     \* the sender object: "alive", "destroying" (in ~...), "dead"
    running,   \* running_
    armed,     \* number of waits pending on send_packet_timer_, by binding
    due,       \* number of handlers queued with success, by binding
    aborted,   \* number of handlers queued with operation_aborted, by binding
    bodies,    \* unbound handlers that are executing
    holder,    \* what executes in the strand: "none" or a handler ("body")
    strandQ,   \* functions waiting for the strand
    left,      \* frames still readable from jpeg_source_
    fecLeft    \* current_fec_k_

vars == <<session, owner, running, armed, due, aborted, bodies, holder,
          strandQ, left, fecLeft>>

Binding == {"unbound", "strand"}

\* "arm" is the function of start(), "cancel" that of stop(), "tick" and
\* "abort" are timer handlers that found the strand taken.
ChainOps == {"arm", "tick", "abort"}
StrandOps == ChainOps \cup {"cancel"}

TypeOK ==
    /\ session \in {"ready", "playing"}
    /\ owner \in {"alive", "destroying", "dead"}
    /\ running \in BOOLEAN
    /\ armed \in [Binding -> Nat]
    /\ due \in [Binding -> Nat]
    /\ aborted \in [Binding -> Nat]
    /\ bodies \in Nat
    /\ holder \in {"none", "body"}
    /\ strandQ \in Seq(StrandOps)
    /\ left \in 0..MaxFrames
    /\ fecLeft \in 0..FecK

\* The constructor: nothing runs, the session was just set to ready by SETUP.
Init ==
    /\ session = "ready"
    /\ owner = "alive"
    /\ running = FALSE
    /\ armed = [b \in Binding |-> 0]
    /\ due = [b \in Binding |-> 0]
    /\ aborted = [b \in Binding |-> 0]
    /\ bodies = 0
    /\ holder = "none"
    /\ strandQ = <<>>
    /\ left \in 0..MaxFrames
    /\ fecLeft = FecK

-----------------------------------------------------------------------------
(* The timer and the strand of Boost.Asio.                                 *)

StrandFree == holder = "none" /\ strandQ = <<>>

\* cancel(): every pending wait completes with operation_aborted.
CancelWaits ==
    /\ aborted' = [b \in Binding |-> aborted[b] + armed[b]]
    /\ armed' = [b \in Binding |-> 0]

\* expires_after / expires_at cancel what is pending, async_wait adds one wait.
ArmTimer(binding) ==
    /\ aborted' = [b \in Binding |-> aborted[b] + armed[b]]
    /\ armed' = [b \in Binding |-> IF b = binding THEN 1 ELSE 0]

Expire(b) ==
    /\ armed[b] > 0
    /\ armed' = [armed EXCEPT ![b] = @ - 1]
    /\ due' = [due EXCEPT ![b] = @ + 1]
    /\ UNCHANGED <<session, owner, running, aborted, bodies, holder, strandQ,
                   left, fecLeft>>

-----------------------------------------------------------------------------
(* start(), stop() and the destructor.                                     *)

\* Mutant of StartSender: running_ is not tested.
StartUnguarded ==
    /\ running' = TRUE
    /\ IF StrandFree
       THEN ArmTimer("unbound") /\ UNCHANGED strandQ
       ELSE strandQ' = Append(strandQ, "arm") /\ UNCHANGED <<armed, aborted>>

\* start(): nothing if running_, else set it and dispatch the arming function.
StartSender ==
    IF running
    THEN UNCHANGED <<running, armed, aborted, strandQ>>
    ELSE /\ running' = TRUE
         /\ IF StrandFree
            THEN ArmTimer("unbound") /\ UNCHANGED strandQ
            ELSE strandQ' = Append(strandQ, "arm") /\ UNCHANGED <<armed, aborted>>

\* Mutant of StopSender: running_ is cleared here and not by the handler.
StopClears ==
    /\ IF running /\ StrandFree
       THEN CancelWaits
       ELSE UNCHANGED <<armed, aborted>>
    /\ strandQ' = IF running /\ ~StrandFree THEN Append(strandQ, "cancel")
                                            ELSE strandQ
    /\ running' = FALSE

\* stop(): nothing unless running_, else dispatch the cancelling function.
StopSender ==
    /\ IF running /\ StrandFree
       THEN CancelWaits
       ELSE UNCHANGED <<armed, aborted>>
    /\ strandQ' = IF running /\ ~StrandFree THEN Append(strandQ, "cancel")
                                            ELSE strandQ
    /\ UNCHANGED running

\* methods::play in the state ready; in playing it only answers 200.
Play ==
    /\ owner = "alive"
    /\ session = "ready"
    /\ Len(strandQ) < MaxQueue
    /\ StartSender
    /\ session' = "playing"
    /\ UNCHANGED <<owner, due, bodies, holder, left, fecLeft>>

\* methods::pause in the state playing; in any other it only answers 455.
Pause ==
    /\ owner = "alive"
    /\ session = "playing"
    /\ Len(strandQ) < MaxQueue
    /\ StopSender
    /\ session' = "ready"
    /\ UNCHANGED <<owner, due, bodies, holder, left, fecLeft>>

\* TEARDOWN or a host timeout erases the session: the destructor calls stop()
\* and then spins until running_ is false.
BeginDestroy ==
    /\ owner = "alive"
    /\ owner' = "destroying"
    /\ StopSender
    /\ UNCHANGED <<session, due, bodies, holder, left, fecLeft>>

EndDestroy ==
    /\ owner = "destroying"
    /\ ~running
    /\ owner' = "dead"
    /\ UNCHANGED <<session, running, armed, due, aborted, bodies, holder,
                   strandQ, left, fecLeft>>

-----------------------------------------------------------------------------
(* send_next_packet_handler.                                               *)

\* A due handler starts: an unbound one at once, a bound one when it gets the
\* strand.
HandlerDue(b) ==
    /\ due[b] > 0
    /\ due' = [due EXCEPT ![b] = @ - 1]
    /\ CASE b = "unbound" ->
              bodies' = bodies + 1 /\ UNCHANGED <<holder, strandQ>>
         [] b = "strand" /\ StrandFree ->
              holder' = "body" /\ UNCHANGED <<bodies, strandQ>>
         [] OTHER ->
              strandQ' = Append(strandQ, "tick") /\ UNCHANGED <<bodies, holder>>
    /\ UNCHANGED <<session, owner, running, armed, aborted, left, fecLeft>>

\* The handler of a cancelled wait clears running_ and returns.
HandlerAborted(b) ==
    /\ aborted[b] > 0
    /\ aborted' = [aborted EXCEPT ![b] = @ - 1]
    /\ IF b = "unbound" \/ StrandFree
       THEN running' = FALSE /\ UNCHANGED strandQ
       ELSE strandQ' = Append(strandQ, "abort") /\ UNCHANGED running
    /\ UNCHANGED <<session, owner, armed, due, bodies, holder, left, fecLeft>>

\* Mutant of SourceEnded: one of the early returns forgets running_.
SourceEndedSilently ==
    /\ left = 0
    /\ UNCHANGED <<running, armed, aborted, left, fecLeft>>

\* The source ended (short read, unparsable length, end of file): running_ is
\* cleared and nothing is armed.
SourceEnded ==
    /\ left = 0
    /\ running' = FALSE
    /\ UNCHANGED <<armed, aborted, left, fecLeft>>

\* generate_next_fec_packet counts the packet; the one that completes a group
\* of more than MaskBits packets throws out_of_range from mask.at().
FecCompletes == UseFec /\ fecLeft <= 1
FecThrows == FecCompletes /\ FecK > MaskBits

FecCount == IF ~UseFec THEN fecLeft ELSE IF fecLeft > 1 THEN fecLeft - 1 ELSE FecK

\* A frame is read and sent, and the wait for the next one is armed, unless
\* the FEC generator throws out of the handler.
FrameSent ==
    /\ left > 0
    /\ left' = left - 1
    /\ fecLeft' = FecCount
    /\ IF FecThrows THEN UNCHANGED <<armed, aborted>> ELSE ArmTimer("strand")
    /\ UNCHANGED running

\* The rest of a handler that was called without an error.
HandlerEnds ==
    /\ \/ bodies > 0 /\ bodies' = bodies - 1 /\ UNCHANGED holder
       \/ holder = "body" /\ holder' = "none" /\ UNCHANGED bodies
    /\ SourceEnded \/ FrameSent
    /\ UNCHANGED <<session, owner, due, strandQ>>

\* The strand runs the function at the head of its queue.
StrandRun ==
    /\ holder = "none"
    /\ strandQ # <<>>
    /\ strandQ' = Tail(strandQ)
    /\ CASE Head(strandQ) = "arm" ->
              ArmTimer("unbound") /\ UNCHANGED <<running, holder>>
         [] Head(strandQ) = "cancel" ->
              CancelWaits /\ UNCHANGED <<running, holder>>
         [] Head(strandQ) = "abort" ->
              running' = FALSE /\ UNCHANGED <<armed, aborted, holder>>
         [] OTHER ->
              holder' = "body" /\ UNCHANGED <<running, armed, aborted>>
    /\ UNCHANGED <<session, owner, due, bodies, left, fecLeft>>

-----------------------------------------------------------------------------
IoThreads ==
    \/ \E b \in Binding : Expire(b) \/ HandlerDue(b) \/ HandlerAborted(b)
    \/ HandlerEnds
    \/ StrandRun

Next == Play \/ Pause \/ BeginDestroy \/ EndDestroy \/ IoThreads

Spec == Init /\ [][Next]_vars

\* The io threads run whatever is queued and the spinning thread sees running_
\* change; no request is ever forced on the client.
FairSpec ==
    /\ Spec
    /\ \A b \in Binding : WF_vars(Expire(b)) /\ WF_vars(HandlerDue(b))
                                             /\ WF_vars(HandlerAborted(b))
    /\ WF_vars(HandlerEnds)
    /\ WF_vars(StrandRun)
    /\ WF_vars(EndDestroy)

-----------------------------------------------------------------------------
(* Properties.                                                             *)

\* A function of the timer chain waits in the strand's queue q; at most one.
HasChainOp(q) == \E i \in DOMAIN q : q[i] \in ChainOps
OneChainOp(q) ==
    \A i, j \in DOMAIN q : q[i] \in ChainOps /\ q[j] \in ChainOps => i = j

\* Links of the chain arm -> wait -> handler -> arm that exist right now.
Waits(f) == f["unbound"] + f["strand"]
InStrand == IF holder = "body" THEN 1 ELSE 0
InQueue == IF HasChainOp(strandQ) THEN 1 ELSE 0
ChainLinks == Waits(armed) + Waits(due) + Waits(aborted) + bodies + InStrand + InQueue

\* Whatever the order of PLAY, PAUSE, expiries, cancellations and end of file,
\* there is never a second timer chain: two handlers never read the source,
\* advance current_sequence_number or arm the timer concurrently, although the
\* first handler of each start() runs outside the strand.
OneChain == ChainLinks <= 1 /\ OneChainOp(strandQ)

\* running_ is false only when no wait, no handler and no queued arming
\* function is left.  It is what entitles start() to open a new chain and the
\* destructor to stop spinning on it.
NotRunningMeansQuiet == ~running => ChainLinks = 0

\* Once the destructor has returned, no timer handler of this sender is still
\* to run: send_next_packet_handler never sees a destroyed object.
NoHandlerAfterDestruction == owner = "dead" => ChainLinks = 0

\* The destructor returns (and releases the server's mutex) even when its
\* cancel comes too late for the handler that is already due.
DestructorReturns == owner = "destroying" ~> owner = "dead"

\* PLAY was answered with 200 and nothing is left to happen: then the movie is
\* over.  (The code breaks it: see the finding.)
PlayingMeansStreaming ==
    owner = "alive" /\ session = "playing" /\ ChainLinks = 0 /\ strandQ = <<>>
        => left = 0
=============================================================================
