------------------------- MODULE RtspServerPoolProofs -------------------------
(***************************************************************************)
(* The io threads of the server, for any number of threads, sessions and   *)
(* handlers: a destructor that spins under sessions_mutex_ has a thread    *)
(* left that can run the handler it waits for.                             *)
(***************************************************************************)
EXTENDS RtspServerPool, FiniteSetTheorems, TLAPS

-----------------------------------------------------------------------------
(* The inductive invariant.  Handlers are counted where they are accepted; *)
(* the holder of the mutex is in a handler, and a destructor is run by the *)
(* holder; a thread of a running io_context has returned only when there   *)
(* was no work, and without work nothing creates any.                      *)

Counted ==
    /\ Cardinality(Busy) <= MaxRequests
    /\ Queued # {} => Cardinality(Busy) < MaxRequests
    /\ \A q, r \in Queued : q = r

Held ==
    /\ mutex # NoThread => mutex \in Busy
    /\ victim # NoSession => mutex # NoThread

ExitedIdle ==
    ContextRuns /\ (\E t \in Thread : job[t] = "exited") => main = "graceful" /\ NoWork

PoolInv == TypeOK /\ Counted /\ Held /\ ExitedIdle

LEMMA BusyFinite ==
    /\ IsFiniteSet(Busy) /\ Cardinality(Busy) \in Nat
    /\ Cardinality(Busy) <= Cardinality(Thread) /\ Cardinality(Thread) \in Nat
<1>1. Busy \subseteq Thread
  BY DEF Busy
<1> QED
  BY <1>1, FS_Subset, FS_CardinalityType, PoolAssumption

\* A thread starts a handler, or returns from one.
LEMMA BusyAfter ==
    ASSUME TypeOK, NEW t \in Thread,
           NEW new \in Request \cup {"timeout", "idle", "exited"},
           job' = [job EXCEPT ![t] = new]
    PROVE  /\ new \in Request \cup {"timeout"} /\ t \notin Busy
                 => Busy' = Busy \cup {t} /\ Cardinality(Busy') = Cardinality(Busy) + 1
           /\ new \in {"idle", "exited"} /\ t \in Busy
                 => Busy' = Busy \ {t} /\ Cardinality(Busy') = Cardinality(Busy) - 1
           /\ new \in {"idle", "exited"} /\ t \notin Busy => Busy' = Busy
<1>1. \A u \in Thread : job'[u] = IF u = t THEN new ELSE job[u]
  BY DEF TypeOK
<1>2. "idle" \notin Request \cup {"timeout"} /\ "exited" \notin Request \cup {"timeout"}
  BY PoolAssumption DEF Request
<1>3. new \in Request \cup {"timeout"} => Busy' = Busy \cup {t}
  BY <1>1 DEF Busy
<1>4. new \in {"idle", "exited"} => Busy' = Busy \ {t}
  BY <1>1, <1>2 DEF Busy
<1>5. IsFiniteSet(Busy)
  BY BusyFinite
<1>6. t \notin Busy => Cardinality(Busy \cup {t}) = Cardinality(Busy) + 1
  BY <1>5, FS_AddElement
<1>7. t \in Busy => Cardinality(Busy \ {t}) = Cardinality(Busy) - 1
  BY <1>5, FS_RemoveElement
<1> QED
  BY <1>3, <1>4, <1>6, <1>7

LEMMA PoolInitOK == Init => PoolInv
<1> SUFFICES ASSUME Init PROVE PoolInv
  OBVIOUS
<1>1. TypeOK
  BY DEF Init, TypeOK
<1>2. Busy = {} /\ Queued = {}
  BY PoolAssumption DEF Init, Busy, Queued, Request
<1>3. Counted
  BY <1>2, FS_EmptySet, PoolAssumption DEF Counted
<1>4. Held
  BY DEF Init, Held
<1>5. ExitedIdle
  BY DEF Init, ExitedIdle
<1> QED
  BY <1>1, <1>3, <1>4, <1>5 DEF PoolInv

-----------------------------------------------------------------------------
(* Steps.  Every step but Exit needs work that is still there, a server    *)
(* that still serves, or the end of the io_context: no thread has returned *)
(* before it, and none returns in it.                                      *)

LEMMA NobodyLeft ==
    ASSUME PoolInv, main # "graceful" \/ ~NoWork,
           main' = main \/ main = "serving" \/ ~ContextRuns',
           \A t \in Thread : job'[t] = "exited" => job[t] = "exited"
    PROVE  ExitedIdle'
BY DEF PoolInv, ExitedIdle, ContextRuns

LEMMA SameHandlers ==
    ASSUME PoolInv, UNCHANGED <<queue, job>>
    PROVE  Counted' /\ Busy' = Busy
BY DEF PoolInv, Counted, Busy, Queued

\* The holder of the mutex is executing a handler, which is work.
LEMMA HolderWorks ==
    ASSUME PoolInv, NEW t \in Thread, mutex = t
    PROVE  t \in Busy /\ ~NoWork
BY PoolAssumption DEF PoolInv, Held, NoWork

LEMMA OutsideOK ==
    ASSUME PoolInv, \/ Connect \/ Disconnect \/ CloseUdp \/ Join \/ DestroyState
                    \/ Shutdown("graceful") \/ Shutdown("stopping")
                    \/ \E s \in Session : HandlerClears(s)
    PROVE  PoolInv'
<1>1. UNCHANGED <<queue, job, mutex, doomed, victim>>
  BY DEF Connect, Disconnect, CloseUdp, Join, DestroyState, Shutdown, HandlerClears
<1>2. TypeOK'
  <2>1. sender' \in [Session -> {"none", "quiet", "playing", "aborted", "gone"}]
    BY DEF Connect, Disconnect, CloseUdp, Join, DestroyState, Shutdown, HandlerClears,
           PoolInv, TypeOK
  <2>2. /\ conn' \in {"none", "active", "silent", "ended", "closing"}
        /\ main' \in {"serving", "graceful", "stopping", "joined", "destroyed"}
    BY DEF Connect, Disconnect, CloseUdp, Join, DestroyState, Shutdown, HandlerClears,
           PoolInv, TypeOK
  <2>3. udp' \in BOOLEAN
    BY Zenon DEF Connect, Disconnect, CloseUdp, Join, DestroyState, Shutdown, HandlerClears,
                 PoolInv, TypeOK
  <2> QED
    BY <1>1, <2>1, <2>2, <2>3 DEF PoolInv, TypeOK
<1>3. Counted' /\ Held'
  BY <1>1, SameHandlers DEF PoolInv, Held
<1>4. CASE Join
  <2>1. ExitedIdle'
    BY <1>4 DEF Join, ExitedIdle, ContextRuns
  <2> QED
    BY <1>2, <1>3, <2>1 DEF PoolInv
<1>5. CASE ~Join
  <2>1. main # "graceful" \/ ~NoWork
    BY <1>5 DEF Connect, Disconnect, CloseUdp, DestroyState, Shutdown, HandlerClears, NoWork
  <2>2. main' = main \/ main = "serving" \/ ~ContextRuns'
    BY <1>5 DEF Connect, Disconnect, CloseUdp, DestroyState, Shutdown, HandlerClears, ContextRuns
  <2>3. ExitedIdle'
    BY <1>1, <2>1, <2>2, NobodyLeft
  <2> QED
    BY <1>2, <1>3, <2>3 DEF PoolInv
<1> QED
  BY <1>4, <1>5

LEMMA ArriveOK ==
    ASSUME PoolInv, NEW r \in Request, Arrive(r)
    PROVE  PoolInv'
<1>1. /\ queue \in [Request -> 0..1] /\ queue' = [queue EXCEPT ![r] = 1]
      /\ UNCHANGED <<job, mutex, doomed, victim, sender, udp, main>>
      /\ RoomForHandler /\ conn' \in {"none", "active", "silent", "ended", "closing"}
      /\ udp \/ conn # "none"
  BY DEF Arrive, PoolInv, TypeOK
<1>2. TypeOK'
  BY <1>1 DEF PoolInv, TypeOK
<1>3. Queued' = {r} /\ Busy' = Busy /\ Cardinality(Busy) < MaxRequests
  BY <1>1 DEF Queued, Busy, RoomForHandler
<1>4. Counted' /\ Held'
  BY <1>1, <1>3, BusyFinite DEF PoolInv, Counted, Held
<1>5. ExitedIdle'
  BY <1>1, NobodyLeft DEF NoWork
<1> QED
  BY <1>2, <1>4, <1>5 DEF PoolInv

LEMMA TimeoutCheckOK ==
    ASSUME PoolInv, NEW t \in Thread, TimeoutCheck(t)
    PROVE  PoolInv'
<1>1. /\ UNCHANGED <<queue, mutex, doomed, victim, sender, udp, main>> /\ job[t] = "idle"
      /\ conn # "none" /\ conn' \in {"none", "active", "silent", "ended", "closing"}
      /\ UNCHANGED job \/ (RoomForHandler /\ job' = [job EXCEPT ![t] = "timeout"])
  BY DEF TimeoutCheck
<1>2. TypeOK'
  BY <1>1 DEF PoolInv, TypeOK
<1>3. ExitedIdle'
  <2>1. \A u \in Thread : job'[u] = "exited" => job[u] = "exited"
    BY <1>1 DEF PoolInv, TypeOK
  <2> QED
    BY <1>1, <2>1, NobodyLeft DEF NoWork
<1>4. CASE UNCHANGED job
  BY <1>1, <1>2, <1>3, <1>4, SameHandlers DEF PoolInv, Held
<1>5. CASE RoomForHandler /\ job' = [job EXCEPT ![t] = "timeout"]
  <2>1. t \notin Busy
    BY <1>1, PoolAssumption DEF Busy, Request
  <2>2. Busy' = Busy \cup {t} /\ Cardinality(Busy') = Cardinality(Busy) + 1
    BY <1>5, <2>1, BusyAfter DEF PoolInv
  <2>3. Queued' = {} /\ Cardinality(Busy) < MaxRequests
    BY <1>1, <1>5 DEF RoomForHandler, Queued
  <2>4. Counted' /\ Held'
    BY <1>1, <2>2, <2>3, BusyFinite, PoolAssumption DEF PoolInv, Counted, Held
  <2> QED
    BY <1>2, <1>3, <2>4 DEF PoolInv
<1> QED
  BY <1>1, <1>4, <1>5

LEMMA TakeOK ==
    ASSUME PoolInv, NEW t \in Thread, NEW r \in Request, Take(t, r)
    PROVE  PoolInv'
<1>1. /\ UNCHANGED <<mutex, doomed, victim, sender, conn, udp, main>>
      /\ job[t] = "idle" /\ queue[r] > 0 /\ queue' = [queue EXCEPT ![r] = @ - 1]
      /\ job' = [job EXCEPT ![t] = r] /\ queue \in [Request -> 0..1]
  BY DEF Take, PoolInv, TypeOK
<1>2. TypeOK'
  BY <1>1 DEF PoolInv, TypeOK
<1>3. t \notin Busy
  BY <1>1, PoolAssumption DEF Busy, Request
<1>4. Busy' = Busy \cup {t} /\ Cardinality(Busy') = Cardinality(Busy) + 1
  BY <1>1, <1>3, BusyAfter DEF PoolInv
<1>5. r \in Queued /\ Queued' = Queued \ {r}
  BY <1>1 DEF Queued
<1>6. Queued' = {} /\ Cardinality(Busy) < MaxRequests
  BY <1>5 DEF PoolInv, Counted
<1>7. Counted' /\ Held'
  BY <1>1, <1>4, <1>6, BusyFinite, PoolAssumption DEF PoolInv, Counted, Held
<1>8. \A u \in Thread : job'[u] = "exited" => job[u] = "exited"
  BY <1>1, PoolAssumption DEF PoolInv, TypeOK, Request
<1>9. ExitedIdle'
  BY <1>1, <1>5, <1>8, NobodyLeft DEF NoWork
<1> QED
  BY <1>2, <1>7, <1>9 DEF PoolInv

LEMMA UnderMutexOK ==
    ASSUME PoolInv, NEW t \in Thread,
           Lock(t) \/ SpinEnds(t) \/ \E s \in Session : DestroySender(t, s)
    PROVE  PoolInv'
<1>1. UNCHANGED <<queue, job, conn, udp, main>> /\ mutex' = t /\ t \in Busy
  BY HolderWorks DEF Lock, SpinEnds, DestroySender
<1>2. TypeOK'
  <2>1. doomed' \in SUBSET Session /\ victim' \in Session \cup {NoSession}
    BY DEF Lock, SpinEnds, DestroySender, PoolInv, TypeOK
  <2>2. sender' \in [Session -> {"none", "quiet", "playing", "aborted", "gone"}]
    BY DEF Lock, SpinEnds, DestroySender, PoolInv, TypeOK
  <2> QED
    BY <1>1, <2>1, <2>2 DEF PoolInv, TypeOK
<1>3. Counted' /\ Busy' = Busy
  BY <1>1, SameHandlers
<1>4. Held'
  BY <1>1, <1>3, PoolAssumption DEF Held
<1>5. ExitedIdle'
  BY <1>1, NobodyLeft DEF NoWork
<1> QED
  BY <1>2, <1>3, <1>4, <1>5 DEF PoolInv

LEMMA FinishOK ==
    ASSUME PoolInv, NEW t \in Thread, Finish(t)
    PROVE  PoolInv'
<1>1. /\ UNCHANGED <<queue, doomed, victim, udp, main>> /\ victim = NoSession
      /\ mutex = t /\ mutex' = NoThread /\ job' = [job EXCEPT ![t] = "idle"]
      /\ conn' = IF job[t] = "timeout" THEN "none" ELSE conn
  BY DEF Finish
<1>2. t \in Busy /\ ~NoWork
  BY <1>1, HolderWorks
<1>3. sender' \in [Session -> {"none", "quiet", "playing", "aborted", "gone"}]
  BY DEF Finish, PoolInv, TypeOK
<1>4. TypeOK'
  BY <1>1, <1>3 DEF PoolInv, TypeOK
<1>5. Busy' = Busy \ {t} /\ Cardinality(Busy') = Cardinality(Busy) - 1
  BY <1>1, <1>2, BusyAfter DEF PoolInv
<1>6. Counted'
  BY <1>1, <1>5, BusyFinite, PoolAssumption DEF PoolInv, Counted, Queued
<1>7. Held'
  BY <1>1 DEF Held
<1>8. ExitedIdle'
  BY <1>1, <1>2, NobodyLeft DEF PoolInv, TypeOK
<1> QED
  BY <1>4, <1>6, <1>7, <1>8 DEF PoolInv

LEMMA ExitOK ==
    ASSUME PoolInv, NEW t \in Thread, Exit(t)
    PROVE  PoolInv'
<1>1. /\ UNCHANGED <<queue, mutex, doomed, victim, sender, conn, udp, main>>
      /\ main = "stopping" \/ (main = "graceful" /\ NoWork)
      /\ job[t] = "idle" /\ job' = [job EXCEPT ![t] = "exited"]
  BY DEF Exit
<1>2. TypeOK'
  BY <1>1 DEF PoolInv, TypeOK
<1>3. t \notin Busy
  BY <1>1, PoolAssumption DEF Busy, Request
<1>4. Busy' = Busy /\ Queued' = Queued
  BY <1>1, <1>3, BusyAfter DEF PoolInv, Queued
<1>5. Counted' /\ Held'
  BY <1>1, <1>4 DEF PoolInv, Counted, Held
<1>6. ExitedIdle'
  BY <1>1, <1>4 DEF ExitedIdle, ContextRuns, NoWork, Running
<1> QED
  BY <1>2, <1>5, <1>6 DEF PoolInv

LEMMA PoolStepOK == PoolInv /\ [Next]_vars => PoolInv'
<1> SUFFICES ASSUME PoolInv, [Next]_vars PROVE PoolInv'
  OBVIOUS
<1>1. CASE UNCHANGED vars
  BY <1>1 DEF vars, PoolInv, TypeOK, Counted, Held, ExitedIdle, Busy, Queued, ContextRuns,
              NoWork, Running
<1>2. CASE Next
  BY <1>2, OutsideOK, ArriveOK, TimeoutCheckOK, TakeOK, UnderMutexOK, FinishOK, ExitOK
     DEF Next, Threads
<1> QED
  BY <1>1, <1>2

LEMMA PoolInvariance == Spec => []PoolInv
BY PoolInitOK, PoolStepOK, PTL DEF Spec

-----------------------------------------------------------------------------

\* Queue, threads, mutex and senders keep their types in every interleaving,
\* through both kinds of shutdown.
THEOREM PoolTypeCorrect == Spec => []TypeOK
<1>1. PoolInv => TypeOK
  BY DEF PoolInv
<1> QED
  BY PoolInvariance, <1>1, PTL

\* With more io threads than handlers that need the mutex, ~rtp_session never
\* spins without a thread that can run the handler clearing running_.
THEOREM PoolSpinHasHelper ==
    ASSUME MaxRequests < Cardinality(Thread)
    PROVE  Spec => []SpinHasHelper
<1>1. PoolInv => SpinHasHelper
  <2> SUFFICES ASSUME PoolInv, victim # NoSession, ContextRuns PROVE Idle # {}
    BY DEF SpinHasHelper
  <2>1. Busy # {}
    BY DEF PoolInv, Held
  <2>2. \A t \in Thread : job[t] # "exited"
    BY <2>1 DEF PoolInv, ExitedIdle, NoWork
  <2>3. Busy # Thread
    BY BusyFinite, PoolAssumption DEF PoolInv, Counted
  <2>4. PICK t \in Thread : t \notin Busy
    BY <2>3 DEF Busy
  <2>5. job[t] = "idle"
    BY <2>2, <2>4 DEF PoolInv, TypeOK, Busy
  <2> QED
    BY <2>5 DEF Idle
<1> QED
  BY PoolInvariance, <1>1, PTL
===============================================================================
