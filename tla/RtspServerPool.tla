---------------------------- MODULE RtspServerPool ----------------------------
(***************************************************************************)
(* The io threads of rtsp_server (rtsp_server.cpp), the mutex of           *)
(* rtsp_server_state and the senders whose destructor spins.               *)
(*                                                                         *)
(* handle_incoming_request runs on an io thread under sessions_mutex_; a   *)
(* TEARDOWN erases the session there, and the sender's destructor spins    *)
(* until a timer handler, run by another io thread, has cleared running_.  *)
(* The timeout check of an idle connection does the same with every        *)
(* session of its host, one after the other.                               *)
(* ~rtsp_server stops the io_context, joins the threads and then destroys  *)
(* the sessions that are left; graceful_shutdown joins threads that return *)
(* when the io_context has no work left, and a TCP connection is work.     *)
(* Requests and handlers are reduced to the thread and the mutex they      *)
(* need; what they do to the table is in RtspServerState, the timer and    *)
(* strand of a sender in RtpSender.                                        *)
(***************************************************************************)
EXTENDS Naturals, FiniteSets

CONSTANTS
    Thread,       \* io_run_threads_
    Session,
    MaxRequests,  \* bound on handlers that need the mutex, queued or running
    NoThread, NoSession

ASSUME PoolAssumption ==
    /\ IsFiniteSet(Thread) /\ Thread # {}
    /\ MaxRequests \in Nat
    /\ NoThread \notin Thread
    /\ NoSession \notin Session
    /\ Session \cap {"other", "timeout", "idle", "exited"} = {}

VARIABLES
    queue,    \* requests waiting for a thread: "other" or a session to tear down
    job,      \* what each thread does: "idle", "exited", "timeout" (in
              \* handle_timeout_of_host), or a request it handles
    mutex,    \* holder of sessions_mutex_
    doomed,   \* sessions that the holder has yet to destroy
    victim,   \* the session whose destructor it is in
    sender,   \* per session: "none", "quiet", "playing", "aborted" (cancelled,
              \* its handler is queued), "gone"
    conn,     \* a TCP connection: "none", "active" (a request in the last
              \* period), "silent", "ended" (by the client), "closing" (by us)
    udp,      \* the UDP sockets are open
    main      \* "serving", "graceful" (in graceful_shutdown), "stopping" (in
              \* ~rtsp_server), "joined", "destroyed"

vars == <<queue, job, mutex, doomed, victim, sender, conn, udp, main>>

Request == {"other"} \cup Session
Idle == {t \in Thread : job[t] = "idle"}
Busy == {t \in Thread : job[t] \in Request \cup {"timeout"}}
Queued == {r \in Request : queue[r] > 0}
Running(s) == sender[s] \in {"playing", "aborted"}
ContextRuns == main \in {"serving", "graceful"}

\* The bound of the model: one request is queued at most.
RoomForHandler == Queued = {} /\ Cardinality(Busy) < MaxRequests

TypeOK ==
    /\ queue \in [Request -> 0..1]
    /\ job \in [Thread -> Request \cup {"timeout", "idle", "exited"}]
    /\ mutex \in Thread \cup {NoThread}
    /\ doomed \in SUBSET Session /\ victim \in Session \cup {NoSession}
    /\ sender \in [Session -> {"none", "quiet", "playing", "aborted", "gone"}]
    /\ conn \in {"none", "active", "silent", "ended", "closing"}
    /\ udp \in BOOLEAN
    /\ main \in {"serving", "graceful", "stopping", "joined", "destroyed"}

Init ==
    /\ queue = [r \in Request |-> 0]
    /\ job = [t \in Thread |-> "idle"]
    /\ mutex = NoThread /\ doomed = {} /\ victim = NoSession
    /\ sender = [s \in Session |-> "none"]
    /\ conn = "none" /\ udp = TRUE
    /\ main = "serving"

-----------------------------------------------------------------------------
(* Requests and connections.                                               *)

Connect ==
    /\ main = "serving" /\ conn = "none"
    /\ conn' = "active"
    /\ UNCHANGED <<queue, job, mutex, doomed, victim, sender, udp, main>>

\* A request was received, by UDP or on the connection, and its handler is
\* ready to run.
Arrive(r) ==
    /\ ContextRuns
    /\ \/ udp /\ UNCHANGED conn
       \/ conn \in {"active", "silent"} /\ conn' = "active"
       \/ conn = "closing" /\ UNCHANGED conn
    /\ RoomForHandler
    /\ queue' = [queue EXCEPT ![r] = 1]
    /\ UNCHANGED <<job, mutex, doomed, victim, sender, udp, main>>

\* The client closes its connection; the timer of the connection goes on.
Disconnect ==
    /\ conn \in {"active", "silent"} /\ conn' = "ended"
    /\ UNCHANGED <<queue, job, mutex, doomed, victim, sender, udp, main>>

\* Mutant of TimeoutCheck: an idle connection is not closed.
TimeoutCheckKeeps(t) ==
    /\ ContextRuns /\ job[t] = "idle"
    /\ conn = "active" /\ conn' = "silent"
    /\ UNCHANGED <<queue, job, mutex, doomed, victim, sender, udp, main>>

\* timeout_check: without a request in the period the handler goes on to the
\* sessions of the host.  On a connection that was reset it throws.
TimeoutCheck(t) ==
    /\ ContextRuns /\ job[t] = "idle"
    /\ \/ conn = "active" /\ conn' = "silent" /\ UNCHANGED job
       \/ conn = "ended" /\ conn' = "none" /\ UNCHANGED job
       \/ /\ conn \in {"silent", "ended"} /\ RoomForHandler
          /\ conn' = "closing"
          /\ job' = [job EXCEPT ![t] = "timeout"]
    /\ UNCHANGED <<queue, mutex, doomed, victim, sender, udp, main>>

\* Mutant of Take: a handler runs although none is queued.
TakeSpurious(t, r) ==
    /\ ContextRuns
    /\ job[t] = "idle"
    /\ queue' = [queue EXCEPT ![r] = @ - 1]
    /\ job' = [job EXCEPT ![t] = r]
    /\ UNCHANGED <<mutex, doomed, victim, sender, conn, udp, main>>

\* An io thread starts its handler, which blocks on the mutex first.
Take(t, r) ==
    /\ ContextRuns
    /\ job[t] = "idle"
    /\ queue[r] > 0
    /\ queue' = [queue EXCEPT ![r] = @ - 1]
    /\ job' = [job EXCEPT ![t] = r]
    /\ UNCHANGED <<mutex, doomed, victim, sender, conn, udp, main>>

\* The lock is granted.  A TEARDOWN erases its session, a timeout all of the
\* host's.
Lock(t) ==
    /\ t \in Busy
    /\ mutex = NoThread
    /\ mutex' = t
    /\ \/ job[t] = "other" /\ doomed' = {}
       \/ job[t] \in Session /\ doomed' = {job[t]}
       \/ job[t] = "timeout" /\ doomed' \in SUBSET Session
    /\ UNCHANGED <<queue, job, victim, sender, conn, udp, main>>

\* The destructor of one sender: it cancels the timer and spins until running_
\* is false.
DestroySender(t, s) ==
    /\ mutex = t /\ victim = NoSession
    /\ s \in doomed
    /\ victim' = s
    /\ doomed' = doomed \ {s}
    /\ sender' = [sender EXCEPT ![s] = IF @ = "playing" THEN "aborted" ELSE @]
    /\ UNCHANGED <<queue, job, mutex, conn, udp, main>>

SpinEnds(t) ==
    /\ mutex = t /\ victim # NoSession
    /\ ~Running(victim)
    /\ victim' = NoSession
    /\ sender' = [sender EXCEPT ![victim] = IF @ = "none" THEN @ ELSE "gone"]
    /\ UNCHANGED <<queue, job, mutex, doomed, conn, udp, main>>

\* Any other request may have set up, started or paused a session.
Changes(old) == CASE old = "none" -> {"none", "quiet"}
                  [] old = "quiet" -> {"quiet", "playing"}
                  [] old = "playing" -> {"playing", "aborted"}
                  [] OTHER -> {old}

\* The handler returns and releases the mutex; the timeout closes the socket.
Finish(t) ==
    /\ mutex = t /\ victim = NoSession /\ doomed = {}
    /\ \/ UNCHANGED sender
       \/ \E s \in Session, new \in {"quiet", "playing", "aborted"} :
            /\ job[t] = "other" /\ new \in Changes(sender[s])
            /\ sender' = [sender EXCEPT ![s] = new]
    /\ mutex' = NoThread
    /\ job' = [job EXCEPT ![t] = "idle"]
    /\ conn' = IF job[t] = "timeout" THEN "none" ELSE conn
    /\ UNCHANGED <<queue, doomed, victim, udp, main>>

-----------------------------------------------------------------------------
(* send_next_packet_handler with operation_aborted, and the end of a movie: *)
(* both clear running_, and both need an idle thread of a running context.  *)

\* Mutant of HandlerClears: the handler needs the mutex of the table.
HandlerClearsLocked(s) ==
    /\ Running(s)
    /\ Idle # {} /\ ContextRuns
    /\ mutex = NoThread
    /\ sender' = [sender EXCEPT ![s] = "quiet"]
    /\ UNCHANGED <<queue, job, mutex, doomed, victim, conn, udp, main>>

HandlerClears(s) ==
    /\ Running(s)
    /\ Idle # {} /\ ContextRuns
    /\ sender' = [sender EXCEPT ![s] = "quiet"]
    /\ UNCHANGED <<queue, job, mutex, doomed, victim, conn, udp, main>>

-----------------------------------------------------------------------------
(* graceful_shutdown and ~rtsp_server.                                     *)

Shutdown(how) ==
    /\ main = "serving"
    /\ main' = how
    /\ UNCHANGED <<queue, job, mutex, doomed, victim, sender, conn, udp>>

\* graceful_shutdown has the UDP sockets closed by an io thread.
CloseUdp ==
    /\ main = "graceful" /\ udp /\ Idle # {}
    /\ udp' = FALSE
    /\ UNCHANGED <<queue, job, mutex, doomed, victim, sender, conn, main>>

\* Mutant of NoWork: handlers that execute and timers are not counted as work.
NoWorkQueued == conn = "none" /\ ~udp /\ Queued = {}

\* Nothing is queued, pending or executing in the io_context.
NoWork ==
    /\ conn = "none" /\ ~udp
    /\ Queued = {} /\ Busy = {}
    /\ \A s \in Session : ~Running(s)

\* Mutant of Exit: threads of a stopped context go on while there is work.
ExitNoWork(t) ==
    /\ main \in {"stopping", "graceful"} /\ NoWork
    /\ job[t] = "idle"
    /\ job' = [job EXCEPT ![t] = "exited"]
    /\ UNCHANGED <<queue, mutex, doomed, victim, sender, conn, udp, main>>

\* io_run_loop returns once its handler has returned: on a stopped context, or
\* when there is no work and no work guard.
Exit(t) ==
    /\ main = "stopping" \/ (main = "graceful" /\ NoWork)
    /\ job[t] = "idle"
    /\ job' = [job EXCEPT ![t] = "exited"]
    /\ UNCHANGED <<queue, mutex, doomed, victim, sender, conn, udp, main>>

Join ==
    /\ main \in {"graceful", "stopping"}
    /\ \A t \in Thread : job[t] = "exited"
    /\ main' = "joined"
    /\ UNCHANGED <<queue, job, mutex, doomed, victim, sender, conn, udp>>

\* The members go: server_state_ destroys every sender, and each one spins.
DestroyState ==
    /\ main = "joined"
    /\ \A s \in Session : ~Running(s)
    /\ main' = "destroyed"
    /\ sender' = [s \in Session |-> IF sender[s] = "none" THEN "none" ELSE "gone"]
    /\ UNCHANGED <<queue, job, mutex, doomed, victim, conn, udp>>

-----------------------------------------------------------------------------
Threads ==
    \E t \in Thread :
        \/ TimeoutCheck(t) \/ Lock(t) \/ SpinEnds(t) \/ Finish(t) \/ Exit(t)
        \/ \E r \in Request : Take(t, r)
        \/ \E s \in Session : DestroySender(t, s)

Next ==
    \/ Connect \/ Disconnect
    \/ \E r \in Request : Arrive(r)
    \/ Threads
    \/ \E s \in Session : HandlerClears(s)
    \/ Shutdown("graceful") \/ Shutdown("stopping") \/ CloseUdp \/ Join \/ DestroyState

Spec == Init /\ [][Next]_vars

Fairness ==
    /\ \A t \in Thread :
         /\ WF_vars(\E r \in Request : Take(t, r))
         /\ WF_vars(Lock(t)) /\ WF_vars(\E s \in Session : DestroySender(t, s))
         /\ WF_vars(SpinEnds(t)) /\ WF_vars(Finish(t)) /\ WF_vars(Exit(t))
    /\ \A s \in Session : WF_vars(HandlerClears(s))
    /\ WF_vars(\E t \in Thread : TimeoutCheck(t))
    /\ WF_vars(CloseUdp) /\ WF_vars(Join) /\ WF_vars(DestroyState)

FairSpec == Spec /\ Fairness

-----------------------------------------------------------------------------
(* Properties.                                                             *)

\* A destructor that spins under the mutex always has an idle thread left for
\* the handler it waits for, also while a graceful shutdown lets threads return,
\* as long as fewer handlers need the mutex than there are threads.
SpinHasHelper ==
    victim # NoSession /\ Running(victim) /\ ContextRuns => Idle # {}

\* A TEARDOWN or host timeout gets out of the destructors and releases the
\* mutex, unless the server is stopped under it.
DestroyerReturns ==
    \A t \in Thread : (mutex = t /\ job[t] # "other")
                          ~> (mutex # t \/ main = "stopping")

\* graceful_shutdown returns once the clients send nothing more: the timeout
\* check closes the connections it leaves open, the handlers under way get the
\* threads they need, and movies end, before the last thread exits.
GracefulReturns ==
    <>[](Queued = {}) => (main = "graceful" ~> main = "joined")

\* ~rtsp_server returns, whatever handlers and lock waits it interrupts, or hangs
\* in the destructor of a sender that was streaming, and on nothing else.
StopHangsOnlyOnStreams ==
    main = "stopping" ~> (main = "destroyed" \/ \E s \in Session : Running(s))
==============================================================================
