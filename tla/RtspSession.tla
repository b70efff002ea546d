----------------------------- MODULE RtspSession -----------------------------
(***************************************************************************)
(* What the RTSP server promises about its sessions, whatever the requests *)
(* and timeouts that reach it: the life of every identifier, nothing about *)
(* tables, indices, senders or hosts (rtsp_session.hpp, enum struct state).*)
(***************************************************************************)
CONSTANT SessionId

VARIABLE phase   \* "fresh" before SETUP, "gone" after TEARDOWN or timeout

Phases == {"fresh", "init", "ready", "playing", "gone"}
Open == {"init", "ready", "playing"}

\* A SETUP that fails leaves an "init" session that no later request can make
\* ready; nothing leads out of "gone".
Moves ==
    {<<"fresh", "init">>, <<"fresh", "ready">>,
     <<"ready", "playing">>, <<"playing", "ready">>}
      \cup (Open \X {"gone"})

Init == phase = [id \in SessionId |-> "fresh"]

\* One request moves one session.
Request(id) ==
    \E p \in Phases : /\ <<phase[id], p>> \in Moves
                      /\ phase' = [phase EXCEPT ![id] = p]

\* The timeout of a host ends any number of sessions at once.
Expire(ids) ==
    /\ \A id \in ids : phase[id] \in Open
    /\ phase' = [id \in SessionId |-> IF id \in ids THEN "gone" ELSE phase[id]]

Next ==
    \/ \E id \in SessionId : Request(id)
    \/ \E ids \in SUBSET SessionId : Expire(ids)

Spec == Init /\ [][Next]_phase
=============================================================================
