----------------------------- MODULE TcpResponse -----------------------------
(***************************************************************************)
(* How a tcp_connection of rtsp_server.cpp sends its responses: one string,*)
(* last_response_string_, is both the buffer that responses are appended   *)
(* to and the memory that async_send transmits from.                       *)
(*                                                                         *)
(* header_read runs for the next request as soon as that is readable, so   *)
(* also while an earlier send has not called response_sent yet, and on     *)
(* another io thread while response_sent runs: nothing orders their        *)
(* accesses to the string, so both are split into their accesses.  Strings *)
(* are lengths.  The transmission (async_send hands the bytes, or some of  *)
(* them, to the kernel) is external.                                       *)
(***************************************************************************)
EXTENDS Integers

CONSTANTS
    Sizes,      \* lengths a generated response can have
    MaxLength,  \* bound of the model on the string
    MaxSends    \* bound of the model on sends of one length not finished

ASSUME ResponseAssumption ==
    Sizes \subseteq Nat \ {0} /\ MaxLength \in Nat /\ MaxSends \in Nat

VARIABLES
    str,       \* length of last_response_string_
    writing,   \* header_read has appended a response and not sent it yet
    sends,     \* for each length, the async_send calls with it not completed yet
    clearing,  \* for each length, the response_sent calls past their checks
    broken     \* a send has failed or was cut short

responseVars == <<str, writing, sends, clearing, broken>>

ResponseTypeOK ==
    /\ str \in 0..MaxLength
    /\ writing \in BOOLEAN
    /\ sends \in [0..MaxLength -> Nat]
    /\ clearing \in [0..MaxLength -> Nat]
    /\ broken \in BOOLEAN

ResponseInit ==
    /\ str = 0 /\ writing = FALSE /\ broken = FALSE
    /\ sends = [n \in 0..MaxLength |-> 0]
    /\ clearing = [n \in 0..MaxLength |-> 0]

\* header_read appends the response; the next header_read is not before the
\* end of this one.
AppendResponse(size) ==
    /\ ~writing
    /\ str + size <= MaxLength
    /\ str' = str + size
    /\ writing' = TRUE
    /\ UNCHANGED <<sends, clearing, broken>>

\* It sends the whole string, as it is now, and reads on.
SendString ==
    /\ writing
    /\ \A n \in 0..MaxLength : sends[n] + clearing[n] < MaxSends
    /\ sends' = [sends EXCEPT ![str] = @ + 1]
    /\ writing' = FALSE
    /\ UNCHANGED <<str, clearing, broken>>

\* A send of n bytes completes, and response_sent finds that n is the length of
\* the string, or throws.
ResponseSent(n) ==
    /\ sends[n] > 0
    /\ sends' = [sends EXCEPT ![n] = @ - 1]
    /\ clearing' = IF n = str THEN [clearing EXCEPT ![n] = @ + 1] ELSE clearing
    /\ UNCHANGED <<str, writing, broken>>

\* async_send has sent only m bytes of n: response_sent throws, unless the
\* string has become that short.
SentPartly(n, m) ==
    /\ sends[n] > 0
    /\ sends' = [sends EXCEPT ![n] = @ - 1]
    /\ clearing' = IF m = str THEN [clearing EXCEPT ![m] = @ + 1] ELSE clearing
    /\ broken' = TRUE
    /\ UNCHANGED <<str, writing>>

\* response_sent with an error throws and leaves the string.
SendFails(n) ==
    /\ sends[n] > 0
    /\ sends' = [sends EXCEPT ![n] = @ - 1]
    /\ broken' = TRUE
    /\ UNCHANGED <<str, writing, clearing>>

\* Mutant of Clear: the string is not cleared.
ClearNothing(n) ==
    /\ clearing[n] > 0
    /\ clearing' = [clearing EXCEPT ![n] = @ - 1]
    /\ UNCHANGED <<str, writing, sends, broken>>

\* The rest of response_sent: the string is cleared, whatever it is by now.
Clear(n) ==
    /\ clearing[n] > 0
    /\ clearing' = [clearing EXCEPT ![n] = @ - 1]
    /\ str' = 0
    /\ UNCHANGED <<writing, sends, broken>>

ResponseNext ==
    \/ \E size \in Sizes : AppendResponse(size)
    \/ SendString
    \/ \E n \in 0..MaxLength :
         \/ ResponseSent(n) \/ SendFails(n) \/ Clear(n)
         \/ \E m \in 1..(n - 1) : SentPartly(n, m)

ResponseSpec == ResponseInit /\ [][ResponseNext]_responseVars

-----------------------------------------------------------------------------
(* Properties.                                                             *)

\* Whatever the overlap of requests and completions, the string of an unbroken
\* connection is empty, or is about to be sent or cleared, or a send of all of
\* it is in flight: once the sends are done the next response starts from an
\* empty string, and no old response is left over to be sent with it.
NothingLeftOver ==
    ~broken /\ str # 0 => writing \/ sends[str] > 0 \/ \E n \in 0..MaxLength : clearing[n] > 0
=============================================================================
