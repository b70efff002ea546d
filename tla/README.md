# TLA+ models of the RTSP/RTP streaming library

Paths below are relative to the repository; `rtsp_lib/` and `rtp_lib/` stand for
`src/streaming_lib/rtsp_lib/` and `src/streaming_lib/rtp_lib/`.

## 1. Inventory

| component | state | operations | interacts with | what is hard |
|---|---|---|---|---|
| **RTSP server state** `rtsp_server_internals.cpp`, `rtsp_methods.cpp`, `rtsp_session.hpp` | `sessions_` (id -> state, sender, address), `sessions__by_host_` (multimap), one mutex | SETUP, PLAY, PAUSE, TEARDOWN, OPTIONS, host timeout | called by every TCP/UDP handler on any io thread; owns the RTP senders | a SETUP that fails half way, two indices of one table, an exception out of a handler, a destructor that spins while the mutex is held |
| **RTP sender** `rtp_endsystem.cpp:13-171` | `running_`, timer, strand, sequence numbers | start, stop, timer handler, destructor | started/stopped by the server state, runs on the io threads | cancel versus an expired timer, first handler outside the strand, destructor spin |
| **FEC generator** `rtp_endsystem.cpp:601-698` | counter, sequence base, XOR bit string | generate_next_fec_packet | used by sender and (for reconstruction) by receiver | wrap of the sequence number, base 0 taken for "unset", k beyond the mask |
| **Sequence utility** `rtp_endsystem.cpp:535-599` | max_seq, cycles, base_seq, bad_seq, probation, received | init_seq, update_seq, expected | receiver, statistics | 16-bit wrap, reordering, re-synchronisation |
| **RTP receiver** `rtp_endsystem.cpp:173-533` | incoming buffer, FEC buffer, frame buffer, counters | new message, FEC recovery, display timer, destructor | client, GUI callbacks | loss, reordering, deques at their limit, first packet not a media packet, handlers after destruction |
| **TCP connection / server** `rtsp_server.cpp` | streambuf, response string, timer, last request time | start, header_read, response_sent, timeout_check, shutdown | server state, io threads | pipelined requests, timeout of one connection against another of the same host, handler that throws |
| **RTSP client** `rtsp_client.cpp` | session state, outstanding requests by CSeq, socket, receiver, options | setup, play, pause, teardown, option, describe, resolve/connect/read handlers | server through TCP, receiver, GUI callbacks | requests before the connection is up, calls that race to open it, a response handler that throws, responses without or with a wrong CSeq |
| **Transport negotiation** `rtsp_methods.cpp:19-103`, `rtsp_client.cpp:308-369`, `rtsp_headers.hpp` | none | choose transport, parse, generate | SETUP on both sides | port arithmetic, hexadecimal ssrc width |
| **Player GUI** `rtsp_gui/` | the current client object | the six buttons | client | replacing a client that still has a session |

How they meet: a client opens a TCP connection (or sends UDP datagrams) and issues
requests; every handler runs on whichever io thread is free. The request handler takes
the mutex of the session table and calls the RTSP method, which starts, stops or
destroys an RTP sender. The sender's timer handler runs on the same io threads without
that mutex. Media and FEC packets go by UDP to the receiver, which repairs losses and
hands frames to the GUI on a timer. Nothing is persisted, so there is no recovery from a
crash to model.

What makes each part correct: the table and its index agree and PLAY always finds a
sender (state); one timer chain, and none once the sender is gone (sender); a silent
connection and its sessions are reclaimed (connection); a destructor that waits has
someone to wait for (threads); no old response is sent again (response string); the
packet count is exact over wraps (sequence utility); what is shown is a frame of the
movie, in order, and a loss between two packets that were received is repaired when the
packets for it are there (receiver and FEC); no more read loops than connects that were
accepted, requests in order, handlers called once per loop, a receiver for the session that
is named (client); both ends in the same state when all is answered, no session kept for a
client that is gone unless its connection was reset, no request that hangs without the
client having said that it listens no more (player); the client listens where the server
sends (transport).

## 2. Modules and the code

`PROJECT.json` maps every definition to its source lines.

| module | models | notes |
|---|---|---|
| `RtpSender` | `unicast_jpeg_rtp_sender` with the PLAY/PAUSE/TEARDOWN calls that drive it | `armed`, `due`, `aborted` are the waits of the timer by what became of them; `bodies` are handlers outside the strand, `holder`/`strandQ` the strand. One step per handler start and handler end, since another thread can act in between. Frames are a count. Asio's timer and strand are external and described in the module head |
| `RtspSession` | the life cycle a session promises | abstract: `fresh -> init / ready <-> playing -> gone` |
| `RtspServerState` | `rtsp_server_state` and `methods::*` | one action per call under `sessions_mutex_`; a request is reduced to what the checks tell apart, and the chain of early returns is `FirstFailure` over a sequence of checks. Implements `RtspSession` (`SessionLife`) |
| `RtspServer` | `tcp_connection` read loop and idle timer, UDP requests; EXTENDS `RtspServerState` | `timeout_check` is three steps (decide, delete under the mutex, close), because a request can be handled between any two |
| `RtspServerPool` | the io threads, the mutex, spinning destructors, `graceful_shutdown`, `~rtsp_server` | requests and timeout checks are reduced to the thread and mutex they occupy and the senders they destroy, one at a time; composes the other two through `sender`, the part of `RtpSender` a thread waits for |
| `TcpResponse` | `last_response_string_` | `header_read` and `response_sent` are split into their accesses to the string, which no strand orders; strings are lengths |
| `SequenceUtility` | `rtp_receiver_squence_utility` | operators on a record; every 16-bit wrap is explicit |
| `RtpSequence` | the utility against a source, a network and stray packets | keeps the true position of the stream beside the utility |
| `RtpMedia` | sender numbering, simulated channel, `fec_generator`, network, receiver buffers, recovery, display | the bytes of a packet are the set of frames XORed into it, XOR is the symmetric difference; a set that is not a singleton is a broken image. The network loses packets and holds one back, or copies it, until any later time (`held`, `pending`) |
| `RtspClient` | `rtsp_client`: calls, `open_socket`, `send_request`, `header_read`, the response handlers | one action per function run by the strand; an exception ends the function and is `reported`. The socket, what is under way in both directions, the read operations (`readers`), the table of outstanding requests by CSeq; a response is reduced to what the code tells apart, an unparsable CSeq being 0 as in the code. `async_connect` of a socket that is connected already fails, or is accepted once (`again`), as on Linux, where the first `connect()` after a non-blocking connect has completed returns 0: then `Connected` runs a second time, starts a second loop on the same streambuf and sends the call |
| `RtspClientAny` | the client against any server; EXTENDS `RtspClient` | the server answers requests that were sent in any order, repeatedly, with anything; it may close at any time |
| `RtspPlayer` | the player's buttons, the client and the server; EXTENDS `RtspClient`, `Server == INSTANCE RtspServerState` | Setup, Option and Describe replace the client (`ReplaceClient`), whose connection lives on at the server: `old[n]` has the requests of the client before the n-th that are still to be read, and whether its socket is closed, has a response sent to it (which a closed socket answers with a reset: `OldReset`, after which `remote_endpoint()` throws and nothing is read or deleted), or is gone. The server's races (`RtspServer`) are left out here: a request is one step |
| `RtspTransport` | `get_acceptable_transport`, the transport header as it is written and read, `process_server_transport_header` | ports and ssrc keep their width; the header is modelled by what is lost on the way through it, not by its characters |

The `MC*` modules are the instances that TLC runs; the `*Proofs` modules hold the
theorems. Definitions headed "Mutant of ..." are not used by any specification: each is
the named definition with one plausible mistake, kept to show that the property it is
paired with in `PROJECT.json` notices.

## 3. Runs

| run | instance | distinct states | result |
|---|---|---|---|
| `sender` | 0 to 3 frames, FEC groups of 2, up to 4 queued functions | 1 061 | `OneChain`, `NotRunningMeansQuiet`, `NoHandlerAfterDestruction`, and `DestructorReturns` hold |
| `server_state` | 2 hosts, 2 sessions, 2 ports, every request and every SETUP | 3 832 | `SenderPresent`, `StreamsIndexed`, `IndexComplete`, `LeaveTogether`, refinement `SessionLife` |
| `server` | 2 hosts, 2 sessions, 1 connection, period 1, handlers up to 1 tick late | 413 692 | `IdleBounded`, `TimeoutTakesAll`, `ClosedMeansReclaimed` |
| `pool` | 3 threads, 2 sessions, 2 handlers that need the mutex | 177 320 | `SpinHasHelper`, `DestroyerReturns`, `GracefulReturns`, `StopHangsOnlyOnStreams` |
| `tcp_response` | responses of length 1 and 2, string up to 4, 2 sends of a length | 19 842 | `NothingLeftOver` |
| `rtp_sequence` | modulus 12, dropout 4, misorder 3, 2 wraps, 12 packets received | 29 052 | `CountsExactly`, `ValidMeansExpected`, `StrayIsHarmless` |
| `rtp_media` | 9 frames, groups of 2, 3 or 4, buffer 5, delay 2, every loss pattern, one packet late or doubled | 1 492 317 | `NoBrokenFrame`, `FramesInOrder`, `RecoversLoneLosses`, `BufferGrowsWithRecoveries`, `MaskNamesGroup`, `StatisticsAddUp` |
| `client` | 3 requests, 2 sessions, 4 methods, 1 response under way | 7 400 304 | `HandledOnce`, `FewReaders`, `ReceiverMatches`, `StatisticsFollow`, `RequestsInOrder` |
| `player` | 2 clients with 3 and 2 calls, 2 sessions, 1 port, 4 buttons, good and bad URLs | 157 353 | `StatesAgree`, `AbandonedReclaimed`, `NoRequestHangs` |
| `transport` | ports modulo 8, ssrc of 2 binary digits, every specification of up to 3 parameters, alone or second | 46 844 | `StreamReachesReceiver`, `OwnOfferWorks`, `FailsOnlyOnShortSsrc` |
| `sender_play` | as `sender`, without FEC | | violates `PlayingMeansStreaming` (section 6) |
| `pool_deadlock` | 2 threads, 2 handlers that need the mutex | | violates `DestroyerReturns` |

Type invariants that are proved (section 5) are not repeated in the runs.

Deadlock checking is off in all runs: every one of these systems may come to rest (the
sender is destroyed, all identifiers are used, the bounded movie is over). Waiting for
each other forever is stated as liveness instead.

**Bounds and why they are enough.** All safety is proved for
all values (section 5), that of the media for streams that do not wrap, so the bounds
serve liveness and as a check of the statements before they are proved. In the `server` run one connection suffices
for the races, which are between the handlers of one connection; the other host and the
UDP requests supply the sessions a timeout must not, or must also, take. `pool` has one
thread more than handlers that need the mutex (requests and timeout checks), which is exactly the condition the code needs;
`pool_deadlock` drops it. In `rtp_media` the buffer is scaled from 50 to 5 and the delay
from 20 to 2; 9 frames let the buffer fill, lose packets on both sides of the mark and
recover more than once, also around a packet that comes late or twice. Groups of 2 and 3
fit between the mark and both ends of the buffer, groups of 4 do not, so that the access
outside the deque happens (`Fault`). The modulus 32 of that run is never reached; what
the wrap does is in section 6. The client's safety is proved for any number of calls and
responses; three requests and one response under way let two calls race to open the
socket, the second connect be accepted and its loop read beside the first, a third call be
made while the socket connects, and an answer be repeated. OPTIONS and DESCRIBE, which
change nothing in the client, are left out. In `player` two
clients let one be replaced at any moment, with its SETUP asked for, under way, handled or
answered; the second then makes two calls (`Calls`), enough for a session of its own that the
timer of the first one's connection takes. The buttons Option and Describe are left out of
the run for its size: they replace the client as Setup does and send a request that changes
nothing at the server. The box of the MKN options is checked in this run; `client` sets
and resets them. In `transport` two digits are enough for an ssrc with and without a
leading zero, and three parameters for two ports of which the first counts.

**Fairness and why the code justifies it.** `RtpSender`: timers expire, io threads run
what is queued, the strand runs its functions, and the spinning thread observes the
atomic `running_`; no fairness on requests. `RtspServer`: time passes and due timer
handlers and failed reads are executed; no fairness on peers. `RtspServerPool`: weak
fairness on each thread's own steps (`io_run_loop` runs handlers until the context
ends), on the mutex being granted to a thread that waits while it stays free (weak: a thread may
starve while others keep taking it, which is why `GracefulReturns` assumes that requests
cease), on the timer, and on the main thread. Requests, connections, disconnections and shutdowns are never
forced. `RtspPlayer`: the io threads of both sides run what is due, what was sent arrives,
and idle timers expire, of the current connection and of those of replaced clients;
nothing makes the user press a button.

## 4. Reading the properties

- `OneChain`/`NotRunningMeansQuiet`: the first handler after every `start()` is not bound
  to the strand, so only `running_` keeps two handlers apart. It does, because it is
  cleared by the last link of the chain and by nothing else.
- `IndexComplete`, `StreamsIndexed`, `LeaveTogether`: `sessions__by_host_` is never cleaned
  by TEARDOWN and a session may be used by another host than the one it is indexed
  under. Stale entries are harmless as long as identifiers are not reused (an
  assumption on the UUID generator).
- `TimeoutTakesAll`: also sessions whose SETUP came after the check had decided.
- `GracefulReturns`: `graceful_shutdown` closes no connection itself; it returns once
  clients are silent, because the idle check closes what is left.
- `CountsExactly`: the extended number is exact as long as losses and reordering stay
  within the code's tolerances; a source that stays outside them is followed when a packet
  has the number after the last one that was outside (`StrayIsHarmless`). `bad_seq` is kept
  while packets of the stream arrive, so the two need not come one after the other.
- `NothingLeftOver`: when the sends are done the string is empty. It does not say that a
  response is sent once: see section 6.
- `OwnOfferWorks`: as far as the choice of the transport goes. The server's port may be
  taken, and one ssrc in sixteen cannot be read back.
- `BufferGrowsWithRecoveries`: every recovery inserts a packet and none is taken out, so
  playback is delayed by one frame per recovery, for good.
- `FramesInOrder`: a packet that comes late or twice makes its successor look lost, and it
  is recovered although it was received. The property says that nothing else is disturbed;
  with only the late packet itself excepted it is violated.
- `StatisticsAddUp`: gaps are counted at the mark and packets by the sequence utility, two
  mechanisms that see the stream at different times; each gap is counted once, also after
  a recovery has put a packet numbered 0 into the buffer. A packet the network has copied is
  excepted: with it more is received than expected and the player's difference wraps. So is a
  burst of MAX_DROPOUT losses, which the run is too short for and the theorem assumes away.
- `RecoversLoneLosses`: `verdict` is judged by the frames, not by the numbers the code
  compares: a loss is lone when the frames before and after it stand side by side at the mark
  of a full buffer. The code tries no other: of two neighbouring losses it repairs none, even
  if they belong to different groups and both FEC packets are there (the gap is 3), nor a loss
  that was before the mark when the buffer filled for the first time.
- `FewReaders`, `RequestsInOrder`: calls made before the socket is open each resolve and
  connect. The first connect opens the socket; of the others all fail, and their calls are
  lost with an error, or one is accepted, where the system takes a second `connect()` on a
  socket whose non-blocking connect has completed (Linux). It starts a second read loop on
  the same streambuf. `FewReaders` says that this is the only way to a second loop and that
  there is never a third. What is sent while the socket connects goes out before the request
  that opened it.
- `HandledOnce`: a handler that throws stays in the table. It is not called again by the loop
  it has ended, so at most once per loop; that is twice if there are two.
- `ReceiverMatches`: SETUP stores the session identifier before it reads the transport, so
  after a failure the two differ; the property holds while no loop has ended, because the
  exception ends one.
- `StatesAgree`: the handlers of PLAY, PAUSE and TEARDOWN do not look at the status, and
  the guards look at a state that pipelined calls will have changed. Both ends still agree
  once all is answered, since a call that a live session refuses finds it in the state the
  client then assumes.
  It excepts sessions that timed out and clients that set up several.
- `NoRequestHangs`: also when the server's handler has thrown and reads no more (the idle
  timer then closes the connection), and when a request without a session identifier has
  swallowed the one behind it. It excepts a client none of whose loops reads any more, and
  asks only that this was shown: what such a client sends hangs, without a further error.
- `AbandonedReclaimed`: the server only learns of a replaced client by silence. It excepts a
  session whose connection was reset, which the server never deletes.
- `StopHangsOnlyOnStreams`: `~rtsp_server` returns unless a session plays when it is called.

## 5. Proofs

Checked by TLAPS, for every value of the constants under the named assumptions.

| module | theorems | argument |
|---|---|---|
| `RtpSenderProofs` | `SenderTypeCorrect`, `SenderOneChain`, `SenderNotRunningMeansQuiet`, `SenderNoHandlerAfterDestruction` | `IInv` joins the type, `OneChain`, `NotRunningMeansQuiet` and that a dead sender is not running. None is inductive alone: that a second chain cannot start rests on `running_`, and that `running_` may be cleared rests on there being one chain. `ChainLinks` is shown to be a natural number whose terms move one by one; lemmas say what the strand's queue keeps when a function is appended or taken off |
| `RtspServerProofs` (table) | `TableTypeCorrect`, `TableSenderPresent`, `TableStreamsIndexed`, `TableIndexComplete`, `TableLeaveTogether`, `TableImplementsLife` | `IInv` adds `IssuedFirst` (only issued identifiers are in the table or the index): without it a SETUP could meet a stale index entry. The refinement is shown action by action: a request moves at most one session along `Moves`, a timeout moves a set of them to "gone" |
| `RtspServerProofs` (server) | `ServerTypeCorrect`, `ServerIdleBounded`, `ServerTimeoutTakesAll`, `ServerKeepsTable`, `ServerImplementsLife` | `ServerInv` is `IInv` and, for each connection, what its timer, idle time and lateness say of each other (`IdleBounded` is part of it) and where its sessions come from (`Origin`): a session set up over a connection is indexed under its host, whenever the SETUP came, so that the deletion by host finds it. Every step of the server is one of the table or leaves the table alone, which carries the table's promises and the refinement over |
| `RtspServerPoolProofs` | `PoolTypeCorrect`, `PoolSpinHasHelper` | `PoolInv` adds that a destructor spins only under the mutex, that a thread of a running context leaves only a graceful shutdown without work, and that the threads that are not idle are no more than `MaxRequests` (`Counted`). `PoolSpinHasHelper` assumes `MaxRequests < Cardinality(Thread)`, which is the condition itself: `pool_deadlock` shows what happens without it |
| `RtspTransportProofs` | `TransportStreamReachesReceiver`, `TransportOwnOfferWorks`, `TransportFailsOnlyOnShortSsrc` | `TransportInv` says what the chosen specification consists of and what the client has read. `ReadsWhatWasChosen` says that writing and rereading it loses no port and no ssrc |
| `RtpMediaProofs` | `MediaTypeCorrect`, `MediaBufferGrows`, `MediaMaskNamesGroup`, `MediaNoBrokenFrame`, `MediaFramesInOrder`, `MediaRecoversLoneLosses`, `MediaStatisticsAddUp` | below |
| `RtpSequenceProofs` | `SequenceTypeCorrect`, `SequenceCountsExactly`, `SequenceValidMeansExpected`, `SequenceStrayIsHarmless` | `IInv` relates the utility to the truth (`max`, `cycles`, `base` against the newest packet and the turns). The lemmas `Ahead` and `Behind` say what the 16-bit difference is for a packet within the tolerances |
| `RtspClientProofs` | `ClientTypeCorrect`, `ClientFewReaders`, `ClientHandledOnce`, `ClientReceiverMatches`, `ClientStatisticsFollow`, `ClientRequestsInOrder` | `IInv` counts `Alive`, the loops that read and the handlers of `async_connect` that will start one, against `Loops`, one or, once a second connect was accepted, two (`FewReaders`). It adds: before the socket is connected nothing is read, no session known and no second connect accepted (`SocketInv`), which is why the connect that opens it finds no loop; a handler that is still in the table has ended a loop each time it was called (`TableInv`), which is why it is not called more often than there are loops, though two of them may read; as long as none has ended, the receiver is that of the identifier (`MatchInv`); PLAY and PAUSE are outstanding only if there is a receiver (`PlayInv`), which is why their answers do not leave a client "playing" without one; every call that waits finds a CSeq (`RoomInv`); requests sent and unsent together are ordered below the next CSeq (`WireInv`). One lemma per action, `ReadFinalIInv` being the one where the parts need each other |
| `RtspPlayerProofs` | `PlayerTypeCorrect`, `PlayerStatesAgree`, `PlayerSessionsOwn`, `PlayerStrayHarmless`, `PlayerKeepsTable` | below |
| `RtspServerProofs` (response string) | `ResponseTypeCorrect`, `ResponseNothingLeftOver` | the property is inductive together with the types: the completion that removes the last send of the string's length leaves a `response_sent` that is about to clear |

**The media stream**, for every buffer size, delay, group size and length of the movie, in
four invariants, each on top of the one before:

- `MediaInv`: the generator has collected the last frames and its base is the first of them,
  unless 0 or the wrap is among them; every FEC packet is k consecutive frames, later packets
  later frames; the buffer is filling or has its size. From it follow the types, the growth of
  the buffer and `MaskNamesGroup`, also for streams that wrap.
- `OrderInv` (`LineOK`, `Fresh`): the queue to the display and the buffer behind it hold single
  frames in order, `held` and its successor excepted, and the packets behind the mark are not
  recovered ones, so that both numbers of the gap are real. Its core is `ReconstructedFrame`:
  when the numbers at the places the code looks at match, the FEC packet and the others differ
  in exactly the lost frame, and `LineRepair`: that frame belongs where it is inserted.
- `RecoverInv` (`Whole`): of the group of a recovered frame nothing is missing any more: its
  other frames are in the buffer or have left it at the front. So the packets without a number,
  which the code's comparison would stumble over, are never in the way. `LoneGap` shows that
  what the reference calls a lone loss is a gap of two to the code; then `NoMiss` shows that
  the places are right when the group is complete (the numbers around the mark are dense:
  `DenseUp`, `DenseDown`), and `NoFaults` that they are in the deque.
- `StatInv` (`StatOK`): as long as all counted packets are in the buffer there are no gaps
  counted; afterwards the packets up to the mark and the gaps between them are no more than the
  numbers from `base_seq` to the mark (`Balanced`), each step moving the mark by one packet over
  a gap it counts once.

The last three assume `NoWrap`, that the frames' numbers neither wrap nor reach 0 (section 6
says what happens there): 65 535 frames at most, fewer if it starts later than 1.
`MediaStatisticsAddUp` also assumes `NoBurst`: when a packet is sent, fewer than MAX_DROPOUT
have been lost since the last that was counted. Without it the property is false of the code.

**The player, its client and the server**, for every number of clients, calls and sessions.
`Structure` says what the two connections look like: requests leave and are answered in the
order of their CSeq (`Sent`, `Replies`), each under the method the client's table has for it;
a client names only sessions it was given, which are its own, and what the clients before
have left at the server names sessions that were set up over their own connections
(`SessionInv`, `Owned`); a connection that the server has timed out leaves no live session
behind. `AgreeInv` is on top of it: *having
handled the responses on their way, the client will be in the state its session is in at the
server now* (`WillBe`), whatever requests the server has still to read. That is what each
request the server answers preserves, by appending a response that moves the client as the
request moved the session, or, if it was refused, to where the session already was. It holds
as long as the connection is `Clean`, which the proof carries along because without it the
statement is false: no response on its way ends the loop that reads it (`Doomed`), and every
call the client still waits for has its request or response under way. Once it is not, it
never is again, and a call that has no answer under way is never answered (`Lost`), so it
stays outstanding and `StatesAgree`, which speaks of clients that wait for nothing, does not
apply. Three things make it so: a request that is swallowed by the one before it or answered
by an exception; a handler that throws, which leaves its entry in the table; and, with two
loops, a response that comes out damaged or ends the wrong loop. A response without a CSeq
ends a loop though no entry is left by it; `LostInv` says that another call is lost then, the
one the server could not parse. So nothing about the number of loops is needed.
`PlayerKeepsTable` is the refinement of `RtspServerState` by the whole: the table changes only
by the server's own operations, so that what is proved of the table (`TableLeaveTogether` and
the others) holds under the player. `PlayerStrayHarmless` is an action property: what a
replaced client has left unread changes no session of the current one, on whichever of the
old connections it waits.

Assumptions: the `ASSUME`s of the modules. They restrict the constants to what the code
allows: for the sequence utility `MaxDropout + MaxMisorder <= Mod`, which its values
(3000, 100, 65536) satisfy with room; for the table that the placeholders are not
elements; for the transport that a port of a client's own offer leaves room for the server's,
and that ssrcs have the digits they are read with; for the media that the delay is less than
the buffer and groups are at most as long as the mask; for the player that the placeholders are
not elements and that a client may make a call at all. TLC evaluates all of them.

Only model-checked: liveness (`DestructorReturns`, `ClosedMeansReclaimed`,
`DestroyerReturns`, `GracefulReturns`, `StopHangsOnlyOnStreams`, `AbandonedReclaimed`,
`NoRequestHangs`), which needs fairness and `ENABLED`. `PlayingMeansStreaming` is violated
(section 6). Every safety property and action property of a run that holds has its theorem.

## 6. Where the code departs from what is said of it

As runs (findings in `PROJECT.json`):

- `sender_play`: PLAY soon after PAUSE finds `running_` still true, is answered 200 and
  streams nothing.
- `pool_deadlock`: TEARDOWN spins in the sender's destructor while it holds the mutex; if
  all other io threads wait for that mutex nobody can end the spin. On a one-core machine
  one thread is enough.

As properties that say exactly how far the departure goes:

- `StopHangsOnlyOnStreams`: `~rtsp_server` joins its threads before it destroys playing
  senders, whose destructors then spin for ever;
- `MaskNamesGroup`: the FEC base is a plain minimum, and 0 means "none". A group that spans
  the wrap of the sequence number, or contains 0, gets a base and a mask that name other
  packets, and a recovery from it yields a broken frame;
- `FailsOnlyOnShortSsrc`: the header's ssrc is written without leading zeros and read with
  exactly eight digits, so that the client fails on one SETUP in sixteen;
- `TimeoutTakesAll`: a timeout takes all sessions there are, but a SETUP handled between
  their deletion and the close of the socket leaves one that no timer deletes.

Seen in the models, not kept as runs of their own:

- the function `stop()` dispatched can still wait in the strand when a due handler ends the
  movie and lets the destructor return (`RtpSender`: `owner = "dead"` with "cancel" queued);
- an exception out of `handle_incoming_request` skips both the answer and the next read
  (`RtspServer`: `HeaderRead` without a reply), although the project description says that
  the server answers all requests;
- a second request handled before the first send has completed makes `response_sent` throw
  "TCP bytes sent not equal" (`TcpResponse`: `ResponseSent(n)` with `n # str`), which the
  repository's README lists as a known problem;
- a response appended while an earlier one is being sent is sent along with it, so that the
  earlier one goes out twice, and a completion can clear a response that was appended and not
  sent yet (`TcpResponse`: `SendString` with a send in flight, `Clear` while `writing`);
- a response handler that throws (a SETUP that is refused, for one) leaves the client deaf:
  its later requests are sent, their answers never read, and no further error is shown, not
  even when the server closes the idle connection (`RtspClient`: `ReadFinal` with `Throws`;
  `Deaf`), although the comment on `send_request` says that the handler is called when a
  response is received;
- two calls made before the socket is open can end in two read loops on one streambuf where
  the system accepts the second connect, as Linux does once: responses may come out damaged
  (`RtspClient`: `again = "mixed"`, `ReadDamaged`), and a handler that throws can be called
  twice;
- the response to a client that was replaced meanwhile reaches a closed socket and is answered
  with a reset; `remote_endpoint()` then throws in the idle timer and the client's session is
  never deleted, unless another connection of the host times out (`RtspPlayer`: `OldReset`;
  `RtspServer`: `TimeoutActs` on a reset socket);
- losses that could be repaired and are never tried: neighbouring ones of different groups,
  whose gap is above 2, and those before the mark when the buffer first fills (`RtpMedia`:
  `Advance` with `Gap(buf) > 2`, `FillBuffer`);
- TEARDOWN before SETUP was answered sends an empty session header, which the server's
  grammar reads together with what follows it (`RtspPlayer`: `ServerReadsUnidentified`);
- with a URL that is refused the player's Setup calls the client that was there before, or
  none (`RtspPlayer`: `PressBadUrl`, `crashed`);
- after a burst of MAX_DROPOUT losses `update_seq` counts from 0 again and the receiver's
  corrected and uncorrectable gaps do not, so that the player shows more of them than packets
  were lost (`RtpMedia`: `StatisticsAddUp` is violated with `MaxDropout = 3`);
- the idle timer of a replaced client's connection takes the sessions of the new client too,
  since they come from the same host (`RtspPlayer`: `OldTimeout`);
- `graceful_shutdown` is documented to close TCP connections and waits instead for as long as
  a client keeps sending (`GracefulReturns` is conditional for this reason).

## 7. Not modelled

Grammars and generators of RTSP messages, headers and RTP packets beyond what section 2
names (declarative, stateless; the repository tests them), pimpl wrappers, command line,
logging, widgets. The receiver's statistics callback (it dereferences an empty utility
when the first packet is no media packet) and its destructor (functions that refer to the
receiver run after it is gone): both are undefined behaviour at one place, which a model
could only restate. Torn accesses to the bytes of `last_response_string_` are outside
`TcpResponse`, which has lengths only. In the client, `set_mkn_options` is not dispatched
to the strand; a torn read of the optional is not modelled, only its order against SETUP.
Nothing is persisted, so no crash is recovered from.

## 8. Plan

Done, in this order: `RtpSender`, `RtspSession` and `RtspServerState`, `RtspServer`,
`RtspServerPool`, `TcpResponse`, `SequenceUtility` and `RtpSequence`, `RtpMedia` (later with
late and doubled packets), `RtspTransport`, `RtspClient` and `RtspClientAny`, `RtspPlayer`,
and the proofs above, those of the player last. What could be added: the receiver's
destructor and statistics callback with their undefined behaviour as outcomes, and the
server's own races (`RtspServer`) under the player instead of one step per request.
