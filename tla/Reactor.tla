------------------------------- MODULE Reactor -------------------------------
(***************************************************************************)
(* One AsyncSslTransport (networking/src/AsyncSslTransport.cpp) seen from *)
(* its outbound side: the threads that call send_message, the owner that  *)
(* calls stop(), and the reactor thread's thread_entry loop with its send  *)
(* cursor, its non-blocking SSL writes, its read loop and its poll on the  *)
(* socket and the notification pipe.                                       *)
(*                                                                         *)
(* A message is <<sender, k>>.  A frame is FrameLen bytes (header and      *)
(* payload); SSL_write_ex may write any part of what remains.  The peer's  *)
(* inbound frames are a count: their byte-level reassembly is              *)
(* FrameReceiver.  PipeCap is the pipe's buffer size (64 KiB on Linux),    *)
(* scaled down.                                                            *)
(***************************************************************************)
EXTENDS Naturals, Sequences, FiniteSets

CONSTANTS
    Senders,        \* threads calling send_message
    MsgsPerSender,  \* messages each of them sends
    FrameLen,       \* bytes of a frame on the wire
    PipeCap,        \* bytes _to_send_notif_pipe holds before write blocks
    MaxInbound,     \* frames the peer sends
    Congestion      \* whether the socket's send buffer can fill up

ASSUME /\ MsgsPerSender \in Nat /\ FrameLen \in Nat \ {0}
       /\ PipeCap \in Nat \ {0} /\ MaxInbound \in Nat /\ Congestion \in BOOLEAN

None == "none"
NoMsg == <<>>   \* to_send_buf holds no message

VARIABLES
    spc,       \* sender s: "idle", or "write" inside send_message after the push
    nsent,     \* messages each sender has pushed
    mutex,     \* holder of _to_send_mutex across steps: a sender or None
    toSend,    \* _to_send
    pipe,      \* unread bytes in _to_send_notif_pipe
    stopped,   \* _stopped
    failed,    \* _failed
    owner,     \* the thread calling stop(): "idle", "wake" (flag set) or "done"
    rpc,       \* reactor: "handshake", "top", "write", "read", "poll", "fail", "exited"
    sending,   \* sending
    cur,       \* the message in to_send_buf
    curSent,   \* cur_sent
    writable,  \* the socket accepts more bytes now
    inbound,   \* peer frames readable on the socket
    received,  \* peer frames the read loop consumed
    wire       \* messages written whole to the socket, in order

vars == <<spc, nsent, mutex, toSend, pipe, stopped, failed, owner, rpc,
          sending, cur, curSent, writable, inbound, received, wire>>

senderVars  == <<spc, nsent>>
reactorVars == <<rpc, sending, cur, curSent>>
peerVars    == <<writable, inbound, received>>

Msgs == Senders \X (1..MsgsPerSender)

Init ==
    /\ spc = [s \in Senders |-> "idle"] /\ nsent = [s \in Senders |-> 0]
    /\ mutex = None /\ toSend = <<>> /\ pipe = 0
    /\ stopped = FALSE /\ failed = FALSE /\ owner = "idle"
    /\ rpc = "handshake" /\ sending = FALSE /\ cur = NoMsg /\ curSent = 0
    /\ writable = TRUE /\ inbound = 0 /\ received = 0 /\ wire = <<>>

\* write(_to_send_notif_pipe[1], "1", 1): blocks while the pipe is full.
WakePipe == pipe < PipeCap /\ pipe' = pipe + 1

-----------------------------------------------------------------------------
(* send_message and stop.                                                  *)

\* send_message: lock _to_send_mutex, push_back.
SendLock(s) ==
    /\ spc[s] = "idle" /\ nsent[s] < MsgsPerSender
    /\ mutex = None
    /\ mutex' = s
    /\ toSend' = Append(toSend, <<s, nsent[s] + 1>>)
    /\ nsent' = [nsent EXCEPT ![s] = @ + 1]
    /\ spc' = [spc EXCEPT ![s] = "write"]
    /\ UNCHANGED <<pipe, stopped, failed, owner, reactorVars, peerVars, wire>>

\* ... then the pipe write, still holding the mutex, and the unlock.
SendWrite(s) ==
    /\ spc[s] = "write"
    /\ WakePipe
    /\ mutex' = None
    /\ spc' = [spc EXCEPT ![s] = "idle"]
    /\ UNCHANGED <<nsent, toSend, stopped, failed, owner, reactorVars, peerVars, wire>>

\* stop(): under _stopped_mutex, notify and set _stopped ...
Stop ==
    /\ owner = "idle"
    /\ stopped' = TRUE
    /\ owner' = "wake"
    /\ UNCHANGED <<senderVars, mutex, toSend, pipe, failed, reactorVars, peerVars, wire>>

StopWakeMissing ==
    /\ owner = "wake"
    /\ owner' = "done"
    /\ UNCHANGED <<senderVars, mutex, toSend, pipe, stopped, failed, reactorVars, peerVars, wire>>

\* ... then wake the reactor through the pipe.
StopWake ==
    /\ owner = "wake"
    /\ WakePipe
    /\ owner' = "done"
    /\ UNCHANGED <<senderVars, mutex, toSend, stopped, failed, reactorVars, peerVars, wire>>

-----------------------------------------------------------------------------
(* The reactor thread.                                                     *)

RUnchanged == UNCHANGED <<senderVars, mutex, pipe, stopped, owner, peerVars, wire>>

\* before_entry(): SSL_accept / SSL_connect, retried through poll_wait.
Handshake ==
    /\ rpc = "handshake"
    /\ rpc' = "top"
    /\ RUnchanged /\ UNCHANGED <<toSend, failed, sending, cur, curSent>>

\* The handshake fails: SSL_accept / SSL_connect reports an error other
\* than WANT_READ/WANT_WRITE, or Helpers::poll_wait sees no readiness
\* within the timeout and throws.
HandshakeFail ==
    /\ rpc = "handshake"
    /\ failed' = TRUE
    /\ rpc' = "fail"
    /\ RUnchanged /\ UNCHANGED <<toSend, sending, cur, curSent>>

\* SSL_write_ex or SSL_read_ex fails with an error other than
\* WANT_READ/WANT_WRITE: OpenSSLException, caught by the catch block.
IoError ==
    /\ rpc \in {"write", "read"}
    /\ failed' = TRUE
    /\ rpc' = "fail"
    /\ RUnchanged /\ UNCHANGED <<toSend, sending, cur, curSent>>

\* while (!_stopped) fails: leave the loop, SSL_shutdown, return.
ReactorExit ==
    /\ rpc = "top" /\ stopped
    /\ rpc' = "exited"
    /\ RUnchanged /\ UNCHANGED <<toSend, failed, sending, cur, curSent>>

TakeNextBack ==
    /\ cur' = toSend[Len(toSend)]
    /\ toSend' = SubSeq(toSend, 1, Len(toSend) - 1)

\* Take the first message of _to_send.
TakeNext ==
    /\ cur' = Head(toSend)
    /\ toSend' = Tail(toSend)

\* if (!sending): under _to_send_mutex, take the first queued message, if
\* any, into to_send_buf.
ReactorDequeue ==
    /\ rpc = "top" /\ ~stopped /\ ~sending
    /\ mutex = None
    /\ IF toSend # <<>>
       THEN TakeNext /\ sending' = TRUE /\ curSent' = 0
       ELSE UNCHANGED <<toSend, cur, sending, curSent>>
    /\ rpc' = "write"
    /\ RUnchanged /\ UNCHANGED failed

\* Still sending the previous frame: straight to the write loop.
ReactorResume ==
    /\ rpc = "top" /\ ~stopped /\ sending
    /\ rpc' = "write"
    /\ RUnchanged /\ UNCHANGED <<toSend, failed, sending, cur, curSent>>

\* One pass of while (sending): SSL_write_ex writes part of what remains,
\* possibly filling the socket buffer; a finished frame clears sending.
\* Nothing to send, or WANT_WRITE, leaves for the read loop.
Write ==
    /\ rpc = "write"
    /\ IF sending /\ writable
       THEN \E n \in 1..(FrameLen - curSent), room \in IF Congestion THEN BOOLEAN ELSE {TRUE} :
              /\ writable' = room
              /\ IF curSent + n = FrameLen
                 THEN /\ wire' = Append(wire, cur)
                      /\ sending' = FALSE /\ curSent' = 0 /\ cur' = NoMsg
                 ELSE /\ curSent' = curSent + n
                      /\ UNCHANGED <<wire, sending, cur>>
              /\ UNCHANGED rpc
       ELSE /\ rpc' = "read"
            /\ UNCHANGED <<writable, wire, sending, cur, curSent>>
    /\ UNCHANGED <<senderVars, mutex, toSend, pipe, stopped, failed, owner, inbound, received>>

\* The read loop drains every readable frame (handle_message for each)
\* until WANT_READ.
Read ==
    /\ rpc = "read"
    /\ received' = received + inbound
    /\ inbound' = 0
    /\ rpc' = "poll"
    /\ UNCHANGED <<senderVars, mutex, toSend, pipe, stopped, failed, owner,
                   sending, cur, curSent, writable, wire>>

\* The events poll() reports: POLLIN on the socket, POLLOUT when sending,
\* POLLIN on the pipe.
Ready == inbound > 0 \/ (sending /\ writable) \/ pipe > 0

PollWakeNoDrain ==
    /\ rpc = "poll" /\ Ready
    /\ rpc' = "top"
    /\ UNCHANGED <<senderVars, mutex, toSend, pipe, stopped, failed, owner,
                   sending, cur, curSent, peerVars, wire>>

\* poll returns with an event; one byte is read from the pipe if it is
\* readable, and the loop starts over.  A poll interrupted by a signal
\* (EINTR, lines 186-187) returns from the thread without _failed or
\* handle_fail; no handler of the program's own raises one, so it is left out.
PollWake ==
    /\ rpc = "poll" /\ Ready
    /\ pipe' = IF pipe > 0 THEN pipe - 1 ELSE pipe
    /\ rpc' = "top"
    /\ UNCHANGED <<senderVars, mutex, toSend, stopped, failed, owner,
                   sending, cur, curSent, peerVars, wire>>

\* The timeout elapses with no event: "Could not poll (timeout?)" is thrown.
PollTimeout ==
    /\ rpc = "poll" /\ ~Ready
    /\ failed' = TRUE
    /\ rpc' = "fail"
    /\ RUnchanged /\ UNCHANGED <<toSend, sending, cur, curSent>>

\* handle_fail(), then SSL_shutdown and the thread returns.
HandleFail ==
    /\ rpc = "fail"
    /\ rpc' = "exited"
    /\ RUnchanged /\ UNCHANGED <<toSend, failed, sending, cur, curSent>>

-----------------------------------------------------------------------------
(* The peer.                                                               *)

PeerSend ==
    /\ received + inbound < MaxInbound
    /\ inbound' = inbound + 1
    /\ UNCHANGED <<senderVars, mutex, toSend, pipe, stopped, failed, owner,
                   reactorVars, writable, received, wire>>

PeerDrain ==
    /\ ~writable
    /\ writable' = TRUE
    /\ UNCHANGED <<senderVars, mutex, toSend, pipe, stopped, failed, owner,
                   reactorVars, inbound, received, wire>>

\* Every thread has finished.
Finished ==
    /\ rpc = "exited" /\ owner = "done"
    /\ \A s \in Senders : spc[s] = "idle" /\ nsent[s] = MsgsPerSender
    /\ UNCHANGED vars

Next ==
    \/ \E s \in Senders : SendLock(s) \/ SendWrite(s)
    \/ Stop \/ StopWake
    \/ Handshake \/ HandshakeFail \/ IoError \/ ReactorExit \/ ReactorDequeue \/ ReactorResume
    \/ Write \/ Read \/ PollWake \/ PollTimeout \/ HandleFail
    \/ PeerSend \/ PeerDrain \/ Finished

\* Threads that have started a step keep running (OS scheduling), and the
\* peer keeps reading its socket.  Starting a send, calling stop, the peer
\* sending, I/O errors and the poll timeout are not forced: liveness is
\* claimed only where no timer is needed.
Fairness ==
    /\ \A s \in Senders : WF_vars(SendWrite(s))
    /\ WF_vars(StopWake)
    /\ WF_vars(Handshake) /\ WF_vars(ReactorExit) /\ WF_vars(ReactorDequeue)
    /\ WF_vars(ReactorResume) /\ WF_vars(Write) /\ WF_vars(Read)
    /\ WF_vars(PollWake) /\ WF_vars(HandleFail)
    /\ WF_vars(PeerDrain)

Spec == Init /\ [][Next]_vars /\ Fairness

-----------------------------------------------------------------------------
(* Refinement of FrameChannel: the channel's queue is the frame in         *)
(* to_send_buf followed by _to_send; it is open until the reactor fails or *)
(* exits.                                                                  *)

Channel == INSTANCE FrameChannel WITH
    queue <- IF sending THEN <<cur>> \o toSend ELSE toSend,
    open  <- ~failed /\ rpc # "exited"

\* Frames reach the socket whole, in send_message order, each once,
\* whatever the interleaving of senders, partial writes and wakeups.
ChannelSafe == Channel!Spec

\* Spec 4.1, event loop step (b): a finished write loops back to dequeue
\* before waiting, so a queued message on an open connection is written
\* without waiting for other traffic or the timeout.
ChannelLive == Channel!LiveSpec

\* stop() wakes a reactor blocked in poll through the pipe, and the reactor
\* exits without needing the timeout (spec: request_stop is observed promptly).
StopWakesReactor == stopped ~> (rpc = "exited")

\* Messages whose pipe byte the reactor may not yet have read: those in
\* _to_send whose sender has written its byte, the one the reactor has
\* dequeued since its last poll, and stop()'s byte.
PipeCredit ==
    Len(toSend) - Cardinality({s \in Senders : spc[s] = "write"})
      + (IF rpc \in {"write", "read", "poll"} THEN 1 ELSE 0)
      + (IF owner = "done" THEN 1 ELSE 0)

\* While the reactor runs, the notification pipe never holds more unread
\* bytes than PipeCredit: send_message's write, the dequeue at the top of
\* the loop and the one byte read after each poll keep them in step.  So
\* a send_message can block in write(), holding _to_send_mutex, only
\* behind PipeCap - 1 queued messages, never on wakeups left over from
\* messages already sent.  (Once the reactor has failed nothing reads the
\* pipe; on the server only the workers still running then write it.)
PipeBacklogBounded ==
    rpc \in {"handshake", "top", "write", "read", "poll"} => pipe <= PipeCredit

=============================================================================
