--------------------------- MODULE ServerConnection ---------------------------
(***************************************************************************)
(* The threads of one accepted connection on the server:                   *)
(*  - the reactor thread of AsyncSslServerTransport (handshake, frames     *)
(*    delivered through handle_message, failure through handle_fail);      *)
(*  - the connection thread of Server::process_req, looping on get_msg(),  *)
(*    whose condition-variable wait is modelled step by step: predicate    *)
(*    checked under _msgs_mutex, then the atomic unlock-and-sleep;         *)
(*  - the detached msg_proc workers, which hold a reference to the         *)
(*    connection thread's stack object ClientCtx.                          *)
(* Frames are numbered in arrival order; the worker body is reduced to its *)
(* two uses of the context (handle_message, then send_message).            *)
(***************************************************************************)
EXTENDS Naturals, Sequences

CONSTANTS MaxFrames   \* frames the client sends before the model stops it

ASSUME MaxFrames \in Nat \ {0}

Conn    == "conn"     \* the connection thread, the only waiter on _msgs_condition
Reactor == "reactor"  \* the transport's own thread
None    == "none"

VARIABLES
    rpc,        \* reactor thread: "handshake", "running", "notify" or "exited"
    failed,     \* AsyncSslTransport::_failed
    stopped,    \* AsyncSslTransport::_stopped
    msgs,       \* AsyncSslServerTransport::_msgs (frame numbers)
    msgsLock,   \* holder of _msgs_mutex
    sleeping,   \* the connection thread is blocked in _msgs_condition.wait
    arrived,    \* frames delivered by the reactor so far
    cpc,        \* connection thread program counter
    ctxAlive,   \* the ClientCtx on the connection thread's stack still exists
    fdOpen,     \* conn_fd has not been closed by process_req
    wk,         \* msg_proc workers in spawn order: [frame, pc]
    toSend      \* AsyncSslTransport::_to_send (replies, by frame number)

vars == <<rpc, failed, stopped, msgs, msgsLock, sleeping, arrived, cpc,
          ctxAlive, fdOpen, wk, toSend>>

ConnPcs == {"lock", "check", "wait", "sleep", "stop", "join", "close", "end"}

Init ==
    /\ rpc = "handshake"
    /\ failed = FALSE /\ stopped = FALSE /\ sleeping = FALSE
    /\ msgs = <<>>
    /\ msgsLock = None
    /\ arrived = 0
    /\ cpc = "lock"
    /\ ctxAlive = TRUE
    /\ fdOpen = TRUE
    /\ wk = <<>>
    /\ toSend = <<>>

\* notify_all on _msgs_condition: the sleeping thread, if any, wakes and
\* must re-acquire the mutex.
NotifyAll ==
    /\ sleeping' = FALSE
    /\ cpc' = IF sleeping THEN "lock" ELSE cpc

-----------------------------------------------------------------------------
(* Reactor thread (AsyncSslTransport::thread_entry).                       *)

\* before_entry(): SSL_accept completes.
Handshake ==
    /\ rpc = "handshake"
    /\ rpc' = "running"
    /\ UNCHANGED <<failed, stopped, msgs, msgsLock, sleeping, arrived, cpc, ctxAlive, fdOpen, wk, toSend>>

DeliverNoNotify ==
    /\ rpc = "running"
    /\ ~stopped
    /\ arrived < MaxFrames
    /\ msgsLock = None
    /\ arrived' = arrived + 1
    /\ msgs' = Append(msgs, arrived + 1)
    /\ UNCHANGED <<rpc, failed, stopped, msgsLock, sleeping, cpc, ctxAlive, fdOpen, wk, toSend>>

\* A complete frame was read: handle_message locks _msgs_mutex, appends,
\* notifies, unlocks.
Deliver ==
    /\ rpc = "running"
    /\ ~stopped
    /\ arrived < MaxFrames
    /\ msgsLock = None
    /\ arrived' = arrived + 1
    /\ msgs' = Append(msgs, arrived + 1)
    /\ NotifyAll
    /\ UNCHANGED <<rpc, failed, stopped, msgsLock, ctxAlive, fdOpen, wk, toSend>>

\* The reactor writes the head of _to_send.
Transmit ==
    /\ rpc = "running"
    /\ ~stopped
    /\ toSend # <<>>
    /\ toSend' = Tail(toSend)
    /\ UNCHANGED <<rpc, failed, stopped, msgs, msgsLock, sleeping, arrived, cpc, ctxAlive, fdOpen, wk>>

\* Handshake error, I/O error, peer shutdown or poll timeout: the catch block
\* sets _failed = true (before handle_fail runs).
Fail ==
    /\ rpc \in {"handshake", "running"}
    /\ rpc' = "notify"
    /\ failed' = TRUE
    /\ UNCHANGED <<stopped, msgs, msgsLock, sleeping, arrived, cpc, ctxAlive, fdOpen, wk, toSend>>

\* AsyncSslServerTransport::handle_fail: notify_all without taking
\* _msgs_mutex.
HandleFail ==
    /\ rpc = "notify"
    /\ rpc' = "shutdown"
    /\ NotifyAll
    /\ UNCHANGED <<failed, stopped, msgs, msgsLock, arrived, ctxAlive, fdOpen, wk, toSend>>

\* After the catch block: SSL_shutdown(_ssl) sends close_notify on _fd, and
\* the thread returns.
Shutdown ==
    /\ rpc = "shutdown"
    /\ rpc' = "exited"
    /\ UNCHANGED <<failed, stopped, msgs, msgsLock, sleeping, arrived, cpc, ctxAlive, fdOpen, wk, toSend>>

-----------------------------------------------------------------------------
(* Connection thread (Server::process_req and get_msg).                    *)

CUnchanged == UNCHANGED <<rpc, failed, stopped, arrived, ctxAlive, fdOpen, toSend>>

\* get_msg: std::unique_lock lock(_msgs_mutex), or re-acquire after a wakeup.
ConnLock ==
    /\ cpc = "lock"
    /\ msgsLock = None
    /\ msgsLock' = Conn
    /\ cpc' = "check"
    /\ CUnchanged
    /\ UNCHANGED <<msgs, sleeping, wk>>

ConnCheckLifo ==
    /\ cpc = "check"
    /\ IF msgs # <<>> \/ failed \/ stopped
       THEN /\ msgsLock' = None
            /\ IF failed
               THEN /\ cpc' = "close"
                    /\ UNCHANGED <<msgs, wk>>
               ELSE /\ msgs' = SubSeq(msgs, 1, Len(msgs) - 1)
                    /\ wk' = Append(wk, [frame |-> msgs[Len(msgs)], pc |-> "handle"])
                    /\ cpc' = "lock"
       ELSE /\ cpc' = "wait"
            /\ UNCHANGED <<msgsLock, msgs, wk>>
    /\ CUnchanged
    /\ UNCHANGED sleeping

\* The wait predicate under the mutex; when it holds, get_msg returns
\* nullptr on failure (the loop breaks) or pops the head and a worker is
\* spawned and detached for it.
ConnCheck ==
    /\ cpc = "check"
    /\ IF msgs # <<>> \/ failed \/ stopped
       THEN /\ msgsLock' = None
            /\ IF failed
               THEN /\ cpc' = "close"
                    /\ UNCHANGED <<msgs, wk>>
               ELSE /\ msgs' = Tail(msgs)
                    /\ wk' = Append(wk, [frame |-> Head(msgs), pc |-> "handle"])
                    /\ cpc' = "lock"
       ELSE /\ cpc' = "wait"
            /\ UNCHANGED <<msgsLock, msgs, wk>>
    /\ CUnchanged
    /\ UNCHANGED sleeping

\* condition_variable::wait: atomically release the mutex and block.
ConnWait ==
    /\ cpc = "wait"
    /\ msgsLock' = None
    /\ sleeping' = TRUE
    /\ cpc' = "sleep"
    /\ CUnchanged
    /\ UNCHANGED <<msgs, wk>>

\* A spurious wakeup, which the standard allows but never promises.
SpuriousWakeup ==
    /\ cpc = "sleep"
    /\ sleeping' = FALSE
    /\ cpc' = "lock"
    /\ CUnchanged
    /\ UNCHANGED <<msgs, msgsLock, wk>>

\* After the loop: close(conn_fd); _req_in_progress.fetch_sub(1); notify
\* the accept loop under _req_in_progress_mutex.
ConnClose ==
    /\ cpc = "close"
    /\ fdOpen' = FALSE
    /\ cpc' = "stop"
    /\ UNCHANGED <<rpc, failed, stopped, msgs, msgsLock, sleeping, arrived, ctxAlive, wk, toSend>>

\* The lambda returns and ClientCtx, declared before the try block, is
\* destroyed: ~AsyncSslTransport calls stop() ...
ConnStop ==
    /\ cpc = "stop"
    /\ stopped' = TRUE
    /\ cpc' = "join"
    /\ UNCHANGED <<rpc, failed, msgs, msgsLock, sleeping, arrived, ctxAlive, fdOpen, wk, toSend>>

\* ... then _thread.join(); the context's storage is gone afterwards.
ConnJoin ==
    /\ cpc = "join"
    /\ rpc = "exited"
    /\ ctxAlive' = FALSE
    /\ cpc' = "end"
    /\ UNCHANGED <<rpc, failed, stopped, msgs, msgsLock, sleeping, arrived, fdOpen, wk, toSend>>

-----------------------------------------------------------------------------
(* msg_proc workers.                                                       *)

\* this->handle_message(context, ...): reads context.client_name, ctx_mutex.
WorkerHandle(w) ==
    /\ wk[w].pc = "handle"
    /\ wk' = [wk EXCEPT ![w].pc = "send"]
    /\ UNCHANGED <<rpc, failed, stopped, msgs, msgsLock, sleeping, arrived, cpc, ctxAlive, fdOpen, toSend>>

\* context.transport.send_message(MsgWrapper{msg->id, ret}).
WorkerSend(w) ==
    /\ wk[w].pc = "send"
    /\ wk' = [wk EXCEPT ![w].pc = "done"]
    /\ toSend' = Append(toSend, wk[w].frame)
    /\ UNCHANGED <<rpc, failed, stopped, msgs, msgsLock, sleeping, arrived, cpc, ctxAlive, fdOpen>>

\* Nothing can move any more: the connection thread finished and every
\* worker is done (the model's terminal state).
Finished ==
    /\ cpc = "end"
    /\ \A w \in DOMAIN wk : wk[w].pc = "done"
    /\ UNCHANGED vars

Next ==
    \/ Handshake \/ Deliver \/ Transmit \/ Fail \/ HandleFail \/ Shutdown
    \/ ConnLock \/ ConnCheck \/ ConnWait \/ SpuriousWakeup
    \/ ConnStop \/ ConnJoin \/ ConnClose
    \/ \E w \in DOMAIN wk : WorkerHandle(w) \/ WorkerSend(w)
    \/ Finished

\* Every thread keeps running while it can (OS scheduling); frames arriving,
\* failures and spurious wakeups are not forced.
Fairness ==
    /\ WF_vars(Handshake) /\ WF_vars(Transmit) /\ WF_vars(HandleFail) /\ WF_vars(Shutdown)
    /\ WF_vars(ConnLock) /\ WF_vars(ConnCheck) /\ WF_vars(ConnWait)
    /\ WF_vars(ConnStop) /\ WF_vars(ConnJoin) /\ WF_vars(ConnClose)
    /\ \A w \in 1..MaxFrames :
          /\ WF_vars(w \in DOMAIN wk /\ WorkerHandle(w))
          /\ WF_vars(w \in DOMAIN wk /\ WorkerSend(w))

Spec == Init /\ [][Next]_vars /\ Fairness

-----------------------------------------------------------------------------
(* Properties.                                                             *)

\* _msgs is consumed FIFO: workers are spawned in arrival order and every
\* delivered frame is either spawned or still queued, exactly once.
DispatchInArrivalOrder ==
    /\ \A k \in DOMAIN wk : wk[k].frame = k
    /\ msgs = [i \in 1..Len(msgs) |-> Len(wk) + i]
    /\ Len(wk) + Len(msgs) = arrived

\* A frame delivered while the connection is healthy is eventually handed
\* to a worker (handle_message's notify reaches a blocked get_msg).
ArrivalsDispatched ==
    \A n \in 1..MaxFrames : (arrived >= n) ~> (Len(wk) >= n \/ failed)

\* Spec section 4.4 / teardown: once the transport has failed, get_msg
\* returns nullptr and the connection thread winds the connection down.
FailureEndsConnection ==
    failed ~> (cpc = "end")

=============================================================================
