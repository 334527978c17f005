---------------------------- MODULE ServerDriver ----------------------------
(***************************************************************************)
(* The server process as a whole (Server::run and Server::process_req):    *)
(* the accept loop and the connections it spawns, all drawing their        *)
(* descriptors from one per-process table.  accept, socket and pipe return *)
(* the lowest free descriptor numbers, so a number closed by one           *)
(* connection is the next one handed out.  Each connection is reduced to   *)
(* the steps that take, use or release a resource:                         *)
(*  - its connection thread: ClientCtx construction (the transport's       *)
(*    pipe()), transport.run(), the get_msg loop spawning detached         *)
(*    msg_proc workers, close(conn_fd), and ~ClientCtx (stop() writes the  *)
(*    notification pipe, then join);                                       *)
(*  - its reactor thread: running (polls conn_fd and the pipe's read end), *)
(*    failure, then SSL_shutdown on conn_fd;                               *)
(*  - its workers: each uses the ClientCtx and writes the pipe's write end *)
(*    (send_message).                                                      *)
(* ServerConnection has the interleaving inside one connection; here the   *)
(* failure and its notification are one step.                              *)
(***************************************************************************)
EXTENDS Integers, FiniteSetsExt

CONSTANTS
    Clients,     \* number of clients that connect over the run
    MaxFd,       \* size of the process's descriptor table (RLIMIT_NOFILE)
    MaxWorkers   \* msg_proc workers one connection may have spawned

ASSUME Clients \in Nat \ {0} /\ MaxFd \in Nat \ {0} /\ MaxWorkers \in Nat

Conns    == 1..Clients
Fds      == 1..MaxFd
ListenFd == 1                \* `sock`, created before the loop starts
Free     == 0                \* owner of a descriptor number not in use
Listener == Clients + 1      \* owner of the listening socket
Bad      == 0                \* a number that is never an open descriptor

VARIABLES
    owner,       \* descriptor number -> connection holding it (or Free)
    arrived,     \* clients that have connected
    accepted,    \* clients accept() has returned (connection c is the c-th)
    inProgress,  \* Server::_req_in_progress
    conn         \* per connection: threads' positions and its descriptors

vars == <<owner, arrived, accepted, inProgress, conn>>

ConnPcs == {"none", "ctor", "loop", "stop", "join", "done"}
RpcPcs  == {"none", "running", "shutdown", "exited"}

FreeFds == {f \in Fds : owner[f] = Free}

\* Server::run up to the loop: socket(), bind(), listen(), init_nonblock.
Init ==
    /\ owner = [f \in Fds |-> IF f = ListenFd THEN Listener ELSE Free]
    /\ arrived = 0
    /\ accepted = 0
    /\ inProgress = 0
    /\ conn = [c \in Conns |-> [pc |-> "none", rpc |-> "none", fd |-> Bad,
                                pipe |-> <<Bad, Bad>>, workers |-> 0]]

\* A client connects (Client::run: socket() and connect()); it waits in the
\* listen backlog until accepted.
Arrive ==
    /\ arrived < Clients
    /\ arrived' = arrived + 1
    /\ UNCHANGED <<owner, accepted, inProgress, conn>>

\* poll_wait(sock) returns and accept() takes the lowest free number;
\* process_req counts the connection and starts its thread.  With no free
\* number accept fails (EMFILE), the exception is caught and the loop polls
\* again, a step that changes nothing.
Accept ==
    /\ arrived > accepted
    /\ FreeFds # {}
    /\ LET c == accepted + 1
           f == Min(FreeFds)
       IN /\ owner' = [owner EXCEPT ![f] = c]
          /\ conn' = [conn EXCEPT ![c].pc = "ctor", ![c].fd = f]
          /\ accepted' = c
    /\ inProgress' = inProgress + 1
    /\ UNCHANGED arrived

\* ClientCtx context{...}: the transport's constructor calls
\* pipe(_to_send_notif_pipe) and ignores its result.  On success the two
\* lowest free numbers become the pipe; on EMFILE the array keeps whatever
\* the uninitialised member held, any number at all.  init_nonblock and
\* transport.run() follow: the reactor thread starts.
Construct(c) ==
    /\ conn[c].pc = "ctor"
    /\ IF Cardinality(FreeFds) >= 2
       THEN LET r == Min(FreeFds)
                w == Min(FreeFds \ {r})
            IN /\ owner' = [owner EXCEPT ![r] = c, ![w] = c]
               /\ conn' = [conn EXCEPT ![c].pc = "loop", ![c].rpc = "running",
                                       ![c].pipe = <<r, w>>]
       ELSE \E r, w \in Fds \cup {Bad} :
               /\ conn' = [conn EXCEPT ![c].pc = "loop", ![c].rpc = "running",
                                       ![c].pipe = <<r, w>>]
               /\ UNCHANGED owner
    /\ UNCHANGED <<arrived, accepted, inProgress>>

\* get_msg returns a frame: a msg_proc worker is spawned and detached.
Dispatch(c) ==
    /\ conn[c].pc = "loop"
    /\ conn[c].rpc = "running"
    /\ conn[c].workers < MaxWorkers
    /\ conn' = [conn EXCEPT ![c].workers = @ + 1]
    /\ UNCHANGED <<owner, arrived, accepted, inProgress>>

\* A worker runs handle_message(context, ...) and
\* context.transport.send_message(...), which writes the pipe, and ends.
WorkerDone(c) ==
    /\ conn[c].workers > 0
    /\ conn' = [conn EXCEPT ![c].workers = @ - 1]
    /\ UNCHANGED <<owner, arrived, accepted, inProgress>>

\* The reactor's loop throws (peer gone, I/O error, timeout); the catch
\* block sets _failed and handle_fail wakes get_msg.
Fail(c) ==
    /\ conn[c].rpc = "running"
    /\ conn' = [conn EXCEPT ![c].rpc = "shutdown"]
    /\ UNCHANGED <<owner, arrived, accepted, inProgress>>

\* After the catch block: SSL_shutdown writes close_notify on _fd.
Shutdown(c) ==
    /\ conn[c].rpc = "shutdown"
    /\ conn' = [conn EXCEPT ![c].rpc = "exited"]
    /\ UNCHANGED <<owner, arrived, accepted, inProgress>>

\* get_msg returned nullptr: close(conn_fd), _req_in_progress.fetch_sub(1)
\* and the notify under _req_in_progress_mutex.
Leave(c) ==
    /\ conn[c].pc = "loop"
    /\ conn[c].rpc \in {"shutdown", "exited"}
    /\ owner' = [owner EXCEPT ![conn[c].fd] = Free]
    /\ conn' = [conn EXCEPT ![c].pc = "stop"]
    /\ inProgress' = inProgress - 1
    /\ UNCHANGED <<arrived, accepted>>

\* ~ClientCtx, ~AsyncSslTransport: stop() writes "1" to pipe[1] ...
Stop(c) ==
    /\ conn[c].pc = "stop"
    /\ conn' = [conn EXCEPT ![c].pc = "join"]
    /\ UNCHANGED <<owner, arrived, accepted, inProgress>>

\* ... and _thread.join().  The SSL object is freed with the context; the
\* pipe is never closed.
Join(c) ==
    /\ conn[c].pc = "join"
    /\ conn[c].rpc = "exited"
    /\ conn' = [conn EXCEPT ![c].pc = "done"]
    /\ UNCHANGED <<owner, arrived, accepted, inProgress>>

Next ==
    \/ Arrive \/ Accept
    \/ \E c \in Conns :
          \/ Construct(c) \/ Dispatch(c) \/ WorkerDone(c) \/ Fail(c)
          \/ Shutdown(c) \/ Leave(c) \/ Stop(c) \/ Join(c)

Spec == Init /\ [][Next]_vars

-----------------------------------------------------------------------------
(* Properties.                                                             *)

TypeOK ==
    /\ owner \in [Fds -> {Free, Listener} \cup Conns]
    /\ arrived \in 0..Clients /\ accepted \in 0..arrived
    /\ inProgress \in 0..accepted
    /\ conn \in [Conns -> [pc : ConnPcs, rpc : RpcPcs, fd : Fds \cup {Bad},
                          pipe : (Fds \cup {Bad}) \X (Fds \cup {Bad}),
                          workers : 0..MaxWorkers]]

\* A descriptor number connection c uses that is open and held by someone
\* else: another client's socket or pipe, or the listening socket.
Foreign(c, f) == f \in Fds /\ owner[f] \notin {Free, c}

\* Every thread of a connection touches only resources still its own: a
\* msg_proc worker runs only while ClientCtx exists and writes only its own
\* pipe; the reactor reads and writes only its own conn_fd (up to and
\* including SSL_shutdown) and polls only its own pipe; stop() writes only
\* its own pipe.  process_req's close(conn_fd) before ~ClientCtx, the
\* detached workers, and pipe()'s unchecked failure each threaten it.
ResourcesOutliveUsers ==
    \A c \in Conns :
       /\ conn[c].workers > 0 => conn[c].pc # "done" /\ ~Foreign(c, conn[c].pipe[2])
       /\ conn[c].rpc \in {"running", "shutdown"} => ~Foreign(c, conn[c].fd)
       /\ conn[c].rpc = "running" => ~Foreign(c, conn[c].pipe[1])
       /\ conn[c].pc = "stop" => ~Foreign(c, conn[c].pipe[2])

=============================================================================
