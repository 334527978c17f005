------------------------------ MODULE RemoteFsRpc ------------------------------
(***************************************************************************)
(* One remotefs connection at the level of whole frames: the client        *)
(* correlator (AsyncSslClientTransport), the threads of FsClient that call *)
(* through it, both transport reactors reduced to "move the head frame",   *)
(* and the server side of Server::process_req: the inbound queue _msgs,    *)
(* the connection thread that spawns one detached worker per frame, and   *)
(* the worker body RemoteFsServer::handle_message with its double-checked  *)
(* login gate on ClientCtx::client_name.                                   *)
(*                                                                         *)
(* A payload is abstracted to its message kind plus a ghost field "call"   *)
(* naming the client call whose content it carries (for a reply: the call  *)
(* whose request it answers).  The frame-level reactor steps are refined  *)
(* by the byte-level modules of the project.                               *)
(***************************************************************************)
EXTENDS Naturals, Sequences, FiniteSets

CONSTANTS
    FuseThreads,  \* FUSE threads of the client that issue filesystem calls
    MaxCalls      \* calls each keep-alive / FUSE thread makes (model bound)

ASSUME MaxCalls \in Nat \ {0}

Main      == "main"  \* the thread running FsClient::run (sends the login)
KeepAlive == "ka"    \* keep_alive_thread of FsClient.cpp
ClientThreads == {Main, KeepAlive} \cup FuseThreads

NoName == "none"     \* ClientCtx::client_name is an empty optional
User   == "user"     \* the username carried by the client's LoginReq

RequestKinds == {"LoginReq", "KeepAliveReq", "FsReq"}
ReplyKinds   == {"LoginReply", "KeepAliveReply", "FsReply", "ErrorReply"}

\* The request each client thread sends (FsClient.cpp: call<...>(...)).
RequestOf(t) ==
    CASE t = Main      -> "LoginReq"
      [] t = KeepAlive -> "KeepAliveReq"
      [] OTHER         -> "FsReq"

\* How many calls a thread makes in the model.
Budget(t) == IF t = Main THEN 1 ELSE MaxCalls

Calls    == ClientThreads \X (1..MaxCalls)
MaxIds   == 1 + MaxCalls * (Cardinality(ClientThreads) - 1)
Ids      == 0..(MaxIds - 1)
Payloads == [kind : RequestKinds \cup ReplyKinds, call : Calls]
Frames   == [id : Ids, data : Payloads]

VARIABLES
    msgId,       \* AsyncSslClientTransport::_msg_id
    promises,    \* AsyncSslClientTransport::_promises : id -> waiting thread
    thr,         \* per client thread: pc, call counter n, id, reply
    loginOk,     \* main returned from call<LoginReply>: fuse_main is running
    alive,       \* the client process has not exited
    cToSend,     \* client AsyncSslTransport::_to_send
    c2s,         \* frames written by the client reactor, not yet read
    msgs,        \* AsyncSslServerTransport::_msgs
    wk,          \* detached msg_proc threads of Server::process_req, in spawn order
    clientName,  \* ClientCtx::client_name
    ctxLock,     \* holder of ClientCtx::ctx_mutex (0 = free)
    sToSend,     \* server AsyncSslTransport::_to_send
    s2c,         \* frames written by the server reactor, not yet read
    credsOk      \* acl.authorize(username, password) for the client's options

vars == <<credsOk, msgId, promises, thr, loginOk, alive, cToSend, c2s, msgs, wk,
          clientName, ctxLock, sToSend, s2c>>

ThreadPcs == {"idle", "registered", "waiting", "resolved", "finished"}
WorkerPcs == {"check", "lock", "auth", "serve", "reply", "done"}

TypeOK ==
    /\ msgId \in 0..MaxIds
    /\ \E D \in SUBSET Ids : promises \in [D -> ClientThreads]
    /\ thr \in [ClientThreads -> [pc : ThreadPcs, n : 0..MaxCalls,
                                  id : Ids, reply : Payloads \cup {<<>>}]]
    /\ loginOk \in BOOLEAN
    /\ alive \in BOOLEAN
    /\ \A q \in {cToSend, c2s, msgs, sToSend, s2c} : q \in Seq(Frames)
    /\ wk \in Seq([frame : Frames, pc : WorkerPcs, reply : Payloads \cup {<<>>}])
    /\ clientName \in {NoName, User}
    /\ ctxLock \in 0..Len(wk)
    /\ credsOk \in BOOLEAN

-----------------------------------------------------------------------------
(* Client side.                                                            *)

Init ==
    /\ msgId = 0
    /\ promises = [i \in {} |-> Main]
    /\ thr = [t \in ClientThreads |-> [pc |-> "idle", n |-> 0, id |-> 0, reply |-> <<>>]]
    /\ loginOk = FALSE
    /\ alive = TRUE
    /\ cToSend = <<>> /\ c2s = <<>> /\ msgs = <<>> /\ sToSend = <<>> /\ s2c = <<>>
    /\ wk = <<>>
    /\ clientName = NoName
    /\ credsOk \in BOOLEAN
    /\ ctxLock = 0

\* FUSE only serves calls once main's login returned and fuse_main started.
MayCall(t) == t \in FuseThreads => loginOk

\* The id send_msg takes and the counter it leaves: id = _msg_id++.
IssuedIdPre == msgId + 1
IssuedId == msgId
IdCounterSame == msgId
IdCounterNext == msgId + 1

\* send_msg, first critical section under _promises_mutex: take the id and
\* _promises.emplace(id, promise), which keeps an existing entry.
Register(t) ==
    /\ alive
    /\ thr[t].pc = "idle"
    /\ thr[t].n < Budget(t)
    /\ MayCall(t)
    /\ msgId' = IdCounterNext
    /\ promises' = IF IssuedId \in DOMAIN promises THEN promises
                   ELSE [i \in DOMAIN promises \cup {IssuedId} |->
                            IF i = IssuedId THEN t ELSE promises[i]]
    /\ thr' = [thr EXCEPT ![t] = [pc |-> "registered", n |-> @.n + 1,
                                  id |-> IssuedId, reply |-> <<>>]]
    /\ UNCHANGED <<credsOk, loginOk, alive, cToSend, c2s, msgs, wk, clientName, ctxLock, sToSend, s2c>>

\* send_msg, then send_message: _to_send.push_back(MsgWrapper{id, message}).
Enqueue(t) ==
    /\ alive
    /\ thr[t].pc = "registered"
    /\ cToSend' = Append(cToSend, [id |-> thr[t].id,
                                   data |-> [kind |-> RequestOf(t), call |-> <<t, thr[t].n>>]])
    /\ thr' = [thr EXCEPT ![t].pc = "waiting"]
    /\ UNCHANGED <<credsOk, msgId, promises, loginOk, alive, c2s, msgs, wk, clientName, ctxLock, sToSend, s2c>>

\* call<R>: future.get() returned; the reply must hold alternative R.
\* main: a failed login throws out of FsClient::run and main() returns -1;
\* keep_alive logs the error and loops; a FUSE callback returns -EIO.
Return(t) ==
    /\ alive
    /\ thr[t].pc = "resolved"
    /\ IF t = Main
       THEN /\ loginOk' = (thr[t].reply.kind = "LoginReply")
            /\ alive' = (thr[t].reply.kind = "LoginReply")
            /\ thr' = [thr EXCEPT ![t].pc = "finished"]
       ELSE /\ thr' = [thr EXCEPT ![t].pc = "idle"]
            /\ UNCHANGED <<loginOk, alive>>
    /\ UNCHANGED <<credsOk, msgId, promises, cToSend, c2s, msgs, wk, clientName, ctxLock, sToSend, s2c>>

\* Client reactor writes the head of _to_send to the socket (one whole frame).
ClientSend ==
    /\ alive
    /\ cToSend # <<>>
    /\ c2s' = Append(c2s, Head(cToSend))
    /\ cToSend' = Tail(cToSend)
    /\ UNCHANGED <<credsOk, msgId, promises, thr, loginOk, alive, msgs, wk, clientName, ctxLock, sToSend, s2c>>

\* _promises.erase(future_it).
EraseKept(id) == promises
Erase(id) == [i \in DOMAIN promises \ {id} |-> promises[i]]

\* Client reactor reads a frame and runs AsyncSslClientTransport::handle_message:
\* resolve and erase the promise for msg->id, or log and drop an unknown id.
ClientRecv ==
    /\ alive
    /\ s2c # <<>>
    /\ LET f == Head(s2c) IN
       IF f.id \in DOMAIN promises
       THEN /\ thr' = [thr EXCEPT ![promises[f.id]].pc = "resolved",
                                  ![promises[f.id]].reply = f.data]
            /\ promises' = Erase(f.id)
       ELSE UNCHANGED <<thr, promises>>
    /\ s2c' = Tail(s2c)
    /\ UNCHANGED <<credsOk, msgId, loginOk, alive, cToSend, c2s, msgs, wk, clientName, ctxLock, sToSend>>

\* An I/O error or poll timeout in the client reactor: handle_fail() calls
\* stop() and std::exit(EXIT_FAILURE).
ClientFail ==
    /\ alive
    /\ alive' = FALSE
    /\ UNCHANGED <<credsOk, msgId, promises, thr, loginOk, cToSend, c2s, msgs, wk, clientName, ctxLock, sToSend, s2c>>

-----------------------------------------------------------------------------
(* Server side.                                                            *)

SUnchanged == UNCHANGED <<credsOk, msgId, promises, thr, loginOk, alive, cToSend>>

\* Server reactor reads a frame; AsyncSslServerTransport::handle_message
\* appends it to _msgs.
ServerRecv ==
    /\ alive
    /\ c2s # <<>>
    /\ msgs' = Append(msgs, Head(c2s))
    /\ c2s' = Tail(c2s)
    /\ SUnchanged
    /\ UNCHANGED <<wk, clientName, ctxLock, sToSend, s2c>>

\* Connection thread: get_msg() pops the head of _msgs, a msg_proc thread is
\* spawned and detached for it.
Dispatch ==
    /\ alive
    /\ msgs # <<>>
    /\ wk' = Append(wk, [frame |-> Head(msgs), pc |-> "check", reply |-> <<>>])
    /\ msgs' = Tail(msgs)
    /\ SUnchanged
    /\ UNCHANGED <<c2s, clientName, ctxLock, sToSend, s2c>>

SetWorker(w, pc, reply) == wk' = [wk EXCEPT ![w] = [@ EXCEPT !.pc = pc, !.reply = reply]]

Reply(w, kind) == [kind |-> kind, call |-> wk[w].frame.data.call]

WorkerCheckInverted(w) ==
    /\ alive
    /\ wk[w].pc = "check"
    /\ SetWorker(w, IF clientName # NoName THEN "lock" ELSE "serve", <<>>)
    /\ SUnchanged
    /\ UNCHANGED <<c2s, msgs, clientName, ctxLock, sToSend, s2c>>

\* handle_message: `if (!context.client_name)` read without the lock.
WorkerCheck(w) ==
    /\ alive
    /\ wk[w].pc = "check"
    /\ SetWorker(w, IF clientName = NoName THEN "lock" ELSE "serve", <<>>)
    /\ SUnchanged
    /\ UNCHANGED <<c2s, msgs, clientName, ctxLock, sToSend, s2c>>

\* lock_guard(ctx_mutex), then the re-check; when the name is now set the
\* guard is released at the end of the block and the request is served.
WorkerLock(w) ==
    /\ alive
    /\ wk[w].pc = "lock"
    /\ ctxLock = 0
    /\ IF clientName = NoName
       THEN /\ ctxLock' = w
            /\ SetWorker(w, "auth", <<>>)
       ELSE /\ SetWorker(w, "serve", <<>>)
            /\ UNCHANGED ctxLock
    /\ SUnchanged
    /\ UNCHANGED <<c2s, msgs, clientName, sToSend, s2c>>

\* The lock_guard on ctx_mutex is released when handle_auth returns or throws.
ReleaseCtxLock == ctxLock' = 0

\* handle_auth under ctx_mutex: a LoginReq that acl.authorize accepts sets
\* client_name; anything else throws and becomes an ErrorReply.  The client
\* sends its --username and --password options and the users file is loaded
\* once, so authorize gives the same verdict, credsOk, all run long.
WorkerAuth(w) ==
    /\ alive
    /\ wk[w].pc = "auth"
    /\ IF wk[w].frame.data.kind = "LoginReq" /\ credsOk
       THEN /\ clientName' = User
            /\ SetWorker(w, "reply", Reply(w, "LoginReply"))
       ELSE /\ SetWorker(w, "reply", Reply(w, "ErrorReply"))
            /\ UNCHANGED clientName
    /\ ReleaseCtxLock
    /\ SUnchanged
    /\ UNCHANGED <<c2s, msgs, sToSend, s2c>>

\* The authenticated visitor: LoginReq is an unexpected type; KeepAliveReq is
\* answered; a filesystem request passes acl.authorize_path or is refused.
WorkerServe(w) ==
    /\ alive
    /\ wk[w].pc = "serve"
    /\ LET k == wk[w].frame.data.kind IN
       \/ k = "LoginReq"     /\ SetWorker(w, "reply", Reply(w, "ErrorReply"))
       \/ k = "KeepAliveReq" /\ SetWorker(w, "reply", Reply(w, "KeepAliveReply"))
       \/ k = "FsReq"        /\ \E r \in {"FsReply", "ErrorReply"} : SetWorker(w, "reply", Reply(w, r))
    /\ SUnchanged
    /\ UNCHANGED <<c2s, msgs, clientName, ctxLock, sToSend, s2c>>

\* msg_proc: send_message(MsgWrapper{msg->id, ret}).
WorkerSend(w) ==
    /\ alive
    /\ wk[w].pc = "reply"
    /\ sToSend' = Append(sToSend, [id |-> wk[w].frame.id, data |-> wk[w].reply])
    /\ SetWorker(w, "done", wk[w].reply)
    /\ SUnchanged
    /\ UNCHANGED <<c2s, msgs, clientName, ctxLock, s2c>>

\* Server reactor writes the head of its _to_send.
ServerSend ==
    /\ alive
    /\ sToSend # <<>>
    /\ s2c' = Append(s2c, Head(sToSend))
    /\ sToSend' = Tail(sToSend)
    /\ SUnchanged
    /\ UNCHANGED <<c2s, msgs, wk, clientName, ctxLock>>

-----------------------------------------------------------------------------

\* Every thread has spent its calls and nothing is in flight, or the client
\* process has exited: the model has nothing left to do.
Quiescent ==
    /\ \/ ~alive
       \/ /\ \A t \in ClientThreads : thr[t].pc \in {"idle", "finished"} /\ thr[t].n = Budget(t)
          /\ \A w \in DOMAIN wk : wk[w].pc = "done"
          /\ cToSend = <<>> /\ c2s = <<>> /\ msgs = <<>> /\ sToSend = <<>> /\ s2c = <<>>
    /\ UNCHANGED vars

Workers == DOMAIN wk

Next ==
    \/ \E t \in ClientThreads : Register(t) \/ Enqueue(t) \/ Return(t)
    \/ ClientSend \/ ClientRecv \/ ClientFail
    \/ ServerRecv \/ Dispatch \/ ServerSend
    \/ \E w \in Workers : WorkerCheck(w) \/ WorkerLock(w) \/ WorkerAuth(w)
                          \/ WorkerServe(w) \/ WorkerSend(w)
    \/ Quiescent

\* Safety only: the client's frames wait on its reactor's wakeups, which
\* can be spent early (the reactor_stall run), so no progress is claimed.
Spec == Init /\ [][Next]_vars

-----------------------------------------------------------------------------
(* Properties.                                                             *)

Pending(t) == thr[t].pc \in {"registered", "waiting"}

\* The state of RpcCalls that the client threads' program counters stand for.
CallState(t) ==
    CASE thr[t].pc \in {"registered", "waiting"} -> "pending"
      [] OTHER                                  -> thr[t].pc

Rpc == INSTANCE RpcCalls
         WITH Threads <- ClientThreads, Login <- Main, Fuse <- FuseThreads,
              CallBudget <- [t \in ClientThreads |-> Budget(t)],
              RequestKind <- [t \in ClientThreads |-> RequestOf(t)],
              st <- [t \in ClientThreads |-> CallState(t)],
              n <- [t \in ClientThreads |-> thr[t].n],
              reply <- [t \in ClientThreads |-> thr[t].reply],
              up <- alive

\* Id correlation (AsyncSslClientTransport::handle_message) together with
\* the server's replies: whatever order the workers reply in, every step of
\* the client threads is a step of RpcCalls; a future is resolved once per
\* call, with the reply to that call, of a kind its request allows, and
\* FUSE calls start only after a successful login.
RpcSafe == Rpc!Spec

\* _promises holds exactly one entry per call that has been registered by
\* send_msg and not yet answered, keyed by that call's id: entries are
\* neither lost nor leaked.
PromiseTableExact ==
    /\ DOMAIN promises = {thr[t].id : t \in {u \in ClientThreads : Pending(u)}}
    /\ \A t \in ClientThreads : Pending(t) => promises[thr[t].id] = t

\* keep_alive_thread starts before main sends the LoginReq (FsClient.cpp:288),
\* so a KeepAliveReq, or several, may reach handle_message first and take
\* the ctx_mutex path of the double-checked gate.  Main's login is still
\* decided by the credentials alone: its reply is LoginReply exactly when
\* authorize accepts them, however the workers of the earlier frames ran.
LoginDecidedByCredentials ==
    thr[Main].pc \in {"resolved", "finished"} =>
        ((thr[Main].reply.kind = "LoginReply") <=> credsOk)

=============================================================================
