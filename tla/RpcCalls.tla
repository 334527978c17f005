------------------------------- MODULE RpcCalls -------------------------------
(***************************************************************************)
(* What the client correlator promises its callers (spec section 4.3):     *)
(* every call<R> made by a client thread is answered once, with a reply to *)
(* that very call, of a kind its request allows, until the client process  *)
(* ends.  Filesystem calls start only after the login call succeeded, and  *)
(* a failed login ends the process (FsClient's fail-fast policy).          *)
(***************************************************************************)
EXTENDS Naturals

CONSTANTS
    Threads,   \* client threads that call
    Login,     \* the thread whose single call is the login
    Fuse,      \* the threads that make filesystem calls
    CallBudget, \* CallBudget[t]: calls thread t makes
    RequestKind \* RequestKind[t]: the kind of request thread t sends

NoReply == <<>>

\* The reply kinds a request may be answered with.
RepliesTo(k) ==
    CASE k = "LoginReq"     -> {"LoginReply", "ErrorReply"}
      [] k = "KeepAliveReq" -> {"KeepAliveReply", "ErrorReply"}
      [] OTHER              -> {"FsReply", "ErrorReply"}

\* The replies of the calls threads can make.
Replies == [kind : UNION {RepliesTo(RequestKind[t]) : t \in Threads},
            call : UNION {{t} \X (1..CallBudget[t]) : t \in Threads}]

VARIABLES
    st,      \* per thread: "idle", "pending", "resolved" or "finished"
    n,       \* per thread: calls started
    reply,   \* per thread: the reply of its last call
    up       \* the client process is running

vars == <<st, n, reply, up>>

Init ==
    /\ st = [t \in Threads |-> "idle"]
    /\ n = [t \in Threads |-> 0]
    /\ reply = [t \in Threads |-> NoReply]
    /\ up = TRUE

LoggedIn == st[Login] = "finished" /\ up

Issue(t) ==
    /\ up
    /\ st[t] = "idle"
    /\ n[t] < CallBudget[t]
    /\ t \in Fuse => LoggedIn
    /\ st' = [st EXCEPT ![t] = "pending"]
    /\ n' = [n EXCEPT ![t] = @ + 1]
    /\ reply' = [reply EXCEPT ![t] = NoReply]
    /\ UNCHANGED up

\* The reply names the call it answers: thread t's n[t]-th.
Answer(t, r) ==
    /\ up
    /\ st[t] = "pending"
    /\ r.call = <<t, n[t]>>
    /\ r.kind \in RepliesTo(RequestKind[t])
    /\ st' = [st EXCEPT ![t] = "resolved"]
    /\ reply' = [reply EXCEPT ![t] = r]
    /\ UNCHANGED <<n, up>>

Return(t) ==
    /\ up
    /\ st[t] = "resolved"
    /\ st' = [st EXCEPT ![t] = IF t = Login THEN "finished" ELSE "idle"]
    /\ up' = (t = Login => reply[t].kind = "LoginReply")
    /\ UNCHANGED <<n, reply>>

Crash ==
    /\ up
    /\ up' = FALSE
    /\ UNCHANGED <<st, n, reply>>

Next ==
    \/ \E t \in Threads : Issue(t) \/ Return(t) \/ \E r \in Replies : Answer(t, r)
    \/ Crash

Spec == Init /\ [][Next]_vars

=============================================================================
