-------------------------------- MODULE FsOps --------------------------------
(***************************************************************************)
(* The filesystem effects of RemoteFsServer::handle_message               *)
(* (remotefs/src/FsServer.cpp) when several msg_proc workers run handlers *)
(* at once.  Server::process_req spawns one detached thread per request,   *)
(* so the handlers of one client's pipelined FUSE calls, and those of      *)
(* several clients, run concurrently against the one exported tree.       *)
(*                                                                         *)
(* Each handler is a sequence of calls into the kernel, each atomic on its *)
(* own (exists, is_directory, is_regular_file, stat, open+read, open+write,*)
(* ofstream, mkdir, remove, truncate, rename); a handler's step operator   *)
(* maps (request, position, tree) to the set of its possible outcomes.    *)
(* A tree maps each path to a node: its type and, for a file, its size.   *)
(* File contents, modes, times and ACL checks are left out (FsAccess has   *)
(* the ACL); ReaddirReq, UTimensReq and StatfsReq are one syscall each    *)
(* and change nothing modelled.                                            *)
(***************************************************************************)
EXTENDS Integers, SequencesExt

CONSTANTS
    Names,     \* path components; paths are sequences of one or two of them
    Workers,   \* concurrent msg_proc threads, each serving one request
    Reqs,      \* requests a worker may serve
    MaxSize    \* largest file size in the initial tree

Paths == {<<n>> : n \in Names} \cup (Names \X Names)

NodeTypes == {"none", "file", "dir"}
Node(t, n) == [t |-> t, n |-> n]
Absent == Node("none", 0)

Parent(p) == SubSeq(p, 1, Len(p) - 1)

\* The trees a server may export: every path's parent is a directory.
Trees ==
    {fs \in [Paths -> {Absent, Node("dir", 0)} \cup {Node("file", k) : k \in 0..MaxSize}] :
        \A p \in Paths : Len(p) = 2 /\ fs[p].t # "none" => fs[Parent(p)].t = "dir"}

Exists(fs, p)   == fs[p].t # "none"
IsDir(fs, p)    == fs[p].t = "dir"
IsReg(fs, p)    == fs[p].t = "file"
ParentIsDir(fs, p) == Len(p) = 1 \/ IsDir(fs, Parent(p))
Children(fs, p) == {c \in Paths : Len(c) = Len(p) + 1 /\ Parent(c) = p /\ Exists(fs, c)}

(* Replies: kind, a file type (GetattrReply only) and a value.            *)
Reply(k, t, v) == [k |-> k, t |-> t, v |-> v]
Ret(k, v)      == Reply(k, "-", v)
ErrorReply     == Ret("Error", 0)  \* the catch block of handle_message
Nil            == Ret("-", 0)

\* stat() of a directory reports a block size, a value no file here has;
\* a stat() that fails leaves buf uninitialised: its st_size is whatever
\* the stack held, a non-negative value or one checked_cast rejects.
DirStSize  == MaxSize + 2
UninitSize == MaxSize + 3

Out(pc, fs, r) == [pc |-> pc, fs |-> fs, reply |-> r]
Done(fs, r) == Out("done", fs, r)

\* std::filesystem::remove: false if nothing is there, ENOTEMPTY thrown for
\* a directory with entries, otherwise the entry goes.
RemoveOut(fs, p, k) ==
    IF IsDir(fs, p) /\ Children(fs, p) # {} THEN Done(fs, ErrorReply)
    ELSE Done([fs EXCEPT ![p] = Absent], Ret(k, 0))

\* rename(2) of a regular file: ENOENT if the source is gone, EINVAL if the
\* target lies under the source, ENOTDIR/ENOENT if the target's parent is
\* not a directory, EISDIR onto a directory; else the file replaces target.
RenameOut(fs, from, to) ==
    IF \/ ~Exists(fs, from)
       \/ IsPrefix(from, to) /\ from # to
       \/ ~ParentIsDir(fs, to)
       \/ IsDir(fs, to)
    THEN Done(fs, ErrorReply)
    ELSE Done([fs EXCEPT ![to] = fs[from], ![from] = IF from = to THEN fs[from] ELSE Absent],
              Ret("Rename", 0))

\* RenameReq: newPath = root.concat(arg.newPath) after path = root.concat(
\* arg.path) has already appended arg.path to root, so the target is the
\* new name appended to the source path.
RenameTarget(r) == r.path \o r.to
-----------------------------------------------------------------------------
(* One operator per handler: the outcomes of its step at position pc.    *)

GetattrStep(r, pc, fs) ==
    LET p == r.path
        attr(t, n) == Done(fs, Reply("Getattr", t, n))
        statted == IF pc = "statdir" THEN "dir" ELSE "file"
    IN CASE pc = "exists" -> {IF Exists(fs, p) THEN Out("isdir", fs, Nil) ELSE attr("none", 0)}
         [] pc = "isdir"  -> {IF IsDir(fs, p) THEN Out("statdir", fs, Nil) ELSE Out("isreg", fs, Nil)}
         [] pc = "isreg"  -> {IF IsReg(fs, p) THEN Out("statreg", fs, Nil) ELSE attr("none", 0)}
         [] OTHER ->
              CASE IsDir(fs, p) -> {attr(statted, DirStSize)}
                [] IsReg(fs, p) -> {attr(statted, fs[p].n)}
                [] OTHER        -> {attr(statted, UninitSize), Done(fs, ErrorReply)}

OpenStep(r, pc, fs) == {Done(fs, Ret("Open", IF Exists(fs, r.path) THEN 1 ELSE 0))}

\* ifs.read past the end sets failbit, tellg() is then -1 and the resize
\* to checked_cast<size_t>(-1 - off) throws; a read of 0 bytes sets no
\* failbit, so tellg() is the offset sought.  A reply's value is the
\* length of its data.
ReadStep(r, pc, fs) ==
    LET p == r.path IN
    CASE pc = "isreg" -> {IF IsReg(fs, p) THEN Out("read", fs, Nil) ELSE Done(fs, Ret("Read", 0))}
      [] pc = "read"  -> {IF IsReg(fs, p) /\ (r.off + r.len <= fs[p].n \/ r.len = 0)
                          THEN Done(fs, Ret("Read", r.len)) ELSE Done(fs, ErrorReply)}

\* std::fstream(in|out) does not create; when it fails to open, write does
\* nothing and the reply is tellg() - off = -1 - off.
WriteStep(r, pc, fs) ==
    LET p == r.path IN
    CASE pc = "isreg" -> {IF IsReg(fs, p) THEN Out("write", fs, Nil) ELSE Done(fs, Ret("Write", -1))}
      [] pc = "write" ->
           {IF IsReg(fs, p)
            THEN Done([fs EXCEPT ![p].n = IF r.off + r.len > @ THEN r.off + r.len ELSE @],
                      Ret("Write", r.len))
            ELSE Done(fs, Ret("Write", -1 - r.off))}

\* exists, then std::ofstream output(path) (creates or truncates; fails
\* silently on a directory or a missing parent) and an unchecked chmod.
CreateStep(r, pc, fs) ==
    LET p == r.path IN
    CASE pc = "exists" -> {IF Exists(fs, p) THEN Done(fs, Ret("Create", -1)) ELSE Out("create", fs, Nil)}
      [] pc = "create" ->
           {Done(IF ParentIsDir(fs, p) /\ ~IsDir(fs, p) THEN [fs EXCEPT ![p] = Node("file", 0)] ELSE fs,
                 Ret("Create", 0))}

ChmodStep(r, pc, fs) ==
    LET p == r.path IN
    CASE pc = "exists" -> {IF Exists(fs, p) THEN Done(fs, Ret("Chmod", -1)) ELSE Out("chmod", fs, Nil)}
      [] pc = "chmod"  -> {Done(fs, Ret("Chmod", IF Exists(fs, p) THEN 0 ELSE -1))}

\* create_directory: false (reply 0) if a directory is already there,
\* thrown if a file is there or the parent is not a directory.
MkdirStep(r, pc, fs) ==
    LET p == r.path IN
    CASE pc = "exists" -> {IF Exists(fs, p) THEN Done(fs, Ret("Mkdir", -1)) ELSE Out("mkdir", fs, Nil)}
      [] pc = "mkdir"  ->
           {CASE ~ParentIsDir(fs, p) \/ IsReg(fs, p) -> Done(fs, ErrorReply)
              [] OTHER -> Done([fs EXCEPT ![p] = Node("dir", 0)], Ret("Mkdir", 0))}

RmdirStep(r, pc, fs) ==
    CASE pc = "isdir"  -> {IF IsDir(fs, r.path) THEN Out("remove", fs, Nil) ELSE Done(fs, Ret("Rmdir", -1))}
      [] pc = "remove" -> {RemoveOut(fs, r.path, "Rmdir")}

UnlinkStep(r, pc, fs) ==
    CASE pc = "isreg"  -> {IF IsReg(fs, r.path) THEN Out("remove", fs, Nil) ELSE Done(fs, Ret("Unlink", -1))}
      [] pc = "remove" -> {RemoveOut(fs, r.path, "Unlink")}

\* resize_file throws unless a regular file is there.
TruncateStep(r, pc, fs) ==
    LET p == r.path IN
    CASE pc = "isreg"  -> {IF IsReg(fs, p) THEN Out("resize", fs, Nil) ELSE Done(fs, Ret("Truncate", -1))}
      [] pc = "resize" -> {IF IsReg(fs, p) THEN Done([fs EXCEPT ![p].n = r.n], Ret("Truncate", 0))
                                           ELSE Done(fs, ErrorReply)}

RenameStep(r, pc, fs) ==
    CASE pc = "isreg"  -> {IF IsReg(fs, r.path) THEN Out("rename", fs, Nil) ELSE Done(fs, Ret("Rename", -1))}
      [] pc = "rename" -> {RenameOut(fs, r.path, RenameTarget(r))}


\* handle_message's dispatch on the request kind (std::visit).
Step(r, pc, fs) ==
    CASE r.kind = "Getattr"  -> GetattrStep(r, pc, fs)
      [] r.kind = "Open"     -> OpenStep(r, pc, fs)
      [] r.kind = "Read"     -> ReadStep(r, pc, fs)
      [] r.kind = "Write"    -> WriteStep(r, pc, fs)
      [] r.kind = "Create"   -> CreateStep(r, pc, fs)
      [] r.kind = "Chmod"    -> ChmodStep(r, pc, fs)
      [] r.kind = "Mkdir"    -> MkdirStep(r, pc, fs)
      [] r.kind = "Rmdir"    -> RmdirStep(r, pc, fs)
      [] r.kind = "Unlink"   -> UnlinkStep(r, pc, fs)
      [] r.kind = "Truncate" -> TruncateStep(r, pc, fs)
      [] r.kind = "Rename"   -> RenameStep(r, pc, fs)

\* The first call each handler makes.
FirstPc(r) ==
    CASE r.kind \in {"Getattr", "Create", "Chmod", "Mkdir"} -> "exists"
      [] r.kind = "Rmdir"                                    -> "isdir"
      [] r.kind = "Open"                                     -> "open"
      [] OTHER                                               -> "isreg"
-----------------------------------------------------------------------------
VARIABLES
    fs,    \* the exported tree
    wk,    \* per worker: its request, its position, its reply
    fs0    \* the tree before any worker ran (history, for the property)

vars == <<fs, wk, fs0>>

Init ==
    /\ fs \in Trees
    /\ fs0 = fs
    /\ wk \in [Workers -> {[req |-> r, pc |-> FirstPc(r), reply |-> Nil] : r \in Reqs}]

\* Worker w makes the next call of a handler of the given kind, taking one
\* of the outcomes the handler's step operator allows.
Serve(w, kind, outcomes) ==
    /\ wk[w].req.kind = kind
    /\ wk[w].pc # "done"
    /\ \E o \in outcomes :
          /\ fs' = o.fs
          /\ wk' = [wk EXCEPT ![w].pc = o.pc, ![w].reply = o.reply]
    /\ UNCHANGED fs0

GetattrReq(w)  == Serve(w, "Getattr", GetattrStep(wk[w].req, wk[w].pc, fs))
OpenReq(w)     == Serve(w, "Open", OpenStep(wk[w].req, wk[w].pc, fs))
ReadReq(w)     == Serve(w, "Read", ReadStep(wk[w].req, wk[w].pc, fs))
WriteReq(w)    == Serve(w, "Write", WriteStep(wk[w].req, wk[w].pc, fs))
CreateReq(w)   == Serve(w, "Create", CreateStep(wk[w].req, wk[w].pc, fs))
ChmodReq(w)    == Serve(w, "Chmod", ChmodStep(wk[w].req, wk[w].pc, fs))
MkdirReq(w)    == Serve(w, "Mkdir", MkdirStep(wk[w].req, wk[w].pc, fs))
RmdirReq(w)    == Serve(w, "Rmdir", RmdirStep(wk[w].req, wk[w].pc, fs))
UnlinkReq(w)   == Serve(w, "Unlink", UnlinkStep(wk[w].req, wk[w].pc, fs))
TruncateReq(w) == Serve(w, "Truncate", TruncateStep(wk[w].req, wk[w].pc, fs))
RenameReq(w)   == Serve(w, "Rename", RenameStep(wk[w].req, wk[w].pc, fs))

AllDone == \A w \in Workers : wk[w].pc = "done"

Next ==
    \/ \E w \in Workers :
          \/ GetattrReq(w) \/ OpenReq(w) \/ ReadReq(w) \/ WriteReq(w)
          \/ CreateReq(w) \/ ChmodReq(w) \/ MkdirReq(w) \/ RmdirReq(w)
          \/ UnlinkReq(w) \/ TruncateReq(w) \/ RenameReq(w)
    \/ AllDone /\ UNCHANGED vars

Spec == Init /\ [][Next]_vars
-----------------------------------------------------------------------------
(* The same handlers run one after another, each to its end.              *)

RECURSIVE Finish(_, _)
Finish(r, o) ==
    IF o.pc = "done" THEN {o}
    ELSE UNION {Finish(r, o2) : o2 \in Step(r, o.pc, o.fs)}

RECURSIVE SerialRuns(_, _)
SerialRuns(order, h) ==
    IF order = <<>> THEN {h}
    ELSE LET w == Head(order)
             r == wk[w].req
         IN UNION {SerialRuns(Tail(order),
                              [fs |-> o.fs, replies |-> [h.replies EXCEPT ![w] = o.reply]])
                   : o \in Finish(r, Out(FirstPc(r), h.fs, Nil))}

TypeOK ==
    /\ fs \in [Paths -> [t : NodeTypes, n : Nat]]
    /\ fs0 \in Trees
    /\ \A w \in Workers : wk[w].req \in Reqs

\* Once every worker has replied, the tree and the replies are those of
\* some order in which the same handlers run one at a time: concurrent
\* requests are never answered in a way no one-at-a-time server would.
\* Each handler checks (exists, is_regular_file, is_directory) and acts in
\* separate calls, so another worker's step can fall in between.
FsSerializable ==
    AllDone =>
       \E order \in SetToSeqs(Workers) :
          [fs |-> fs, replies |-> [w \in Workers |-> wk[w].reply]]
             \in SerialRuns(order, [fs |-> fs0, replies |-> [w \in Workers |-> Nil]])

====
