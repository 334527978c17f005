------------------------------- MODULE FuseRead -------------------------------
(***************************************************************************)
(* The FUSE read path end to end: rfsRead of remotefs/src/FsClient.cpp     *)
(* sends a ReadReq through call<ReadReply> and turns the reply into the   *)
(* value FUSE hands to read(2); the server side is FsOps's ReadStep.      *)
(***************************************************************************)
EXTENDS FsOps

EIO == -5   \* -EIO

\* call<ReadReply> throws on an ErrorReply (or any other alternative) and
\* rfsRead's catch returns -EIO; otherwise it copies and returns
\* reallyRead = min(ret.data.size(), size).
RfsRead(reply, size) ==
    IF reply.k = "Read" THEN IF reply.v < size THEN reply.v ELSE size
    ELSE EIO

\* The count read(2) promises for a regular file of n bytes: the bytes
\* between the offset and the end of file, at most the count asked for.
ReadCount(n, off, len) ==
    IF off >= n THEN 0 ELSE IF off + len <= n THEN len ELSE n - off

\* A FUSE read returns exactly the count read(2) promises: rfsRead itself
\* is written for a reply shorter than the request (the min at
\* FsClient.cpp:112), since FUSE asks for whole pages and a file's last
\* page is short.  Checked for a read no other request races with.
FuseReadShort ==
    \A w \in Workers :
        LET r == wk[w].req IN
        /\ wk[w].pc = "done" /\ r.kind = "Read"
        /\ IsReg(fs0, r.path) /\ fs = fs0
        => RfsRead(wk[w].reply, r.len) = ReadCount(fs0[r.path].n, r.off, r.len)

=============================================================================
