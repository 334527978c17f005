------------------------------- MODULE FsAccess -------------------------------
(***************************************************************************)
(* The access decision of every request branch of RemoteFsServer's         *)
(* visitor (remotefs/src/FsServer.cpp): which path arguments the branch    *)
(* passes to acl.authorize_path, and which paths it then hands to the      *)
(* filesystem as root.concat(path).  A request is its kind and its paths   *)
(* (<<path>>, or <<path, newPath>> for RenameReq); the logged-in user is   *)
(* Acl's `user`, the ACL file Acl's `lines`.                               *)
(***************************************************************************)
EXTENDS Acl

\* The request kinds of AnyMsgT that name paths.
PathKinds == {"Getattr", "Readdir", "Open", "Read", "Write", "Create", "Chmod",
              "Mkdir", "Rmdir", "Unlink", "Truncate", "Rename", "UTimens", "Statfs"}

\* Argument positions each branch checks with authorize_path before it
\* touches anything; the others are served unchecked.
CheckedArgs(k) ==
    CASE k \in {"Getattr", "Readdir", "Statfs"} -> {}
      [] k = "Rename"                            -> {1, 2}
      [] OTHER                                   -> {1}

\* The visitor branch for request kind k with path arguments ps: when every
\* checked argument is authorized, the paths it opens, stats, lists or
\* modifies; otherwise ErrorReply("Unauthorized path") and nothing.  RenameReq
\* stats only its source: it builds the target as root+path+newPath (the
\* second concat starts from the already joined path, see FsOps' rename),
\* and renames only when the source is a regular file, so the target lies
\* under a file and rename(2) fails with ENOTDIR without reaching it.
Touched(k, ps) ==
    IF \A i \in CheckedArgs(k) : AuthorizePath(Filter, user, ps[i])
    THEN {ps[1]}
    ELSE {}

VARIABLES kind, args

AccessInit ==
    /\ Init
    /\ kind \in PathKinds
    /\ args \in IF kind = "Rename" THEN {<<path, q>> : q \in Paths} ELSE {<<path>>}

AccessSpec == AccessInit /\ [][UNCHANGED <<vars, kind, args>>]_<<vars, kind, args>>

\* Spec 4.5 (per-path access checks): a request only reaches files that
\* stay under the served root and that the ACL lets its user reach, for
\* every request kind the server handles.
AccessConfined ==
    \A p \in Touched(kind, args) :
        /\ Resolved(p) # "out"
        /\ RuleAllows(Filter, user, Joined(Resolved(p)))

=============================================================================
