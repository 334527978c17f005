-------------------------------- MODULE Login --------------------------------
(***************************************************************************)
(* Credential checking of remotefs/src/Acl.cpp: the users-file half of     *)
(* ACL::load and ACL::authorize, which RemoteFsServer::handle_auth calls   *)
(* for a LoginReq.                                                         *)
(*                                                                         *)
(* A users-file line is taken already split on ' ' (a sequence of tokens). *)
(* A hash token is abstracted to what authorize and load can tell apart:   *)
(* the lower-case hex of SHA-256 of some password (what chars_to_hex       *)
(* produces), the same digest in upper case (64 characters, another        *)
(* string), or a token of another length.  SHA-256 is taken to have no     *)
(* collisions over the passwords of a model.  User names are Acl's Users. *)
(***************************************************************************)
EXTENDS Acl

CONSTANTS
    Passwords,     \* passwords a client may send
    MaxUserLines   \* lines of the users file

ASSUME MaxUserLines \in Nat

HashTokens == [form : {"hex", "upper", "short"}, of : Passwords]

\* chars_to_hex(SHA::calculate(password)).
HexOf(pw) == [form |-> "hex", of |-> pw]

\* A users-file line split on ' ': a blank line, a lone name, or a name and
\* a hash (lines with more tokens fail the same size test as a lone name).
UserLines == {<<>>} \cup {<<u>> : u \in Users} \cup (Users \X HashTokens)

NoUsers == [u \in {} |-> HexOf(CHOOSE p \in Passwords : TRUE)]

RECURSIVE LoadUsersLinesLastWins(_, _)

LoadUsersLinesLastWins(ls, users) ==
    IF ls = <<>> THEN [ok |-> TRUE, users |-> users]
    ELSE LET toks == Head(ls) IN
         IF Len(toks) # 2 \/ toks[2].form = "short"
         THEN [ok |-> FALSE, users |-> users]
         ELSE LoadUsersLinesLastWins(Tail(ls),
                 [k \in DOMAIN users \cup {toks[1]} |->
                    IF k = toks[1] THEN toks[2] ELSE users[k]])

RECURSIVE LoadUsersLines(_, _)

\* The users_lines loop of ACL::load: a line that does not split into two
\* tokens, or whose hash is not 64 characters, throws (and FsServer::run
\* does not start the server); _users.emplace keeps the first entry of a
\* name.
LoadUsersLines(ls, users) ==
    IF ls = <<>> THEN [ok |-> TRUE, users |-> users]
    ELSE LET toks == Head(ls) IN
         IF Len(toks) # 2 \/ toks[2].form = "short"
         THEN [ok |-> FALSE, users |-> users]
         ELSE LoadUsersLines(Tail(ls),
                 IF toks[1] \in DOMAIN users THEN users
                 ELSE [k \in DOMAIN users \cup {toks[1]} |->
                         IF k = toks[1] THEN toks[2] ELSE users[k]])

LoadUsers(ls) == LoadUsersLines(ls, NoUsers)

\* ACL::authorize: the name must be in _users with exactly the hex digest
\* of the password.
Authorize(users, username, password) ==
    username \in DOMAIN users /\ users[username] = HexOf(password)

-----------------------------------------------------------------------------
(* One login request per state: a users file and the credentials sent.     *)

VARIABLES usersLines, loginName, loginPassword

loginVars == <<usersLines, loginName, loginPassword>>

LoginInit ==
    /\ usersLines \in SeqOf(UserLines, MaxUserLines)
    /\ loginName \in Users
    /\ loginPassword \in Passwords

Loaded == LoadUsers(usersLines)

\* The users file as its format defines it: every line is a name and a
\* 64-character hash; a name's entry is its first line.
WellFormed(ls) == \A i \in DOMAIN ls : Len(ls[i]) = 2 /\ ls[i][2].form # "short"

EntryOf(ls, u) ==
    LET named == {i \in DOMAIN ls : ls[i][1] = u}
    IN ls[CHOOSE i \in named : \A j \in named : i <= j]

-----------------------------------------------------------------------------
(* Properties.                                                             *)

\* load starts the server exactly on a well-formed users file, and then
\* authorize admits a login exactly when the first line naming the user
\* carries the lower-case hex SHA-256 of the password sent; a later line
\* for the same name never changes it (AclTest's Empty case for one line).
LoginMatchesUsersFile ==
    /\ Loaded.ok = WellFormed(usersLines)
    /\ Loaded.ok =>
         (Authorize(Loaded.users, loginName, loginPassword) <=>
            /\ \E i \in DOMAIN usersLines : usersLines[i][1] = loginName
            /\ EntryOf(usersLines, loginName)[2] = HexOf(loginPassword))

=============================================================================
