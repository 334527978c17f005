--------------------------------- MODULE Acl ---------------------------------
(***************************************************************************)
(* Path authorization of remotefs/src/Acl.cpp, and how RemoteFsServer      *)
(* uses it: every path request is checked with                             *)
(* acl.authorize_path(client_name, arg.path) and then performed on         *)
(* root.concat(arg.path), which the filesystem resolves component by       *)
(* component.                                                              *)
(*                                                                         *)
(* ACL file lines are taken already split on ' ' (a sequence of tokens:    *)
(* prefix, then user names).  Request paths are strings over a small       *)
(* alphabet, since std::string::starts_with compares characters.           *)
(***************************************************************************)
EXTENDS Naturals, Sequences, SequencesExt, FiniteSets

CONSTANTS
    Users,      \* user names
    RulePrefixes,   \* rule prefixes the ACL lines may carry (strings)
    MaxLines,   \* lines of the ACL file
    Chars,      \* characters of request paths, "/" and "." among them
    MaxPath     \* longest request path

ASSUME /\ {"/", "."} \subseteq Chars
       /\ MaxLines \in Nat /\ MaxPath \in Nat \ {0}

Slash == "/"
Dot   == "."

\* The token lists an ACL line can split into: empty, or a prefix followed
\* by any number of distinct user names.
Lines == {<<>>} \cup
         UNION {{<<p>> \o us : us \in {s \in SeqOf(Users, Cardinality(Users)) : IsInjective(s)}} :
                p \in RulePrefixes}

-----------------------------------------------------------------------------
(* ACL::load and ACL::authorize_path.                                      *)

RECURSIVE LoadLines(_, _)

\* The acl_lines loop of ACL::load: an empty line is skipped;
\* _filter.emplace(tokens[0], {tokens[1..]}) keeps an existing entry.
LoadLines(lines, filter) ==
    IF lines = <<>> THEN filter
    ELSE LET toks == Head(lines)
             next == IF toks = <<>> \/ toks[1] \in DOMAIN filter THEN filter
                     ELSE [k \in DOMAIN filter \cup {toks[1]} |->
                             IF k = toks[1] THEN ToSet(Tail(toks)) ELSE filter[k]]
         IN LoadLines(Tail(lines), next)

Load(lines) == LoadLines(lines, [k \in {} |-> {}])

\* `filter.first.length() >= best_match.first.length()`.
BetterShorter(k, best) == Len(k) <= Len(best)
Better(k, best) == Len(k) >= Len(best)

\* ACL::authorize_path: the longest rule whose prefix starts the path
\* (std::map order; two distinct prefixes of one path never tie); no rule,
\* or a rule with no users, lets everyone in.
AuthorizePath(filter, username, path) ==
    LET RECURSIVE Scan(_, _)
        Scan(keys, best) ==
            IF keys = {} THEN best
            ELSE LET k == CHOOSE x \in keys : TRUE
                 IN Scan(keys \ {k},
                         IF IsPrefix(k, path) /\ Better(k, best.prefix)
                         THEN [prefix |-> k, users |-> filter[k]] ELSE best)
        match == Scan(DOMAIN filter, [prefix |-> <<>>, users |-> {}])
    IN match.users = {} \/ username \in match.users

-----------------------------------------------------------------------------
(* What root.concat(path) names once the filesystem has resolved it.       *)

RECURSIVE SplitPath(_, _, _)

\* The path's components ('/'-separated, empty ones dropped).
SplitPath(s, cur, acc) ==
    IF s = <<>> THEN IF cur = <<>> THEN acc ELSE Append(acc, cur)
    ELSE IF Head(s) = Slash
         THEN SplitPath(Tail(s), <<>>, IF cur = <<>> THEN acc ELSE Append(acc, cur))
         ELSE SplitPath(Tail(s), Append(cur, Head(s)), acc)

RECURSIVE Walk(_, _)

\* Path resolution below the served root: "." stays, ".." goes up; going
\* up from the root itself leaves the served tree ("out").
Walk(comps, at) ==
    IF comps = <<>> \/ at = "out" THEN at
    ELSE LET c == Head(comps) IN
         Walk(Tail(comps),
              CASE c = <<Dot>>      -> at
                [] c = <<Dot, Dot>> -> IF at = <<>> THEN "out" ELSE SubSeq(at, 1, Len(at) - 1)
                [] OTHER            -> Append(at, c))

Resolved(path) == Walk(SplitPath(path, <<>>, <<>>), <<>>)

\* The canonical string of a resolved component list.
Joined(comps) ==
    IF comps = <<>> THEN <<Slash>>
    ELSE FoldLeft(LAMBDA acc, c : acc \o <<Slash>> \o c, <<>>, comps)

-----------------------------------------------------------------------------
(* One request per state: an ACL file, a logged-in user and a path.        *)

VARIABLES lines, user, path

vars == <<lines, user, path>>

Paths == {<<Slash>> \o s : s \in SeqOf(Chars, MaxPath - 1)}

Init ==
    /\ lines \in SeqOf(Lines, MaxLines)
    /\ user \in Users
    /\ path \in Paths

Next == UNCHANGED vars

Spec == Init /\ [][Next]_vars

Filter == Load(lines)

\* The rule that governs a path by definition: the longest loaded prefix
\* of it; a path no rule covers, or a rule naming nobody, is public.
RuleAllows(f, u, p) ==
    LET covering == {k \in DOMAIN f : IsPrefix(k, p)}
        longest  == CHOOSE k \in covering : \A j \in covering : Len(j) <= Len(k)
    IN covering = {} \/ f[longest] = {} \/ u \in f[longest]

-----------------------------------------------------------------------------
(* Properties.                                                             *)

\* authorize_path's single pass with a running best match decides every
\* request exactly as its governing rule (the longest matching prefix)
\* does, as AclTest's SimplePaths and MultipleUsers cases expect.
LongestRuleDecides ==
    AuthorizePath(Filter, user, path) = RuleAllows(Filter, user, path)

=============================================================================
