------------------------------- MODULE MCFsOps -------------------------------
(* Two workers serving requests on the paths "/a", "/a/b" (and renaming   *)
(* "/a" to "/b"), over every tree of two names and two levels; and one    *)
(* worker serving the reads of FuseRead.                                   *)
EXTENDS FuseRead, TLC

CONSTANTS w1, w2

MCNames   == {"a", "b"}
MCWorkers == {w1, w2}
MCMaxSize == 1

A  == <<"a">>
AB == <<"a", "b">>

Req(kind, p, off, len, n, to) ==
    [kind |-> kind, path |-> p, off |-> off, len |-> len, n |-> n, to |-> to]

MCReqs ==
    {Req(k, p, 0, 0, 0, <<>>) :
        k \in {"Getattr", "Open", "Create", "Chmod", "Mkdir", "Rmdir", "Unlink"},
        p \in {A, AB}}
    \cup {Req(k, A, off, 1, 0, <<>>) : k \in {"Read", "Write"}, off \in 0..1}
    \cup {Req("Truncate", A, 0, 0, n, <<>>) : n \in 0..1}
    \cup {Req("Rename", A, 0, 0, 0, <<"b">>)}

\* One worker reading "/a" at offsets 0 to 2, 1 or 2 bytes: reads inside,
\* across and past the end of files of 0 to 2 bytes.
MCReadWorkers == {w1}
MCReadReqs == {Req("Read", A, off, len, 0, <<>>) : off \in 0..2, len \in 1..2}
MCReadMaxSize == 2

Symm == Permutations(MCWorkers)

=============================================================================
