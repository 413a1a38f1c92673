---------------------------- MODULE MCInotifyBackend ----------------------------
(***************************************************************************)
(* InotifyBackend for TLC: small trees.                                    *)
(***************************************************************************)
EXTENDS InotifyBackend

\* /r with two names x and y to create and rename, a subdirectory z under each; and /q, a
\* disk that is mounted only at times.
R == <<"r">>
X == <<"r", "x">>
Y == <<"r", "y">>
XZ == <<"r", "x", "z">>
YZ == <<"r", "y", "z">>
Q == <<"q">>
QX == <<"q", "x">>
Tree == {R, X, Y, XZ, YZ, Q, QX}
OnlyR == {R}

Siblings == {<<X, Y>>, <<Y, X>>}

\* One root; directories come and go and change their names.
Library == [ignored |-> {}, mutable |-> {X, Y, XZ, YZ}, renames |-> Siblings,
            rootSets |-> {{R}}, racy |-> {}, queue |-> 15, watches |-> 10,
            maxOps |-> 7, maxCalls |-> 1]

\* Roots inside one another, one whose name is ignored and one that may not be there.
Disks == [ignored |-> {"z"}, mutable |-> {X, XZ, Q, QX}, renames |-> {},
          rootSets |-> {{R, X, Q}, {R, XZ, Q}}, racy |-> {}, queue |-> 15, watches |-> 10,
          maxOps |-> 6, maxCalls |-> 1]

\* Walks race, the queue overflows, watches run out, roots are parked, and a directory moves
\* into one that was created just before.
Hostile == [ignored |-> {"z"}, mutable |-> {X, Y, XZ, YZ}, renames |-> Siblings \cup {<<X, YZ>>},
            rootSets |-> {{}, {R}, {R, X}}, racy |-> {"events", "set_roots"},
            queue |-> 1, watches |-> 2, maxOps |-> 4, maxCalls |-> 3]

HostsOfAllKinds == {Library, Disks, Hostile}
=============================================================================
