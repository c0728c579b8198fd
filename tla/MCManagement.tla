---------------------------- MODULE MCManagement ----------------------------
(***************************************************************************)
(* Commands for Management: with and without effect on the users, without  *)
(* a word, the longest that fits the buffer with its end of line, one that *)
(* leaves no room for it and one longer; and other programs, which send    *)
(* two lines at once, the first one empty, or a line longer than the       *)
(* server's buffer.  Of a list of two users the second line is cut.        *)
(***************************************************************************)
EXTENDS Management, TLC

MCArgLists ==
    {<<>>, <<"ADDUSER", "bob", "q">>, <<"DELUSER", "ann">>, <<"USERS">>,
     <<"ADDUSER", "bob", "p", "q">>, <<"DELUSER", "ann", "bob", "p", "q">>}

MCStreams == {<<"EOL", "USERS">>, <<"DELUSER", "bob", "long", "p", "EOL">>}

\* For liveness, where symmetry cannot be used: a command without a word, one of
\* more lines in its answer, and one that never ends its line.
MCLiveArgLists == {<<>>, <<"USERS">>}

MCLiveStreams == {<<"USERS">>}

MCInitialUsers == <<<<"ann", "p">>, <<"ann", "q">>, <<"bob", "p">>>>

MCFragment == [w \in Words |-> IF w = "bob" THEN "b" ELSE w]

\* Connections are interchangeable.
MCSymmetry == Permutations(Admins)
=============================================================================
