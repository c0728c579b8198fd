--------------------------- MODULE UserDirectory ---------------------------
(***************************************************************************)
(* What the management protocol promises: one directory of users, whose    *)
(* commands take effect one at a time, each at one moment, and whose       *)
(* answers tell what they did at that moment.                              *)
(***************************************************************************)
EXTENDS Naturals, FiniteSets

CONSTANTS
    Admins,              \* who gives commands
    Names, Passwords,    \* fields a user may have
    Capacity,            \* users the directory holds
    Shown,               \* names an answer has room for
    RoomForPart,         \* and for a part of one more
    Fragment,            \* Fragment[u]: what that part shows of the name u
    NoWord               \* what is no name and no part of one

VARIABLES
    dir,                 \* the pairs of name and password that are accepted
    answer               \* answer[a]: the answer a is being given

Users == {x[1] : x \in dir}
Plain(kind) ==
    [kind |-> kind, result |-> "none", count |-> 0, names |-> {}, cut |-> NoWord]

Init ==
    /\ dir = {}
    /\ answer = [a \in Admins |-> Plain("none")]

\* The command of a is answered; no command is given before the answer to the
\* last one is complete.
Answered(a, value) ==
    /\ answer[a] = Plain("none")
    /\ answer' = [answer EXCEPT ![a] = value]

Changed(kind, result, d) ==
    [Plain(kind) EXCEPT !.result = result, !.count = Cardinality(d)]

\* A user given at start, if it can be added.
Configure(u, p) ==
    /\ UNCHANGED answer
    /\ u \notin Users /\ Cardinality(dir) < Capacity
    /\ dir' = dir \cup {<<u, p>>}

Add(a, u, p) ==
    LET result == IF u \in Users THEN "exists"
                  ELSE IF Cardinality(dir) = Capacity THEN "full" ELSE "ok"
    IN  /\ dir' = IF result = "ok" THEN dir \cup {<<u, p>>} ELSE dir
        /\ Answered(a, Changed("adduser", result, dir'))

Remove(a, u) ==
    LET result == IF u \in Users THEN "ok" ELSE "not_found"
    IN  /\ dir' = {x \in dir : x[1] # u}
        /\ Answered(a, Changed("deluser", result, dir'))

\* A name or password that no user can have.
Reject(a, kind) ==
    /\ Answered(a, Changed(kind, "invalid", dir))
    /\ UNCHANGED dir

\* What may be left of the next name after these.
Parts(names) ==
    IF Cardinality(dir) > Shown /\ RoomForPart
    THEN {Fragment[u] : u \in Users \ names} ELSE {NoWord}

\* As many names as there is room for, a part of one more, and the number of users.
List(a) ==
    /\ \E names \in SUBSET Users :
         /\ Cardinality(names) = IF Cardinality(dir) <= Shown THEN Cardinality(dir) ELSE Shown
         /\ \E cut \in Parts(names) :
              Answered(a, [Plain("users") EXCEPT
                              !.count = Cardinality(dir), !.names = names, !.cut = cut])
    /\ UNCHANGED dir

\* A command that has nothing to do with the directory.
Other(a, kind) ==
    /\ Answered(a, Plain(kind))
    /\ UNCHANGED dir

\* Some have been given their answers.
Leave(gone) ==
    /\ answer' = [a \in Admins |-> IF a \in gone THEN Plain("none") ELSE answer[a]]
    /\ UNCHANGED dir

Command(a) ==
    \/ \E u \in Names, p \in Passwords : Add(a, u, p)
    \/ \E u \in Names : Remove(a, u)
    \/ \E kind \in {"adduser", "deluser"} : Reject(a, kind)
    \/ List(a)
    \/ \E kind \in {"stats", "usage", "bye", "help", "unknown", "empty"} : Other(a, kind)

Next ==
    /\ <<dir, answer>>' # <<dir, answer>>
    /\ \/ \E a \in Admins : Command(a)
       \/ \E gone \in SUBSET Admins : Leave(gone)
       \/ \E u \in Names, p \in Passwords : Configure(u, p)

Spec == Init /\ [][Next]_<<dir, answer>>
=============================================================================
