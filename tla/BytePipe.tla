------------------------------ MODULE BytePipe ------------------------------
(***************************************************************************)
(* What a relaying session promises the two peers it joins: two byte pipes *)
(* that hand on, in order, only bytes that were sent, and that are torn    *)
(* down together, only once some peer has finished and every byte it sent  *)
(* is through, or once the connection of a peer has failed.  Module Relay  *)
(* shows that the handlers of client_session.c and target_connection.c     *)
(* implement this.                                                         *)
(***************************************************************************)
EXTENDS Naturals

VARIABLES
    up,                  \* the session exists
    sent,                \* sent[d]: bytes sent into pipe d
    given,               \* given[d]: bytes that came out of pipe d
    shut,                \* shut[d]: nothing more will be sent into pipe d
    failed               \* failed[e]: the connection with peer e is broken

vars == <<up, sent, given, shut, failed>>

Pipes == {"c2t", "t2c"}
Peers == {"client", "target"}

Init ==
    /\ up = TRUE
    /\ sent = [d \in Pipes |-> 0]
    /\ given = [d \in Pipes |-> 0]
    /\ shut = [d \in Pipes |-> FALSE]
    /\ failed = [e \in Peers |-> FALSE]

Send(d) ==
    /\ up /\ ~shut[d]
    /\ sent'[d] > sent[d]
    /\ sent' = [sent EXCEPT ![d] = sent'[d]]
    /\ UNCHANGED <<up, given, shut, failed>>

Shut(d) ==
    /\ up
    /\ shut' = [shut EXCEPT ![d] = TRUE]
    /\ UNCHANGED <<up, sent, given, failed>>

Fail(e) ==
    /\ up
    /\ failed' = [failed EXCEPT ![e] = TRUE]
    /\ UNCHANGED <<up, sent, given, shut>>

\* Bytes come out of pipe d; with a failed peer the session may end meanwhile.
Deliver(d) ==
    /\ up
    /\ \E g \in given[d] .. sent[d] : given' = [given EXCEPT ![d] = g]
    /\ up' \/ \E e \in Peers : failed[e]
    /\ up' \in BOOLEAN
    /\ UNCHANGED <<sent, shut, failed>>

\* A peer has finished and the other one has all of it: both pipes go.
TearDown ==
    /\ up
    /\ \E d \in Pipes : shut[d] /\ given[d] = sent[d]
    /\ up' = FALSE
    /\ UNCHANGED <<sent, given, shut, failed>>

Next ==
    \/ \E d \in Pipes : Send(d) \/ Shut(d) \/ Deliver(d)
    \/ \E e \in Peers : Fail(e)
    \/ TearDown

Spec == Init /\ [][Next]_vars
=============================================================================
