------------------------------- MODULE Relay -------------------------------
(***************************************************************************)
(* The data plane of one session: client_read, client_write, target_read   *)
(* and target_write once relay_started is set (client_session.c,           *)
(* target_connection.c).  A direction d has one buffer of BufferSize bytes *)
(* described, as in client_state_t, by a length and an offset:             *)
(*                                                                         *)
(*    d = "c2t"   source: client   sink: target   c2t_len, c2t_off         *)
(*    d = "t2c"   source: target   sink: client   t2c_len, t2c_off         *)
(*                                                                         *)
(* Bytes are counted, not named: a buffer is filled by one recv at offset  *)
(* 0 and emptied upwards from its offset, so the counts say which bytes    *)
(* are in it.                                                              *)
(***************************************************************************)
EXTENDS Naturals

CONSTANTS
    BufferSize,          \* SERVER_BUFFER_SIZE
    MaxSent              \* bound: bytes a peer sends in one direction

ASSUME BufferSizeAssumption == BufferSize \in Nat \ {0}
ASSUME MaxSentAssumption == MaxSent \in Nat

VARIABLES
    alive,               \* the session exists: both descriptors are registered
    len, off,            \* the two buffers
    interest,            \* the selector's interest in each descriptor
    in,                  \* in[d]: bytes received by the proxy from the source of d
    out,                 \* out[d]: bytes sent by the proxy to the sink of d
    sent,                \* sent[d]: bytes the source of d has sent so far
    eof,                 \* eof[d]: the source of d has shut down its sending side
    broken               \* broken[e]: the connection with e has been reset

vars == <<alive, len, off, interest, in, out, sent, eof, broken>>

Directions == {"c2t", "t2c"}
Endpoints == {"client", "target"}

Source(d) == IF d = "c2t" THEN "client" ELSE "target"
Sink(d) == IF d = "c2t" THEN "target" ELSE "client"

\* Mutant: the target is never watched for writing.
RelayInterestsNoWrite(l, o) ==
    [client |-> (IF l["c2t"] = 0 THEN {"R"} ELSE {})
                    \cup (IF l["t2c"] > o["t2c"] THEN {"W"} ELSE {}),
     target |-> IF l["t2c"] = 0 THEN {"R"} ELSE {}]

\* client_session_update_relay_interests: read while the buffer an endpoint
\* feeds is empty, write while the buffer that feeds it holds bytes.
RelayInterests(l, o) ==
    [client |-> (IF l["c2t"] = 0 THEN {"R"} ELSE {})
                    \cup (IF l["t2c"] > o["t2c"] THEN {"W"} ELSE {}),
     target |-> (IF l["t2c"] = 0 THEN {"R"} ELSE {})
                    \cup (IF l["c2t"] > o["c2t"] THEN {"W"} ELSE {})]

\* client_session_close_connection -> selector_unregister_fd -> client_close:
\* both descriptors are unregistered and closed and the state is freed,
\* whatever the buffers still hold.
CloseConnection ==
    /\ alive' = FALSE
    /\ interest' = [e \in Endpoints |-> {}]

Init ==
    /\ alive = TRUE
    /\ len = [d \in Directions |-> 0]
    /\ off = [d \in Directions |-> 0]
    /\ interest = RelayInterests(len, off)
    /\ in = [d \in Directions |-> 0]
    /\ out = [d \in Directions |-> 0]
    /\ sent = [d \in Directions |-> 0]
    /\ eof = [d \in Directions |-> FALSE]
    /\ broken = [e \in Endpoints |-> FALSE]

-----------------------------------------------------------------------------
(* The peers *)

PeerSends(d) ==
    /\ alive
    /\ ~eof[d]
    /\ \E n \in 1 .. MaxSent - sent[d] : sent' = [sent EXCEPT ![d] = @ + n]
    /\ UNCHANGED <<alive, len, off, interest, in, out, eof, broken>>

PeerShuts(d) ==
    /\ alive
    /\ ~eof[d]
    /\ eof' = [eof EXCEPT ![d] = TRUE]
    /\ UNCHANGED <<alive, len, off, interest, in, out, sent, broken>>

PeerResets(e) ==
    /\ alive
    /\ ~broken[e]
    /\ broken' = [broken EXCEPT ![e] = TRUE]
    /\ UNCHANGED <<alive, len, off, interest, in, out, sent, eof>>

-----------------------------------------------------------------------------
(* The handlers *)

\* Mutant: a buffer sent in full is left as it is.
SentNoReset(d, l) ==
    /\ len' = [len EXCEPT ![d] = l]
    /\ off' = [off EXCEPT ![d] = l]
    /\ interest' = RelayInterests(len', off')
    /\ alive' = alive

\* Mutant: only the offset is reset, so the buffer is sent again.
SentOffsetOnly(d, l) ==
    /\ len' = [len EXCEPT ![d] = l]
    /\ off' = [off EXCEPT ![d] = 0]
    /\ interest' = RelayInterests(len', off')
    /\ alive' = alive

\* The three ways out of the send loop over a buffer of length l and offset o
\* that has accepted m bytes in this call.  The buffer is sent in full:
Sent(d, l) ==
    /\ len' = [len EXCEPT ![d] = 0]
    /\ off' = [off EXCEPT ![d] = 0]
    /\ interest' = RelayInterests(len', off')
    /\ alive' = alive

\* Mutant: the bytes accepted before EAGAIN are forgotten.
BlockedForgets(d, l, o, m, i) ==
    /\ len' = [len EXCEPT ![d] = l]
    /\ off' = [off EXCEPT ![d] = o]
    /\ interest' = i
    /\ alive' = alive

\* EAGAIN is a plain return: the interests stay those of the call, i.
Blocked(d, l, o, m, i) ==
    /\ len' = [len EXCEPT ![d] = l]
    /\ off' = [off EXCEPT ![d] = o + m]
    /\ interest' = i
    /\ alive' = alive

\* Mutant: EAGAIN is taken for an error.
FailedOnEagain(d, l, o, m) ==
    /\ len' = [len EXCEPT ![d] = l]
    /\ off' = [off EXCEPT ![d] = o + m]
    /\ CloseConnection

\* Any other error closes the session.
Failed(d, l, o, m) ==
    /\ broken[Sink(d)]
    /\ len' = [len EXCEPT ![d] = l]
    /\ off' = [off EXCEPT ![d] = o + m]
    /\ CloseConnection

SendLoop(d, l, o, i) ==
    \E m \in 0 .. l - o :
        /\ out' = [out EXCEPT ![d] = @ + m]
        /\ \/ m = l - o /\ Sent(d, l)
           \/ m < l - o /\ Blocked(d, l, o, m, i)
           \/ m < l - o /\ Failed(d, l, o, m)

\* Mutant: one byte past the end of the buffer.
RecvSizesOverrun == 1 .. BufferSize + 1

\* What one recv into the empty buffer may return.
RecvSizes == 1 .. BufferSize

\* Mutant: the interests are not refreshed before the nested call.
ForwardNoUpdate(d, n) ==
    /\ in' = [in EXCEPT ![d] = @ + n]
    /\ SendLoop(d, n, 0, interest)

\* recv filled the empty buffer with n bytes; the interests are refreshed and
\* the write handler of the other descriptor is called to send them on at once.
Forward(d, n) ==
    /\ in' = [in EXCEPT ![d] = @ + n]
    /\ SendLoop(d, n, 0, RelayInterests([len EXCEPT ![d] = n], [off EXCEPT ![d] = 0]))

\* Mutant: only errors are handled, an end-of-file is not.
ReadEndsOnErrorOnly(d) ==
    /\ broken[Source(d)]
    /\ CloseConnection
    /\ UNCHANGED <<len, off, in, out>>

\* recv returned 0 or an error: nothing is left to read and the peer has shut
\* down, or its connection was reset.
ReadEnds(d) ==
    /\ \/ eof[d] /\ in[d] = sent[d]
       \/ broken[Source(d)]
    /\ CloseConnection
    /\ UNCHANGED <<len, off, in, out>>

\* A read handler of the relay: a buffer that is not empty is never overwritten.
ReadFrom(d) ==
    /\ alive
    /\ "R" \in interest[Source(d)]
    /\ IF len[d] # 0
       THEN /\ interest' = RelayInterests(len, off)
            /\ UNCHANGED <<alive, len, off, in, out>>
       ELSE \/ ReadEnds(d)
            \/ \E n \in RecvSizes :
                  /\ in[d] + n =< sent[d]
                  /\ Forward(d, n)
    /\ UNCHANGED <<sent, eof, broken>>

\* A write handler of the relay.
WriteTo(d) ==
    /\ alive
    /\ "W" \in interest[Sink(d)]
    /\ SendLoop(d, len[d], off[d], interest)
    /\ UNCHANGED <<in, sent, eof, broken>>

client_read == ReadFrom("c2t")
target_read == ReadFrom("t2c")
target_write == WriteTo("c2t")
client_write == WriteTo("t2c")

Handlers == client_read \/ target_read \/ client_write \/ target_write

Next ==
    \/ Handlers
    \/ \E d \in Directions : PeerSends(d) \/ PeerShuts(d)
    \/ \E e \in Endpoints : PeerResets(e)

Spec == Init /\ [][Next]_vars

(***************************************************************************)
(* Fairness.  selector_select serves every descriptor that pselect reports *)
(* in each iteration, so a handler that stays enabled is called.  That a   *)
(* write handler stays able to send assumes that its peer keeps reading.   *)
(***************************************************************************)
Fairness ==
    /\ WF_vars(client_read) /\ WF_vars(target_read)
    /\ WF_vars(client_write) /\ WF_vars(target_write)

FairSpec == Spec /\ Fairness

-----------------------------------------------------------------------------
(* Properties *)

\* Every variable has its type: buffer indices stay within the buffer
\* (c2t_len, c2t_off, t2c_len, t2c_off of client_state_t).
TypeOK ==
    /\ alive \in BOOLEAN
    /\ len \in [Directions -> 0 .. BufferSize]
    /\ off \in [Directions -> 0 .. BufferSize]
    /\ interest \in [Endpoints -> SUBSET {"R", "W"}]
    /\ in \in [Directions -> Nat]
    /\ out \in [Directions -> Nat]
    /\ sent \in [Directions -> Nat]
    /\ eof \in [Directions -> BOOLEAN]
    /\ broken \in [Endpoints -> BOOLEAN]

\* No byte is lost, duplicated or invented in either direction: what was
\* received from the source is what was sent to the sink plus what the buffer
\* still holds between its offset and its length.  This fails as soon as a recv
\* overwrites a buffer that is not empty, or an offset survives a refill.
Conservation ==
    \A d \in Directions :
        /\ off[d] =< len[d]
        /\ in[d] = out[d] + (len[d] - off[d])
        /\ in[d] =< sent[d]

\* The selector waits for exactly what the buffers allow, in every live state
\* and not only right after an update: the EAGAIN returns of the write loops
\* leave interests that an earlier call installed (client_session.c:166,
\* target_connection.c:350) and these must still be the right ones.
InterestExact ==
    alive => interest = RelayInterests(len, off)

\* No direction is wedged: a live session can always be woken up in both
\* directions, because a buffer is empty (its source is read) or has bytes left
\* (its sink is written); a buffer sent in full is never left with len = off # 0.
NeverWedged ==
    alive => \A d \in Directions : \/ "R" \in interest[Source(d)]
                                   \/ "W" \in interest[Sink(d)]

\* A session that ends while neither connection was reset ends because a peer
\* shut down, and only after every byte this peer had sent was sent on: an
\* end-of-file is not acted upon while bytes read before it wait in the buffer.
EofDrained ==
    (~alive /\ \A e \in Endpoints : ~broken[e]) =>
        \E d \in Directions : eof[d] /\ out[d] = sent[d]

\* Once bytes are in a buffer they are all sent on, or the session ends.
PendingIsFlushed ==
    \A d \in Directions : (len[d] > 0) ~> (len[d] = 0 \/ ~alive)

\* A peer that shuts down its sending side ends the session, whatever the state
\* of the other direction.
EofEndsSession ==
    \A d \in Directions : eof[d] ~> ~alive

\* The relay implements the two byte pipes.
Pipe == INSTANCE BytePipe WITH
    up <- alive, given <- out, shut <- eof, failed <- broken

\* Every behaviour of the relay's handlers is one of the abstract byte pipes:
\* bytes come out only if they were sent, and the session ends only for a
\* reason a peer gave.
ImplementsPipe == Pipe!Spec

=============================================================================
