---------------------------- MODULE Relay_proofs ----------------------------
(***************************************************************************)
(* Proofs about the relay, for every buffer size and every amount of data. *)
(*                                                                         *)
(* None of the invariants of Relay is inductive alone: Conservation needs  *)
(* that a refill finds an empty buffer, NeverWedged that the interests are *)
(* exact, and EofDrained that nothing is pending when recv returns 0.      *)
(* Their conjunction is inductive.                                         *)
(***************************************************************************)
EXTENDS Relay, TLAPS

\* The inductive invariant.
IInv ==
    /\ TypeOK
    /\ Conservation
    /\ InterestExact
    /\ NeverWedged
    /\ EofDrained

\* What update_relay_interests computes, endpoint by endpoint.
LEMMA RelayInterestsFacts ==
    ASSUME NEW l, NEW o
    PROVE  /\ RelayInterests(l, o) \in [Endpoints -> SUBSET {"R", "W"}]
           /\ \A d \in Directions :
                /\ "R" \in RelayInterests(l, o)[Source(d)] <=> l[d] = 0
                /\ "W" \in RelayInterests(l, o)[Sink(d)] <=> l[d] > o[d]
BY DEF RelayInterests, Endpoints, Directions, Source, Sink

\* A live session has no buffer that was sent in full and not reset.
LEMMA NoSpentBuffer ==
    ASSUME IInv, alive, NEW d \in Directions
    PROVE  len[d] = 0 \/ off[d] < len[d]
BY RelayInterestsFacts DEF IInv, InterestExact, NeverWedged, TypeOK, Conservation

\* The books of a direction balance when m of the bytes between o and l leave.
LEMMA BooksBalance ==
    ASSUME IInv, NEW d \in Directions, NEW l \in Nat, NEW o \in Nat,
           NEW n \in Nat, NEW m \in Nat, m =< l - o,
           in' = [in EXCEPT ![d] = @ + n],
           in[d] + n = out[d] + (l - o),
           in[d] + n =< sent[d],
           UNCHANGED sent,
           out' = [out EXCEPT ![d] = @ + m],
           len' = [len EXCEPT ![d] = l],
           off' = [off EXCEPT ![d] = o + m]
    PROVE  Conservation'
<1> SUFFICES ASSUME NEW e \in Directions
             PROVE  /\ off'[e] =< len'[e]
                    /\ in'[e] = out'[e] + (len'[e] - off'[e])
                    /\ in'[e] =< sent'[e]
  BY DEF Conservation
<1>1. CASE e = d
  BY <1>1 DEF IInv, TypeOK
<1>2. CASE e # d
  BY <1>2 DEF IInv, TypeOK, Conservation
<1>3. QED BY <1>1, <1>2

\* The send loop preserves the invariant, called from a write handler (n = 0,
\* i the current interests) or from a read handler that has just put n bytes
\* into the empty buffer.
LEMMA SendLoopPreserves ==
    ASSUME IInv, alive,
           NEW d \in Directions, NEW l \in 0 .. BufferSize, NEW o \in 0 .. BufferSize,
           NEW i, NEW n \in Nat,
           o < l,
           i = RelayInterests([len EXCEPT ![d] = l], [off EXCEPT ![d] = o]),
           in' = [in EXCEPT ![d] = @ + n],
           in[d] + n = out[d] + (l - o),
           in[d] + n =< sent[d],
           UNCHANGED <<sent, eof, broken>>,
           SendLoop(d, l, o, i)
    PROVE  IInv'
<1>1. PICK m \in 0 .. l - o :
        /\ out' = [out EXCEPT ![d] = @ + m]
        /\ \/ m = l - o /\ Sent(d, l)
           \/ m < l - o /\ Blocked(d, l, o, m, i)
           \/ m < l - o /\ Failed(d, l, o, m)
  BY DEF SendLoop
<1> USE BufferSizeAssumption
<1>2. m \in Nat /\ m =< l - o /\ l \in Nat /\ o \in Nat /\ l =< BufferSize
  OBVIOUS
<1>3. CASE m = l - o /\ Sent(d, l)
  <2>1. TypeOK'
    BY <1>1, <1>2, <1>3, RelayInterestsFacts DEF IInv, TypeOK, Sent
  <2>2. Conservation'
    BY <1>1, <1>2, <1>3 DEF IInv, TypeOK, Conservation, Sent
  <2>3. InterestExact'
    BY <1>3 DEF Sent, InterestExact
  <2>4. NeverWedged'
    <3>1. ASSUME NEW e \in Directions
          PROVE  len'[e] = 0 \/ len'[e] > off'[e]
      BY <1>2, <1>3, NoSpentBuffer DEF IInv, TypeOK, Sent
    <3>2. QED BY <1>3, <3>1, RelayInterestsFacts DEF Sent, NeverWedged
  <2>5. EofDrained'
    BY <1>3 DEF EofDrained, Sent
  <2>6. QED BY <2>1, <2>2, <2>3, <2>4, <2>5 DEF IInv
<1>4. CASE m < l - o /\ Blocked(d, l, o, m, i)
  <2>1. TypeOK'
    BY <1>1, <1>2, <1>4, RelayInterestsFacts DEF IInv, TypeOK, Blocked
  <2>2. Conservation'
    <3>1. /\ len' = [len EXCEPT ![d] = l]
          /\ off' = [off EXCEPT ![d] = o + m]
      BY <1>4 DEF Blocked
    <3>2. QED BY <1>1, <1>2, <3>1, BooksBalance
  <2>3. InterestExact'
    <3>1. l > o + m /\ l > o
      BY <1>2, <1>4
    <3>2. RelayInterests([len EXCEPT ![d] = l], [off EXCEPT ![d] = o])
            = RelayInterests([len EXCEPT ![d] = l], [off EXCEPT ![d] = o + m])
      BY <1>2, <3>1 DEF IInv, TypeOK, RelayInterests, Directions
    <3>3. QED BY <1>4, <3>2 DEF Blocked, InterestExact
  <2>4. NeverWedged'
    <3>1. ASSUME NEW e \in Directions
          PROVE  len'[e] = 0 \/ len'[e] > off'[e]
      BY <1>2, <1>4, NoSpentBuffer DEF IInv, TypeOK, Blocked
    <3>2. alive' /\ interest' = RelayInterests(len', off')
      BY <1>4, <2>3 DEF Blocked, InterestExact
    <3>3. QED BY <3>1, <3>2, RelayInterestsFacts DEF NeverWedged
  <2>5. EofDrained'
    BY <1>4 DEF EofDrained, Blocked
  <2>6. QED BY <2>1, <2>2, <2>3, <2>4, <2>5 DEF IInv
<1>5. CASE m < l - o /\ Failed(d, l, o, m)
  <2>0. /\ len' = [len EXCEPT ![d] = l]
        /\ off' = [off EXCEPT ![d] = o + m]
        /\ alive' = FALSE
        /\ interest' = [e \in Endpoints |-> {}]
    BY <1>5 DEF Failed, CloseConnection
  <2>1. TypeOK'
    <3>1. len' \in [Directions -> 0 .. BufferSize] /\ off' \in [Directions -> 0 .. BufferSize]
      BY <1>2, <2>0 DEF IInv, TypeOK
    <3>2. in' \in [Directions -> Nat] /\ out' \in [Directions -> Nat]
      BY <1>1, <1>2 DEF IInv, TypeOK
    <3>3. QED BY <2>0, <3>1, <3>2 DEF IInv, TypeOK
  <2>2. Conservation'
    BY <1>1, <1>2, <2>0, BooksBalance
  <2>3. ~alive' /\ \E e \in Endpoints : broken'[e]
    BY <1>5 DEF Failed, CloseConnection, Endpoints, Sink
  <2>4. InterestExact' /\ NeverWedged' /\ EofDrained'
    BY <2>3 DEF InterestExact, NeverWedged, EofDrained
  <2>5. QED BY <2>1, <2>2, <2>4 DEF IInv
<1>6. QED BY <1>1, <1>3, <1>4, <1>5

\* A read handler preserves the invariant.
LEMMA ReadFromPreserves ==
    ASSUME IInv, NEW d \in Directions, ReadFrom(d)
    PROVE  IInv'
<1>1. alive /\ "R" \in interest[Source(d)] /\ UNCHANGED <<sent, eof, broken>>
  BY DEF ReadFrom
<1>2. len[d] = 0 /\ off[d] = 0
  BY <1>1, RelayInterestsFacts DEF IInv, InterestExact, TypeOK, Conservation
<1>3. CASE ReadEnds(d)
  <2>1. out[d] = in[d]
    BY <1>2 DEF IInv, TypeOK, Conservation
  <2>2. ~alive' /\ UNCHANGED <<len, off, in, out>>
    BY <1>3 DEF ReadEnds, CloseConnection
  <2>3. TypeOK'
    BY <1>1, <1>3, <2>2 DEF IInv, TypeOK, ReadEnds, CloseConnection, Endpoints
  <2>4. Conservation'
    BY <1>1, <2>2 DEF IInv, Conservation
  <2>5. EofDrained'
    <3>1. Source(d) \in Endpoints
      BY DEF Source, Endpoints
    <3>2. QED BY <1>1, <1>3, <2>1, <2>2, <3>1 DEF ReadEnds, EofDrained
  <2>6. InterestExact' /\ NeverWedged'
    BY <2>2 DEF InterestExact, NeverWedged
  <2>7. QED BY <2>3, <2>4, <2>5, <2>6 DEF IInv
<1>4. ASSUME NEW n \in RecvSizes, in[d] + n =< sent[d], Forward(d, n)
      PROVE  IInv'
  <2>1. n \in Nat /\ 0 < n /\ n =< BufferSize /\ n \in 0 .. BufferSize
    BY <1>4, BufferSizeAssumption DEF RecvSizes
  <2>2. in[d] + n = out[d] + (n - 0)
    BY <1>2, <2>1 DEF IInv, TypeOK, Conservation
  <2>3. 0 \in 0 .. BufferSize
    BY BufferSizeAssumption
  <2>4. /\ in' = [in EXCEPT ![d] = @ + n]
        /\ SendLoop(d, n, 0, RelayInterests([len EXCEPT ![d] = n], [off EXCEPT ![d] = 0]))
    BY <1>4 DEF Forward
  <2>5. QED
    BY <1>1, <1>4, <2>1, <2>2, <2>3, <2>4, SendLoopPreserves
<1>5. QED BY <1>2, <1>3, <1>4 DEF ReadFrom

\* A write handler preserves the invariant.
LEMMA WriteToPreserves ==
    ASSUME IInv, NEW d \in Directions, WriteTo(d)
    PROVE  IInv'
<1>1. alive /\ "W" \in interest[Sink(d)] /\ UNCHANGED <<in, sent, eof, broken>>
  BY DEF WriteTo
<1>2. off[d] < len[d]
  BY <1>1, RelayInterestsFacts DEF IInv, InterestExact, TypeOK
<1>3. interest = RelayInterests([len EXCEPT ![d] = len[d]], [off EXCEPT ![d] = off[d]])
  <2>1. len = [len EXCEPT ![d] = len[d]] /\ off = [off EXCEPT ![d] = off[d]]
    BY DEF IInv, TypeOK
  <2>2. QED BY <1>1, <2>1 DEF IInv, InterestExact
<1>4. in' = [in EXCEPT ![d] = @ + 0]
  BY <1>1 DEF IInv, TypeOK
<1>5. /\ in[d] + 0 = out[d] + (len[d] - off[d])
      /\ in[d] + 0 =< sent[d]
      /\ len[d] \in 0 .. BufferSize
      /\ off[d] \in 0 .. BufferSize
  BY DEF IInv, TypeOK, Conservation
<1>6. QED
  BY <1>1, <1>2, <1>3, <1>4, <1>5, SendLoopPreserves DEF WriteTo

\* A step of a peer preserves the invariant.
LEMMA PeersPreserve ==
    ASSUME IInv,
           \/ \E d \in Directions : PeerSends(d) \/ PeerShuts(d)
           \/ \E e \in Endpoints : PeerResets(e)
    PROVE  IInv'
<1>1. ASSUME NEW d \in Directions, PeerSends(d)
      PROVE  IInv'
  <2>1. PICK n \in 1 .. MaxSent - sent[d] : sent' = [sent EXCEPT ![d] = @ + n]
    BY <1>1 DEF PeerSends
  <2>2. n \in Nat
    BY MaxSentAssumption DEF IInv, TypeOK
  <2>3. QED
    BY <1>1, <2>1, <2>2 DEF IInv, TypeOK, Conservation, InterestExact,
                            NeverWedged, EofDrained, PeerSends
<1>2. ASSUME NEW d \in Directions, PeerShuts(d)
      PROVE  IInv'
  BY <1>2 DEF IInv, TypeOK, Conservation, InterestExact, NeverWedged, EofDrained, PeerShuts
<1>3. ASSUME NEW e \in Endpoints, PeerResets(e)
      PROVE  IInv'
  BY <1>3 DEF IInv, TypeOK, Conservation, InterestExact, NeverWedged, EofDrained, PeerResets
<1>4. QED BY <1>1, <1>2, <1>3

\* The conjunction of the relay's invariants is inductive: it holds when the
\* relay starts and every handler and every event of a peer preserves it.
THEOREM Inductive == Spec => []IInv
<1>1. Init => IInv
  <2> SUFFICES ASSUME Init PROVE IInv
    OBVIOUS
  <2>2. TypeOK /\ Conservation
    BY RelayInterestsFacts, BufferSizeAssumption DEF Init, TypeOK, Conservation
  <2>3. NeverWedged
    BY RelayInterestsFacts DEF Init, NeverWedged
  <2>4. QED BY <2>2, <2>3 DEF Init, IInv, InterestExact, EofDrained
<1>2. IInv /\ [Next]_vars => IInv'
  <2> SUFFICES ASSUME IInv, [Next]_vars PROVE IInv'
    OBVIOUS
  <2>2. "c2t" \in Directions /\ "t2c" \in Directions
    BY DEF Directions
  <2>3. CASE Handlers
    BY <2>2, <2>3, ReadFromPreserves, WriteToPreserves
       DEF Handlers, client_read, target_read, client_write, target_write
  <2>4. CASE UNCHANGED vars
    BY <2>4 DEF vars, IInv, TypeOK, Conservation, InterestExact, NeverWedged, EofDrained
  <2>5. QED BY <2>3, <2>4, PeersPreserve DEF Next
<1>3. QED BY <1>1, <1>2, PTL DEF Spec

\* No buffer index of the relay ever leaves its buffer.
THEOREM TypeCorrect == Spec => []TypeOK
BY Inductive, PTL DEF IInv

\* The relay neither loses, duplicates nor invents a byte.
THEOREM Conserves == Spec => []Conservation
BY Inductive, PTL DEF IInv

\* Every live session can be woken up in both directions.
THEOREM Wakeable == Spec => []NeverWedged
BY Inductive, PTL DEF IInv

\* The interests of a live session are those of its buffers, whichever handler
\* left last: pselect waits for no room where there is nothing to send.
THEOREM InterestsAreExact == Spec => []InterestExact
BY Inductive, PTL DEF IInv

\* An end-of-file ends the session only after everything before it was sent on.
THEOREM Drains == Spec => []EofDrained
BY Inductive, PTL DEF IInv

-----------------------------------------------------------------------------
(* The relay implements the byte pipes. *)

\* One run of the send loop is a delivery of the abstract pipe.
LEMMA SendLoopDelivers ==
    ASSUME IInv, alive, NEW d \in Directions,
           NEW l \in Nat, NEW o \in Nat, NEW i,
           out[d] + (l - o) =< sent[d], o =< l,
           UNCHANGED <<sent, eof, broken>>,
           SendLoop(d, l, o, i)
    PROVE  Pipe!Deliver(d)
<1>1. PICK m \in 0 .. l - o :
        /\ out' = [out EXCEPT ![d] = @ + m]
        /\ \/ m = l - o /\ Sent(d, l)
           \/ m < l - o /\ Blocked(d, l, o, m, i)
           \/ m < l - o /\ Failed(d, l, o, m)
  BY DEF SendLoop
<1>2. out[d] + m \in out[d] .. sent[d]
  BY <1>1 DEF IInv, TypeOK
<1>3. out' = [out EXCEPT ![d] = out[d] + m]
  BY <1>1 DEF IInv, TypeOK
<1>4. Sink(d) \in Pipe!Peers
  BY DEF Sink, Pipe!Peers
<1>5. alive' \in BOOLEAN /\ (alive' \/ \E e \in Pipe!Peers : broken[e])
  BY <1>1, <1>4 DEF Sent, Blocked, Failed, CloseConnection
<1>6. QED BY <1>2, <1>3, <1>5 DEF Pipe!Deliver

\* Every step of a read handler is a step of the abstract pipes or a stutter.
LEMMA ReadFromRefines ==
    ASSUME IInv, NEW d \in Directions, ReadFrom(d)
    PROVE  [Pipe!Next]_Pipe!vars
<1>1. alive /\ "R" \in interest[Source(d)] /\ UNCHANGED <<sent, eof, broken>>
  BY DEF ReadFrom
<1>2. len[d] = 0 /\ off[d] = 0
  BY <1>1, RelayInterestsFacts DEF IInv, InterestExact, TypeOK, Conservation
<1>3. out[d] = in[d] /\ out[d] \in Nat /\ sent[d] \in Nat /\ d \in Pipe!Pipes /\ in[d] =< sent[d]
  BY <1>2 DEF IInv, TypeOK, Conservation, Directions, Pipe!Pipes
<1>4. CASE ReadEnds(d)
  <2>1. CASE eof[d] /\ in[d] = sent[d]
    <3>1. Pipe!TearDown
      BY <1>1, <1>3, <1>4, <2>1 DEF ReadEnds, CloseConnection, Pipe!TearDown
    <3>2. QED BY <3>1 DEF Pipe!Next
  <2>2. CASE broken[Source(d)]
    <3>1. Source(d) \in Pipe!Peers
      BY DEF Source, Pipe!Peers
    <3>2. out[d] \in out[d] .. sent[d] /\ out' = [out EXCEPT ![d] = out[d]]
      BY <1>3, <1>4 DEF ReadEnds, IInv, TypeOK
    <3>3. Pipe!Deliver(d)
      BY <1>1, <1>4, <2>2, <3>1, <3>2 DEF ReadEnds, CloseConnection, Pipe!Deliver
    <3>4. QED BY <1>3, <3>3 DEF Pipe!Next
  <2>3. QED BY <1>4, <2>1, <2>2 DEF ReadEnds
<1>5. ASSUME NEW n \in RecvSizes, in[d] + n =< sent[d], Forward(d, n)
      PROVE  Pipe!Next
  <2>1. n \in Nat /\ 0 =< n
    BY <1>5, BufferSizeAssumption DEF RecvSizes
  <2>2. out[d] + (n - 0) =< sent[d]
    BY <1>3, <1>5, <2>1
  <2>3. Pipe!Deliver(d)
    BY <1>1, <1>5, <2>1, <2>2, SendLoopDelivers DEF Forward
  <2>4. QED BY <1>3, <2>3 DEF Pipe!Next
<1>6. QED BY <1>2, <1>4, <1>5 DEF ReadFrom

\* Every step of a write handler is a delivery of the abstract pipes.
LEMMA WriteToRefines ==
    ASSUME IInv, NEW d \in Directions, WriteTo(d)
    PROVE  Pipe!Next
<1>1. alive /\ UNCHANGED <<sent, eof, broken>> /\ SendLoop(d, len[d], off[d], interest)
  BY DEF WriteTo
<1>2. /\ len[d] \in Nat /\ off[d] \in Nat /\ off[d] =< len[d]
      /\ out[d] + (len[d] - off[d]) =< sent[d]
  BY BufferSizeAssumption DEF IInv, TypeOK, Conservation
<1>3. Pipe!Deliver(d) /\ d \in Pipe!Pipes
  BY <1>1, <1>2, SendLoopDelivers DEF Directions, Pipe!Pipes
<1>4. QED BY <1>3 DEF Pipe!Next

\* Every step of a peer is the same step of the abstract specification.
LEMMA PeersRefine ==
    ASSUME IInv,
           \/ \E d \in Directions : PeerSends(d) \/ PeerShuts(d)
           \/ \E e \in Endpoints : PeerResets(e)
    PROVE  Pipe!Next
<1>1. ASSUME NEW d \in Directions, PeerSends(d)
      PROVE  Pipe!Next
  <2>1. PICK n \in 1 .. MaxSent - sent[d] : sent' = [sent EXCEPT ![d] = @ + n]
    BY <1>1 DEF PeerSends
  <2>2. n \in Nat /\ n > 0
    BY MaxSentAssumption DEF IInv, TypeOK
  <2>3. sent'[d] > sent[d] /\ sent' = [sent EXCEPT ![d] = sent'[d]]
    BY <2>1, <2>2 DEF IInv, TypeOK
  <2>4. Pipe!Send(d) /\ d \in Pipe!Pipes
    BY <1>1, <2>3 DEF PeerSends, Pipe!Send, Directions, Pipe!Pipes
  <2>5. QED BY <2>4 DEF Pipe!Next
<1>2. ASSUME NEW d \in Directions, PeerShuts(d)
      PROVE  Pipe!Next
  BY <1>2 DEF PeerShuts, Pipe!Next, Pipe!Shut, Pipe!Pipes, Directions
<1>3. ASSUME NEW e \in Endpoints, PeerResets(e)
      PROVE  Pipe!Next
  BY <1>3 DEF PeerResets, Pipe!Next, Pipe!Fail, Pipe!Peers, Endpoints
<1>4. QED BY <1>1, <1>2, <1>3

\* The relay implements the two byte pipes: each handler is a delivery, a
\* tear-down a peer gave the reason for, or nothing a peer can see.
THEOREM RelayImplementsPipe == Spec => ImplementsPipe
<1>1. Init => Pipe!Init
  BY DEF Init, Pipe!Init, Directions, Endpoints, Pipe!Pipes, Pipe!Peers
<1>2. IInv /\ [Next]_vars => [Pipe!Next]_Pipe!vars
  <2> SUFFICES ASSUME IInv, [Next]_vars PROVE [Pipe!Next]_Pipe!vars
    OBVIOUS
  <2>2. "c2t" \in Directions /\ "t2c" \in Directions
    BY DEF Directions
  <2>3. CASE Handlers
    BY <2>2, <2>3, ReadFromRefines, WriteToRefines
       DEF Handlers, client_read, target_read, client_write, target_write
  <2>4. CASE UNCHANGED vars
    BY <2>4 DEF vars, Pipe!vars
  <2>5. QED BY <2>3, <2>4, PeersRefine DEF Next
<1>3. QED BY <1>1, <1>2, Inductive, PTL DEF Spec, ImplementsPipe, Pipe!Spec
=============================================================================
