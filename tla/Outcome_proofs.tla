--------------------------- MODULE Outcome_proofs ---------------------------
(***************************************************************************)
(* Outcomes, for every number of sessions: the access log and the metrics  *)
(* agree on how each request ended, and so do the clients, for which the   *)
(* proxy implements the service of module SocksService.                    *)
(*                                                                         *)
(* The argument for the log: a request ends when its session leaves the    *)
(* stages before the outcome, which it does once; only then is it counted  *)
(* and logged.  That a success is never left out of the log needs that a   *)
(* session that connects has a destination, which for a name rests on the  *)
(* thread never resolving an empty one.                                    *)
(*                                                                         *)
(* The argument for the clients: the reply that is pending, and the user,  *)
(* are those of the session's stage; and no failure is answered with       *)
(* SUCCESS, since an address list always has an address that can be tried, *)
(* so that a request only fails once an error is remembered.               *)
(***************************************************************************)
EXTENDS Proxy_proofs

\* The stages before the outcome of a request.
Undecided == {"UNBORN", "GREETING", "AUTH", "REQUEST", "RESOLVING", "CONNECTING"}

Decided == {s \in Sessions : state[s].stage \notin Undecided}
Won == {s \in Sessions : access_log[s] = <<TRUE>>}
Lost == {s \in Sessions : access_log[s] = <<FALSE>>}

\* The log and the destination of one session.
SessionInv(s) ==
    /\ access_log[s] \in {<<>>, <<TRUE>>, <<FALSE>>}
    /\ state[s].stage \in Undecided => access_log[s] = <<>> /\ ~state[s].access_logged
    /\ state[s].stage = "CONNECTING" => state[s].dest
    /\ state[s].stage = "RESOLVING" => (state[s].dest <=> job[s].named)
    /\ job[s].status = "OK" => job[s].named

\* The third invariant, inductive together with IInv.
OInv ==
    /\ \A s \in Sessions : SessionInv(s)
    /\ metrics.successful = Cardinality(Won)
    /\ metrics.failed >= Cardinality(Lost)
    /\ metrics.successful + metrics.failed =< Cardinality(Decided)

\* What the third invariant is for.
LEMMA OInvImplies ==
    ASSUME IInv, OInv
    PROVE  OneOutcome
<1>1. \A s \in Sessions : Len(access_log[s]) =< 1
  <2>1. Len(<<>>) = 0 /\ Len(<<TRUE>>) = 1 /\ Len(<<FALSE>>) = 1
    OBVIOUS
  <2>2. ASSUME NEW s \in Sessions PROVE access_log[s] \in {<<>>, <<TRUE>>, <<FALSE>>}
    BY DEF OInv, SessionInv
  <2>3. ASSUME NEW s \in Sessions PROVE Len(access_log[s]) \in {0, 1}
    BY <2>1, <2>2, Zenon
  <2>4. \A n \in {0, 1} : n =< 1
    OBVIOUS
  <2>5. QED BY <2>3, <2>4, Zenon
<1>2. Decided \subseteq BornSessions
  BY DEF Decided, BornSessions, Undecided
<1>3. Cardinality(Decided) =< Cardinality(BornSessions)
  BY <1>2, SessionsFinite, FS_Subset
<1>4. Cardinality(Decided) \in Nat
  BY <1>2, SessionsFinite, FS_Subset, FS_CardinalityType
<1>5. metrics.successful \in Nat /\ metrics.failed \in Nat /\ metrics.historical \in Nat
  BY DEF IInv, TypeOK, Metrics
<1>6. metrics.successful + metrics.failed =< metrics.historical
  BY <1>3, <1>4, <1>5, SessionsFinite DEF OInv, IInv, CountersExact
<1>7. QED BY <1>1, <1>6 DEF OInv, OneOutcome, Won, Lost

-----------------------------------------------------------------------------
(* Counting *)

\* The sets that are counted are finite.
LEMMA OutcomesFinite ==
    /\ IsFiniteSet(Won) /\ Cardinality(Won) \in Nat
    /\ IsFiniteSet(Lost) /\ Cardinality(Lost) \in Nat
    /\ IsFiniteSet(Decided) /\ Cardinality(Decided) \in Nat
    /\ IsFiniteSet(Decided') /\ Cardinality(Decided') \in Nat
<1>1. Won \subseteq Sessions /\ Lost \subseteq Sessions /\ Decided \subseteq Sessions
      /\ Decided' \subseteq Sessions
  BY DEF Won, Lost, Decided
<1>2. QED BY <1>1, SetsAssumption, FS_Subset, FS_CardinalityType

\* No session but s is touched.
OthersAlone(s) == \A t \in Sessions \ {s} : state'[t] = state[t] /\ job'[t] = job[t]

\* Neither the log nor the outcomes counted change.
NoOutcome ==
    /\ access_log' = access_log
    /\ metrics'.successful = metrics.successful /\ metrics'.failed = metrics.failed

\* A step without an outcome.
LEMMA NoOutcomeKeeps ==
    ASSUME IInv, OInv, NEW s \in Sessions, OthersAlone(s), NoOutcome, SessionInv(s)',
           state[s].stage \notin Undecided => state'[s].stage \notin Undecided
    PROVE  OInv'
<1>1. \A t \in Sessions : SessionInv(t)'
  BY DEF OInv, SessionInv, OthersAlone, NoOutcome
<1>2. Won' = Won /\ Lost' = Lost
  BY DEF Won, Lost, NoOutcome
<1>3. Decided \subseteq Decided'
  BY DEF Decided, OthersAlone
<1>4. Cardinality(Decided) =< Cardinality(Decided')
  BY <1>3, OutcomesFinite, FS_Subset
<1>5. metrics.successful \in Nat /\ metrics.failed \in Nat
  BY DEF IInv, TypeOK, Metrics
<1>6. metrics'.successful + metrics'.failed =< Cardinality(Decided')
  BY <1>4, <1>5, OutcomesFinite DEF OInv, NoOutcome
<1>7. QED BY <1>1, <1>2, <1>6 DEF OInv, NoOutcome

\* A step that neither touches a session nor decides anything.
LEMMA SameOutcomes ==
    ASSUME OInv, UNCHANGED <<state, job, access_log, metrics>>
    PROVE  OInv'
BY DEF OInv, SessionInv, Won, Lost, Decided

\* Session s, undecided so far, is decided.
LEMMA OneMoreDecided ==
    ASSUME NEW s \in Sessions, OthersAlone(s),
           state[s].stage \in Undecided, state'[s].stage \notin Undecided
    PROVE  Cardinality(Decided') = Cardinality(Decided) + 1
<1>1. Decided' = Decided \cup {s} /\ s \notin Decided
  BY DEF Decided, OthersAlone
<1>2. QED BY <1>1, OutcomesFinite, FS_AddElement

\* The request of session s fails.
LEMMA FailureKeeps ==
    ASSUME IInv, OInv, NEW s \in Sessions, OthersAlone(s),
           state[s].stage \in Undecided, state'[s].stage \notin Undecided,
           metrics'.successful = metrics.successful, metrics'.failed = metrics.failed + 1,
           access_log' = access_log \/ access_log' = [access_log EXCEPT ![s] = <<FALSE>>],
           job'[s].status = "OK" => job'[s].named
    PROVE  OInv'
<1>1. access_log[s] = <<>> /\ access_log \in [Sessions -> Seq(BOOLEAN)]
  BY DEF IInv, TypeOK, OInv, SessionInv
<1>2. access_log'[s] \in {<<>>, <<FALSE>>}
      /\ \A t \in Sessions \ {s} : access_log'[t] = access_log[t]
  BY <1>1
<1>3. SessionInv(s)'
  BY <1>2 DEF SessionInv, Undecided
<1>4. ASSUME NEW t \in Sessions \ {s} PROVE SessionInv(t)'
  BY <1>2 DEF OInv, SessionInv, OthersAlone
<1>5. <<>> # <<TRUE>> /\ <<FALSE>> # <<TRUE>> /\ <<>> # <<FALSE>>
  OBVIOUS
<1>6. Won' = Won
  BY <1>1, <1>2, <1>5 DEF Won
<1>7. Lost' = Lost \/ (Lost' = Lost \cup {s} /\ s \notin Lost)
  BY <1>1, <1>2, <1>5 DEF Lost
<1>8. Cardinality(Lost') = Cardinality(Lost) \/ Cardinality(Lost') = Cardinality(Lost) + 1
  BY <1>7, OutcomesFinite, FS_AddElement
<1>9. Cardinality(Decided') = Cardinality(Decided) + 1
  BY OneMoreDecided
<1>10. metrics.successful \in Nat /\ metrics.failed \in Nat
  BY DEF IInv, TypeOK, Metrics
<1>11. metrics'.failed >= Cardinality(Lost')
  BY <1>8, <1>10, OutcomesFinite DEF OInv
<1>12. metrics'.successful + metrics'.failed =< Cardinality(Decided')
  BY <1>9, <1>10, OutcomesFinite DEF OInv
<1>13. QED BY <1>3, <1>4, <1>6, <1>11, <1>12 DEF OInv

\* The request of session s is granted.
LEMMA SuccessKeeps ==
    ASSUME IInv, OInv, NEW s \in Sessions, OthersAlone(s), job' = job,
           state[s].stage \in Undecided, state'[s].stage \notin Undecided,
           metrics'.successful = metrics.successful + 1, metrics'.failed = metrics.failed,
           access_log' = [access_log EXCEPT ![s] = <<TRUE>>]
    PROVE  OInv'
<1>1. access_log[s] = <<>> /\ access_log \in [Sessions -> Seq(BOOLEAN)]
  BY DEF IInv, TypeOK, OInv, SessionInv
<1>2. access_log'[s] = <<TRUE>> /\ \A t \in Sessions \ {s} : access_log'[t] = access_log[t]
  BY <1>1
<1>3. SessionInv(s)'
  BY <1>2 DEF OInv, SessionInv, Undecided
<1>4. ASSUME NEW t \in Sessions \ {s} PROVE SessionInv(t)'
  BY <1>2 DEF OInv, SessionInv, OthersAlone
<1>5. <<>> # <<TRUE>> /\ <<FALSE>> # <<TRUE>> /\ <<>> # <<FALSE>>
  OBVIOUS
<1>6. Lost' = Lost
  BY <1>1, <1>2, <1>5 DEF Lost
<1>7. Won' = Won \cup {s} /\ s \notin Won
  BY <1>1, <1>2, <1>5 DEF Won
<1>8. Cardinality(Won') = Cardinality(Won) + 1
  BY <1>7, OutcomesFinite, FS_AddElement
<1>9. Cardinality(Decided') = Cardinality(Decided) + 1
  BY OneMoreDecided
<1>10. metrics.successful \in Nat /\ metrics.failed \in Nat
  BY DEF IInv, TypeOK, Metrics
<1>11. metrics'.successful + metrics'.failed =< Cardinality(Decided')
  BY <1>9, <1>10, OutcomesFinite DEF OInv
<1>12. QED BY <1>3, <1>4, <1>6, <1>8, <1>11 DEF OInv

-----------------------------------------------------------------------------
(* The steps *)

\* What is known of a session before a step.
LEMMA Known ==
    ASSUME IInv, OInv, NEW s \in Sessions
    PROVE  /\ state \in [Sessions -> State] /\ job \in [Sessions -> Job]
           /\ state[s] \in State /\ job[s] \in Job /\ metrics \in Metrics
           /\ access_log \in [Sessions -> Seq(BOOLEAN)] /\ SessionInv(s)
BY DEF IInv, TypeOK, OInv

\* What access_log_client_connection writes for an undecided session.
LEMMA LogLine ==
    ASSUME IInv, OInv, NEW s \in Sessions, state[s].stage \in Undecided,
           NEW c, NEW success \in BOOLEAN
    PROVE  /\ c.access_logged \/ ~c.dest => AccessLog(s, c, success) = access_log
           /\ ~(c.access_logged \/ ~c.dest) =>
                 AccessLog(s, c, success) = [access_log EXCEPT ![s] = <<success>>]
<1>1. access_log[s] = <<>> /\ access_log \in [Sessions -> Seq(BOOLEAN)]
  BY Known DEF SessionInv
<1>2. Append(<<>>, success) = <<success>>
  OBVIOUS
<1>3. QED BY <1>1, <1>2 DEF AccessLog

\* RefuseRequest, whoever calls it.
LEMMA RefuseDecides ==
    ASSUME IInv, OInv, NEW s \in Sessions, state[s].stage \in Undecided,
           NEW c \in State, NEW r, RefuseRequest(s, c, r),
           \A t \in Sessions \ {s} : job'[t] = job[t],
           job'[s].status = "OK" => job'[s].named
    PROVE  OInv'
<1> DEFINE d == [c EXCEPT !.stage = "CLOSING", !.reply = r, !.access_logged = @ \/ c.dest]
<1>1. d.stage = "CLOSING"
  BY DEF State
<1>2. /\ state' = [state EXCEPT ![s] = d] /\ metrics' = metrics_connection_failed
      /\ access_log' = AccessLog(s, c, FALSE)
  BY DEF Refuses, RefuseRequest
<1> HIDE DEF d
<1>3. state'[s] = d /\ OthersAlone(s)
  BY <1>2, Known DEF OthersAlone
<1>4. metrics'.successful = metrics.successful /\ metrics'.failed = metrics.failed + 1
  BY <1>2, Known DEF metrics_connection_failed, Metrics
<1>5. access_log' = access_log \/ access_log' = [access_log EXCEPT ![s] = <<FALSE>>]
  BY <1>2, LogLine
<1>6. state'[s].stage \notin Undecided
  BY <1>1, <1>3 DEF Undecided
<1>7. QED BY <1>3, <1>4, <1>5, <1>6, FailureKeeps

\* Connect, whoever calls it: the session connects, or its request is refused.
LEMMA ConnectDecides ==
    ASSUME IInv, OInv, NEW s \in Sessions, state[s].stage \in Undecided,
           NEW c \in State, c.dest, ~c.access_logged, Connect(s, c),
           \A t \in Sessions \ {s} : job'[t] = job[t],
           job'[s].status = "OK" => job'[s].named
    PROVE  OInv'
<1>1. PICK a \in Attempts(c.addrs, c.err) :
        LET d == [c EXCEPT !.addrs = a.left, !.err = a.err]
        IN  IF a.ok
            THEN /\ state' = [state EXCEPT ![s] = [d EXCEPT !.stage = "CONNECTING"]]
                 /\ UNCHANGED <<metrics, access_log>>
            ELSE RefuseRequest(s, d, socks5_reply_for_errno(a.err))
  BY ConnectCases
<1> DEFINE d == [c EXCEPT !.addrs = a.left, !.err = a.err]
<1>2. a.ok \in BOOLEAN /\ a.left \in Seq({"inet", "other"}) /\ a.err \in Errnos \cup {"0"}
  BY AttemptsType DEF State
<1>3. d \in State /\ d.dest = c.dest /\ d.access_logged = c.access_logged
  BY <1>2 DEF State
<1>4. CASE ~a.ok
  <2>1. RefuseRequest(s, d, socks5_reply_for_errno(a.err))
    BY <1>1, <1>4
  <2> HIDE DEF d
  <2>2. QED BY <1>3, <2>1, RefuseDecides
<1>5. CASE a.ok
  <2> DEFINE e == [d EXCEPT !.stage = "CONNECTING"]
  <2>1. state' = [state EXCEPT ![s] = e] /\ UNCHANGED <<metrics, access_log>>
    BY <1>1, <1>5
  <2> HIDE DEF d
  <2>2. e.stage = "CONNECTING" /\ e.dest /\ ~e.access_logged
    BY <1>3 DEF State
  <2> HIDE DEF e
  <2>3. state'[s] = e /\ OthersAlone(s)
    BY <2>1, Known DEF OthersAlone
  <2>4. access_log'[s] = <<>>
    BY <2>1, Known DEF SessionInv
  <2>5. SessionInv(s)'
    BY <2>2, <2>3, <2>4 DEF SessionInv, Undecided
  <2>6. NoOutcome
    BY <2>1 DEF NoOutcome
  <2>7. QED BY <2>3, <2>5, <2>6, NoOutcomeKeeps
<1>6. QED BY <1>2, <1>4, <1>5

\* client_close decides nothing: a request without an outcome is not counted.
LEMMA CloseDecides ==
    ASSUME IInv, OInv, NEW s \in Sessions, client_close(s), access_log' = access_log
    PROVE  OInv'
<1> DEFINE f == [NewState EXCEPT !.stage = "FREED"]
<1>1. f.stage = "FREED"
  BY DEF NewState
<1>2. /\ state' = [state EXCEPT ![s] = f] /\ job' = [job EXCEPT ![s] = Detach(s)]
      /\ metrics' = metrics_connection_closed
  BY DEF client_close
<1>3. Detach(s).status = job[s].status /\ Detach(s).named = job[s].named
  <2> DEFINE j == job[s]
  <2>1. j \in Job
    BY Known
  <2>2. Detach(s) = IF ~state[s].has_job THEN j
                    ELSE [j EXCEPT !.waiting = FALSE, !.mem = DetachedMem(s),
                                   !.result = IF j.done THEN <<>> ELSE j.result]
    BY Known DEF Detach, Job
  <2> HIDE DEF j
  <2>3. Detach(s).status = j.status /\ Detach(s).named = j.named
    BY <2>1, <2>2 DEF Job
  <2>4. QED BY <2>3 DEF j
<1> HIDE DEF f
<1>4. state'[s] = f /\ job'[s] = Detach(s) /\ OthersAlone(s)
  BY <1>2, Known DEF OthersAlone
<1>5. NoOutcome
  BY <1>2, Known DEF NoOutcome, metrics_connection_closed, Metrics
<1>6. SessionInv(s)'
  BY <1>1, <1>3, <1>4, Known DEF SessionInv, Undecided
<1>7. QED BY <1>1, <1>4, <1>5, <1>6, NoOutcomeKeeps DEF Undecided

\* A step of a session before its outcome, with its job and the books alone.
LEMMA EarlyStep ==
    ASSUME IInv, OInv, NEW s \in Sessions, NEW c, state' = [state EXCEPT ![s] = c],
           state[s].stage \in Undecided, ~c.access_logged,
           c.stage \notin {"RESOLVING", "CONNECTING"}, job' = job, NoOutcome
    PROVE  OInv'
<1>1. state'[s] = c /\ OthersAlone(s)
  BY Known DEF OthersAlone
<1>2. SessionInv(s)'
  BY <1>1, Known DEF SessionInv, NoOutcome
<1>3. QED BY <1>1, <1>2, NoOutcomeKeeps

\* The handlers.
LEMMA ServeDecides ==
    ASSUME IInv, OInv, NEW s \in Sessions, Serve(s)
    PROVE  OInv'
<1> DEFINE c == state[s]
<1>1. c \in State /\ job[s] \in Job /\ SessionInv(s) /\ metrics \in Metrics
  BY Known
<1>2. job[s].status = "OK" => job[s].named
  BY <1>1 DEF SessionInv
<1>3. c.stage \in Undecided => ~c.access_logged
  BY <1>1 DEF SessionInv
<1>4. CASE accept_connection(s)
  <2>1. /\ c.stage = "UNBORN" /\ state' = [state EXCEPT ![s] = NewState]
        /\ metrics' = [metrics EXCEPT !.historical = @ + 1, !.concurrent = @ + 1]
        /\ job' = job /\ access_log' = access_log
    BY <1>4 DEF accept_connection, jobVars
  <2>2. NewState.stage = "GREETING" /\ ~NewState.access_logged
    BY DEF NewState
  <2>3. NoOutcome
    BY <1>1, <2>1 DEF NoOutcome, Metrics
  <2>4. QED BY <2>1, <2>2, <2>3, EarlyStep DEF Undecided
<1>5. ASSUME NEW offered \in SUBSET {"NO_AUTH", "USERPASS"}, Greeting(s, offered) PROVE OInv'
  <2> DEFINE choice == ChosenMethod(offered)
             next == [USERPASS |-> "AUTH", NO_AUTH |-> "REQUEST",
                      NO_ACCEPTABLE |-> "CLOSING"][choice]
             d == [c EXCEPT !.stage = next, !.reply = choice]
  <2>1. /\ c.stage = "GREETING" /\ state' = [state EXCEPT ![s] = d]
        /\ UNCHANGED <<job, metrics, access_log>>
    BY <1>5 DEF Greeting, Receives, Await, jobVars, bookVars
  <2>2. choice \in {"USERPASS", "NO_AUTH", "NO_ACCEPTABLE"}
    BY DEF ChosenMethod
  <2> HIDE DEF choice
  <2>3. next \in {"AUTH", "REQUEST", "CLOSING"}
    BY <2>2
  <2> HIDE DEF next, c
  <2>4. d.stage = next /\ d.access_logged = c.access_logged
    BY <1>1 DEF State
  <2> HIDE DEF d
  <2>5. ~d.access_logged /\ d.stage \notin {"RESOLVING", "CONNECTING"} /\ NoOutcome
    BY <1>3, <2>1, <2>3, <2>4 DEF Undecided, NoOutcome
  <2>6. QED BY <2>1, <2>5, EarlyStep DEF Undecided, c
<1>6. ASSUME NEW credentials \in UserPool \cup {"wrong"}, Authenticate(s, credentials)
      PROVE  OInv'
  <2> DEFINE d == IF credentials \in users
                  THEN [c EXCEPT !.stage = "REQUEST", !.reply = "AUTH_SUCCESS",
                                 !.user = credentials]
                  ELSE [c EXCEPT !.stage = "CLOSING", !.reply = "AUTH_FAILURE"]
  <2>1. /\ c.stage = "AUTH" /\ state' = [state EXCEPT ![s] = d]
        /\ UNCHANGED <<job, metrics, access_log>>
    BY <1>6 DEF Authenticate, Receives, Await, jobVars, bookVars
  <2> HIDE DEF c
  <2>2. d.stage \in {"REQUEST", "CLOSING"} /\ d.access_logged = c.access_logged
    BY <1>1 DEF State
  <2> HIDE DEF d
  <2>3. ~d.access_logged /\ d.stage \notin {"RESOLVING", "CONNECTING"} /\ NoOutcome
    BY <1>3, <2>1, <2>2 DEF Undecided, NoOutcome
  <2>4. QED BY <2>1, <2>3, EarlyStep DEF Undecided, c
<1>7. CASE ClientLeaves(s) \/ ReplyFails(s) \/ RelayEnds(s)
  BY <1>7, CloseDecides DEF ClientLeaves, ReplyFails, RelayEnds
<1>8. ASSUME NEW r, RejectRequest(s, r) PROVE OInv'
  <2>1. RefuseRequest(s, c, r) /\ c.stage = "REQUEST" /\ job' = job
    BY <1>8 DEF RejectRequest, Receives, jobVars
  <2>2. QED BY <1>1, <1>2, <2>1, RefuseDecides DEF Undecided
<1>9. CASE BeginAddress(s)
  <2> DEFINE d == [c EXCEPT !.err = "0", !.dest = TRUE, !.access_logged = FALSE,
                            !.addrs = <<"inet">>]
  <2>1. Connect(s, d) /\ c.stage = "REQUEST" /\ job' = job
    BY <1>9 DEF BeginAddress, Receives, jobVars
  <2>2. <<"inet">> \in Seq({"inet", "other"})
    OBVIOUS
  <2> HIDE DEF c
  <2>3. d \in State /\ d.dest /\ ~d.access_logged
    BY <1>1, <2>2 DEF State
  <2> HIDE DEF d
  <2>4. QED BY <1>2, <2>1, <2>3, ConnectDecides DEF Undecided, c
<1>10. ASSUME NEW named \in BOOLEAN, BeginDomain(s, named) PROVE OInv'
  <2> DEFINE d == [c EXCEPT !.err = "0", !.dest = named, !.access_logged = FALSE]
             e == [d EXCEPT !.stage = "RESOLVING", !.has_job = TRUE]
             j == [NoJob EXCEPT !.mem = "live", !.named = named, !.waiting = TRUE]
  <2>1. /\ c.stage = "REQUEST"
        /\ \/ /\ job' = [job EXCEPT ![s] = j] /\ state' = [state EXCEPT ![s] = e]
              /\ UNCHANGED <<metrics, access_log>>
           \/ RefuseRequest(s, d, "GENERAL") /\ job' = job
    BY <1>10 DEF BeginDomain, Receives, Await, jobVars
  <2>2. j.named = named /\ j.status = "EAI_AGAIN"
    BY DEF NoJob
  <2> HIDE DEF c, j
  <2>3. d \in State /\ d.dest = named /\ d.access_logged = FALSE
    BY <1>1 DEF State
  <2> HIDE DEF d
  <2>4. e.stage = "RESOLVING" /\ e.dest = named /\ ~e.access_logged
    BY <2>3 DEF State
  <2> HIDE DEF e
  <2>5. CASE RefuseRequest(s, d, "GENERAL") /\ job' = job
    BY <1>2, <2>1, <2>3, <2>5, RefuseDecides DEF Undecided, c
  <2>6. CASE /\ job' = [job EXCEPT ![s] = j] /\ state' = [state EXCEPT ![s] = e]
             /\ UNCHANGED <<metrics, access_log>>
    <3>1. job'[s] = j /\ state'[s] = e /\ OthersAlone(s)
      BY <2>6, Known DEF OthersAlone
    <3>2. access_log'[s] = <<>>
      BY <1>1, <2>1, <2>6 DEF SessionInv, Undecided, c
    <3>3. SessionInv(s)'
      BY <2>2, <2>4, <3>1, <3>2 DEF SessionInv
    <3>4. NoOutcome
      BY <2>6 DEF NoOutcome
    <3>5. QED BY <2>1, <3>1, <3>3, <3>4, NoOutcomeKeeps DEF Undecided, c
  <2>7. QED BY <2>1, <2>5, <2>6
<1>11. CASE ConnectSucceeds(s)
  <2> DEFINE d == [c EXCEPT !.stage = "RELAY", !.reply = "SUCCESS",
                            !.access_logged = c.access_logged \/ c.dest]
  <2>1. /\ c.stage = "CONNECTING" /\ state' = [state EXCEPT ![s] = d]
        /\ metrics' = [metrics EXCEPT !.successful = @ + 1]
        /\ access_log' = AccessLog(s, c, TRUE) /\ job' = job
    BY <1>1, <1>11 DEF ConnectSucceeds, jobVars, State
  <2>2. c.stage \in Undecided /\ c.dest /\ ~c.access_logged
    BY <1>1, <2>1 DEF SessionInv, Undecided
  <2>3. access_log' = [access_log EXCEPT ![s] = <<TRUE>>]
    BY <2>1, <2>2, LogLine
  <2> HIDE DEF c
  <2>4. d.stage = "RELAY"
    BY <1>1 DEF State
  <2> HIDE DEF d
  <2>5. state'[s] = d /\ OthersAlone(s)
    BY <2>1, Known DEF OthersAlone
  <2>6. metrics'.successful = metrics.successful + 1 /\ metrics'.failed = metrics.failed
    BY <1>1, <2>1 DEF Metrics
  <2>7. state'[s].stage \notin Undecided
    BY <2>4, <2>5 DEF Undecided
  <2>8. QED BY <2>1, <2>2, <2>3, <2>5, <2>6, <2>7, SuccessKeeps DEF c
<1>12. CASE ConnectFails(s)
  <2>1. PICK x \in Errnos : Connect(s, [c EXCEPT !.err = x])
    BY <1>12 DEF ConnectFails
  <2> DEFINE d == [c EXCEPT !.err = x]
  <2>2. c.stage = "CONNECTING" /\ job' = job
    BY <1>12 DEF ConnectFails, jobVars
  <2>3. c.stage \in Undecided /\ c.dest /\ ~c.access_logged
    BY <1>1, <2>2 DEF SessionInv, Undecided
  <2> HIDE DEF c
  <2>4. d \in State /\ d.dest /\ ~d.access_logged
    BY <1>1, <2>3 DEF State
  <2>5. Connect(s, d)
    BY <2>1
  <2> HIDE DEF d
  <2>6. QED BY <1>2, <2>2, <2>3, <2>4, <2>5, ConnectDecides DEF c
<1>13. CASE ReplySent(s)
  <2>1. CASE c.stage = "CLOSING"
    BY <1>13, <2>1, CloseDecides DEF ReplySent
  <2>2. CASE c.stage # "CLOSING"
    <3> DEFINE d == [c EXCEPT !.reply = "nothing", !.relay_started = (c.stage = "RELAY")]
    <3>1. state' = [state EXCEPT ![s] = d] /\ UNCHANGED <<job, metrics, access_log>>
      BY <1>13, <2>2, Known DEF ReplySent
    <3> HIDE DEF c
    <3>2. d.stage = c.stage /\ d.dest = c.dest /\ d.access_logged = c.access_logged
      BY <1>1 DEF State
    <3> HIDE DEF d
    <3>3. state'[s] = d /\ OthersAlone(s)
      BY <3>1, Known DEF OthersAlone
    <3>4. SessionInv(s)'
      BY <1>1, <3>1, <3>2, <3>3 DEF SessionInv, c
    <3>5. NoOutcome
      BY <3>1 DEF NoOutcome
    <3>6. QED BY <3>2, <3>3, <3>4, <3>5, NoOutcomeKeeps DEF c
  <2>3. QED BY <2>1, <2>2
<1>14. QED
  BY <1>4, <1>5, <1>6, <1>7, <1>8, <1>9, <1>10, <1>11, <1>12, <1>13 DEF Serve

\* The threads: only a name that is not empty resolves.
LEMMA ThreadDecides ==
    ASSUME IInv, OInv, NEW s \in Sessions, Thread(s)
    PROVE  OInv'
<1>1. UNCHANGED <<state, access_log, metrics>>
  BY DEF Thread, resolve_target, Enqueue, EnqueueFails, SignalMain, FreeJob,
         sessionVars, bookVars
<1> DEFINE j == job[s]
<1>2. j \in Job /\ (j.status = "OK" => j.named)
  BY Known DEF SessionInv
<1>3. ASSUME NEW k, job' = [job EXCEPT ![s] = k], k.named = j.named,
             k.status = "OK" => k.named
      PROVE  OInv'
  <2>1. job'[s] = k /\ OthersAlone(s)
    BY <1>1, <1>3, Known DEF OthersAlone
  <2>2. SessionInv(s)'
    BY <1>1, <1>3, <2>1, Known DEF SessionInv
  <2>3. NoOutcome
    BY <1>1 DEF NoOutcome
  <2>4. QED BY <1>1, <2>1, <2>2, <2>3, NoOutcomeKeeps
<1>4. CASE resolve_target(s)
  <2>1. PICK answer \in {[status |-> g, result |-> <<>>] : g \in GaiErrors}
                          \cup {[status |-> "OK", result |-> a] : a \in Answers} :
            /\ answer.status = "OK" => j.named
            /\ job' = [job EXCEPT ![s] = [j EXCEPT !.status = answer.status,
                                                   !.result = answer.result, !.done = TRUE]]
    BY <1>4, Known DEF resolve_target
  <2> DEFINE k == [j EXCEPT !.status = answer.status, !.result = answer.result, !.done = TRUE]
  <2> HIDE DEF j
  <2>2. k.named = j.named /\ k.status = answer.status
    BY <1>2 DEF Job
  <2>3. job' = [job EXCEPT ![s] = k] /\ (k.status = "OK" => k.named)
    BY <2>1, <2>2
  <2> HIDE DEF k
  <2>4. QED BY <1>3, <2>2, <2>3
<1>5. CASE FreeJob(s)
  <2> DEFINE k == [j EXCEPT !.mem = "freed", !.result = <<>>]
  <2>1. job' = [job EXCEPT ![s] = k]
    BY <1>5, Known DEF FreeJob
  <2> HIDE DEF j
  <2>2. k.named = j.named /\ k.status = j.status
    BY <1>2 DEF Job
  <2> HIDE DEF k
  <2>3. QED BY <1>2, <1>3, <2>1, <2>2
<1>6. CASE Enqueue(s) \/ EnqueueFails(s) \/ SignalMain(s)
  <2>1. job' = job
    BY <1>6 DEF Enqueue, EnqueueFails, SignalMain
  <2>2. QED BY <1>1, <2>1, SameOutcomes
<1>7. QED BY <1>4, <1>5, <1>6 DEF Thread

\* A notification: an answer that names addresses is of a session with a
\* destination.
LEMMA HandleNoteDecides ==
    ASSUME IInv, OInv, HandleNote
    PROVE  OInv'
<1>1. notes # <<>> /\ notes \in Seq(Sessions)
  BY DEF HandleNote, IInv, TypeOK
<1>2. Head(notes) \in Sessions
  BY <1>1
<1> PICK s \in Sessions : s = Head(notes)
  BY <1>2
<1>3. CASE UNCHANGED <<sessionVars, job, metrics, access_log>>
  BY <1>3, SameOutcomes DEF sessionVars
<1>4. CASE state[s].stage = "RESOLVING" /\ OnResolve(s)
  <2> DEFINE c == [state[s] EXCEPT !.has_job = FALSE]
             j == job[s]
             k == [j EXCEPT !.mem = "freed", !.waiting = FALSE, !.result = <<>>]
  <2>1. /\ job' = [job EXCEPT ![s] = k]
        /\ IF j.status # "OK"
           THEN RefuseRequest(s, c, socks5_reply_for_gai_error(j.status))
           ELSE Connect(s, [c EXCEPT !.addrs = j.result])
    BY <1>4, Known DEF OnResolve
  <2>2. j \in Job /\ (j.status = "OK" => j.named) /\ j.result \in Answers \cup {<<>>}
    BY Known DEF SessionInv, Job
  <2>3. /\ c \in State /\ c.dest = state[s].dest /\ ~c.access_logged
        /\ (c.dest <=> j.named)
    <3>1. state[s] \in State /\ ~state[s].access_logged /\ (state[s].dest <=> j.named)
      BY <1>4, Known DEF SessionInv, Undecided
    <3>2. QED BY <3>1 DEF State
  <2> HIDE DEF c, j
  <2>4. k.status = j.status /\ k.named = j.named
    BY <2>2 DEF Job
  <2> HIDE DEF k
  <2>5. job'[s] = k /\ \A t \in Sessions \ {s} : job'[t] = job[t]
    BY <2>1, Known
  <2>6. job'[s].status = "OK" => job'[s].named
    BY <2>2, <2>4, <2>5
  <2>7. CASE j.status # "OK"
    BY <1>4, <2>1, <2>3, <2>5, <2>6, <2>7, RefuseDecides DEF Undecided
  <2>8. CASE j.status = "OK"
    <3> DEFINE d == [c EXCEPT !.addrs = j.result]
    <3>1. Connect(s, d)
      BY <2>1, <2>8
    <3>2. j.result \in Seq({"inet", "other"})
      <4>1. CASE j.result = <<>>
        BY <4>1
      <4>2. CASE j.result \in Answers
        BY <4>2, AnswersAssumption
      <4>3. QED BY <2>2, <4>1, <4>2
    <3>3. d \in State /\ d.dest = c.dest /\ d.access_logged = c.access_logged
      BY <2>3, <3>2 DEF State
    <3> HIDE DEF d
    <3>4. d.dest /\ ~d.access_logged
      BY <2>2, <2>3, <2>8, <3>3
    <3>5. QED BY <1>4, <2>5, <2>6, <3>1, <3>3, <3>4, ConnectDecides DEF Undecided
  <2>9. QED BY <2>7, <2>8
<1>5. QED BY <1>3, <1>4 DEF HandleNote

\* The loop.
LEMMA LoopDecides ==
    ASSUME IInv, OInv, Loop
    PROVE  OInv'
<1>1. ASSUME NEW x \in registered, DestroyItem(x) PROVE OInv'
  <2>1. CASE x[2] = "client"
    <3>1. x[1] \in Sessions
      <4>1. PICK s \in Sessions : x = Client(s) \/ x = Target(s)
        BY DEF IInv, TypeOK, Descriptors, Client, Target
      <4>2. QED BY <4>1 DEF Client, Target
    <3>2. client_close(x[1]) /\ access_log' = access_log
      BY <1>1, <2>1 DEF DestroyItem
    <3>3. QED BY <3>1, <3>2, CloseDecides
  <2>2. CASE x[2] # "client"
    BY <1>1, <2>2, SameOutcomes DEF DestroyItem, target_close
  <2>3. QED BY <2>1, <2>2
<1>2. CASE EndIteration \/ NotesHandled \/ Check \/ While \/ Drain \/ DestroySelector \/ Exit
  <2>1. UNCHANGED <<state, job, access_log, metrics>>
    BY <1>2 DEF EndIteration, NotesHandled, Check, While, Drain, DestroySelector, Exit,
                sessionVars, jobVars, bookVars
  <2>2. QED BY <2>1, SameOutcomes
<1>3. QED BY <1>1, <1>2, HandleNoteDecides DEF Loop

\* The third invariant holds together with the first.
LEMMA OutcomeInductive == Spec => [](IInv /\ OInv)
<1>1. Init => OInv
  <2> SUFFICES ASSUME Init PROVE OInv
    OBVIOUS
  <2>1. ASSUME NEW s \in Sessions
        PROVE  /\ state[s].stage = "UNBORN" /\ ~state[s].access_logged
               /\ access_log[s] = <<>> /\ job[s].status = "EAI_AGAIN"
    BY DEF Init, NewState, NoJob
  <2>2. \A s \in Sessions : SessionInv(s)
    BY <2>1 DEF SessionInv
  <2>3. <<>> # <<TRUE>> /\ <<>> # <<FALSE>>
    OBVIOUS
  <2>4. Won = {} /\ Lost = {}
    BY <2>1, <2>3 DEF Won, Lost
  <2>5. Decided = {}
    BY <2>1 DEF Decided, Undecided
  <2>6. metrics.successful = 0 /\ metrics.failed = 0
    BY DEF Init
  <2>7. QED BY <2>2, <2>4, <2>5, <2>6, FS_EmptySet DEF OInv
<1>2. IInv /\ OInv /\ [Next]_vars => OInv'
  <2> SUFFICES ASSUME IInv, OInv, [Next]_vars PROVE OInv'
    OBVIOUS
  <2>1. ASSUME NEW u \in UserPool, users_add(u) \/ users_remove(u) PROVE OInv'
    BY <2>1, SameOutcomes DEF users_add, users_remove, sessionVars, jobVars, bookVars
  <2>2. CASE sigterm_handler \/ UNCHANGED vars
    BY <2>2, SameOutcomes DEF sigterm_handler, vars, sessionVars, jobVars, bookVars
  <2>3. QED BY <2>1, <2>2, ServeDecides, ThreadDecides, LoopDecides DEF Next
<1>3. QED BY <1>1, <1>2, InitKeeps, NextKeeps, PTL DEF Spec

\* A session has at most one line in the access log; successful_connections is
\* the number of lines that report a success, failed_connections counts at
\* least those that report a failure, and no session is counted twice.
THEOREM OutcomesAreSingle == Spec => []OneOutcome
<1>1. IInv /\ OInv => OneOutcome
  BY OInvImplies
<1>2. QED BY <1>1, OutcomeInductive, PTL

-----------------------------------------------------------------------------
(* The abstract service *)

\* The reply being sent, and the user, that a state c of a session may have.
WordFits(c) ==
    /\ c.stage = "GREETING" => c.reply = "nothing"
    /\ c.stage = "AUTH" => c.reply \in {"nothing", "USERPASS"}
    /\ c.stage = "REQUEST" =>
          c.reply \in {"nothing", IF c.user = "anonymous" THEN "NO_AUTH" ELSE "AUTH_SUCCESS"}
    /\ c.stage = "RELAY" => c.reply \in {"nothing", "SUCCESS"}
    /\ c.stage = "CLOSING" => c.reply \in Refusals
    /\ c.stage \in {"UNBORN", "GREETING", "AUTH", "FREED"} => c.user = "anonymous"

\* A job that has been resolved has an address that can be tried.
HasAnswer(j) == j.mem = "live" /\ j.status = "OK" => j.result \in Answers

\* The fourth invariant, inductive together with IInv.
ServiceInv == \A s \in Sessions : WordFits(state[s]) /\ HasAnswer(job[s])

\* What a step means to the clients.
Refined == ServiceInv' /\ [Service!Next]_Service!vars

-----------------------------------------------------------------------------
(* Errors and replies *)

\* No error is reported as a success.
LEMMA ErrorsRefuse ==
    /\ \A e \in Errnos : socks5_reply_for_errno(e) \in Refusals
    /\ \A g : g # "OK" => socks5_reply_for_gai_error(g) \in Refusals
<1>1. ASSUME NEW e \in Errnos PROVE socks5_reply_for_errno(e) \in Refusals
  <2>1. e # "0"
    BY SetsAssumption
  <2>2. QED BY <2>1 DEF socks5_reply_for_errno, Refusals, Failures
<1>2. ASSUME NEW g, g # "OK" PROVE socks5_reply_for_gai_error(g) \in Refusals
  BY <1>2 DEF socks5_reply_for_gai_error, Refusals, Failures
<1>3. QED BY <1>1, <1>2

\* A request fails for an error if one is remembered or an address can be tried.
LEMMA ExhaustedByError ==
    ASSUME NEW addrs \in Seq({"inet", "other"}), NEW err,
           err \in Errnos \/ \E i \in 1 .. Len(addrs) : addrs[i] = "inet",
           NEW a \in Attempts(addrs, err), ~a.ok
    PROVE  a.err \in Errnos
<1>1. a \in Exhausted(addrs, err)
  BY DEF Attempts, Started
<1>2. a.err \in ErrorsAfter(addrs, err, Len(addrs))
  BY <1>1 DEF Exhausted
<1>3. QED BY <1>2 DEF ErrorsAfter

-----------------------------------------------------------------------------
(* What a step of one session is to the clients *)

\* Two functions that differ in one value.
LEMMA OneValue ==
    ASSUME NEW S, NEW s \in S, NEW v, NEW f, NEW g,
           f = [t \in S |-> f[t]], g = [t \in S |-> g[t]],
           g[s] = v, \A t \in S \ {s} : g[t] = f[t]
    PROVE  g = [f EXCEPT ![s] = v]
<1>1. [f EXCEPT ![s] = v] = [t \in S |-> IF t = s THEN v ELSE f[t]]
  OBVIOUS
<1>2. \A t \in S : g[t] = IF t = s THEN v ELSE f[t]
  OBVIOUS
<1>3. QED BY <1>1, <1>2

\* Standing in terms of the state of one session.
StandingIn(c) ==
    LET st == c.stage
    IN  CASE st = "UNBORN" -> "none"
          [] st \in {"GREETING", "AUTH"} -> "open"
          [] st \in {"REQUEST", "RESOLVING", "CONNECTING"} -> "cleared"
          [] st = "RELAY" -> IF c.relay_started THEN "granted" ELSE "linked"
          [] st = "CLOSING" -> "refused"
          [] st = "FREED" -> "gone"

\* The view of the clients in terms of it, before and after a step.
LEMMA View ==
    /\ [t \in Sessions |-> Standing(t)] = [t \in Sessions |-> StandingIn(state[t])]
    /\ [t \in Sessions |-> Standing(t)]' = [t \in Sessions |-> StandingIn(state'[t])]
BY DEF Standing, StandingIn

\* The view of the clients after session s has got state c.
LEMMA ViewAfter ==
    ASSUME IInv, NEW s \in Sessions, NEW c, state' = [state EXCEPT ![s] = c]
    PROVE  /\ state'[s] = c
           /\ \A t \in Sessions \ {s} : state'[t] = state[t]
           /\ [t \in Sessions |-> Standing(t)]' =
                 [[t \in Sessions |-> Standing(t)] EXCEPT ![s] = StandingIn(c)]
           /\ [t \in Sessions |-> Standing(t)][s] = StandingIn(state[s])
           /\ [t \in Sessions |-> state[t].user]' =
                 [[t \in Sessions |-> state[t].user] EXCEPT ![s] = c.user]
<1>1. state'[s] = c /\ \A t \in Sessions \ {s} : state'[t] = state[t]
  BY DEF IInv, TypeOK
<1> DEFINE f == [t \in Sessions |-> StandingIn(state[t])]
           g == [t \in Sessions |-> StandingIn(state'[t])]
           h == [t \in Sessions |-> state[t].user]
           k == [t \in Sessions |-> state'[t].user]
<1>2. g = [f EXCEPT ![s] = StandingIn(c)]
  <2>1. /\ f = [t \in Sessions |-> f[t]] /\ g = [t \in Sessions |-> g[t]]
        /\ g[s] = StandingIn(c) /\ \A t \in Sessions \ {s} : g[t] = f[t]
    BY <1>1
  <2> HIDE DEF f, g
  <2>2. QED BY <2>1, OneValue
<1>3. k = [h EXCEPT ![s] = c.user]
  <2>1. /\ h = [t \in Sessions |-> h[t]] /\ k = [t \in Sessions |-> k[t]]
        /\ k[s] = c.user /\ \A t \in Sessions \ {s} : k[t] = h[t]
    BY <1>1
  <2> HIDE DEF h, k
  <2>2. QED BY <2>1, OneValue
<1>4. [t \in Sessions |-> StandingIn(state[t])][s] = StandingIn(state[s])
  OBVIOUS
<1>5. [t \in Sessions |-> state[t].user]' = [t \in Sessions |-> state'[t].user]
  OBVIOUS
<1>6. QED BY <1>1, <1>2, <1>3, <1>4, <1>5, View

\* The fourth invariant after such a step.
LEMMA ServiceInvKeeps ==
    ASSUME IInv, ServiceInv, NEW s \in Sessions, NEW c, state' = [state EXCEPT ![s] = c],
           \A t \in Sessions \ {s} : job'[t] = job[t], WordFits(c), HasAnswer(job'[s])
    PROVE  ServiceInv'
<1>1. state'[s] = c /\ \A t \in Sessions \ {s} : state'[t] = state[t]
  BY ViewAfter
<1>2. ASSUME NEW t \in Sessions PROVE WordFits(state'[t]) /\ HasAnswer(job'[t])
  BY <1>1 DEF ServiceInv
<1>3. QED BY <1>2 DEF ServiceInv, WordFits, HasAnswer

\* Nothing the client can see.
LEMMA Unseen ==
    ASSUME IInv, NEW s \in Sessions, NEW c, state' = [state EXCEPT ![s] = c],
           StandingIn(c) = StandingIn(state[s]), c.user = state[s].user, UNCHANGED <<told, users>>
    PROVE  [Service!Next]_Service!vars
<1>1. [t \in Sessions |-> Standing(t)]' = [t \in Sessions |-> Standing(t)]
  BY ViewAfter, View
<1>2. [t \in Sessions |-> state[t].user]' = [t \in Sessions |-> state[t].user]
  BY ViewAfter
<1>3. QED BY <1>1, <1>2 DEF Service!vars

\* Session s is refused: its state c is to be closed, with a refusal to be sent.
LEMMA Refused ==
    ASSUME IInv, ServiceInv, NEW s \in Sessions, NEW c, state' = [state EXCEPT ![s] = c],
           StandingIn(state[s]) \in {"open", "cleared"},
           c.stage = "CLOSING", c.reply \in Refusals, c.user = state[s].user,
           UNCHANGED <<told, users>>,
           \A t \in Sessions \ {s} : job'[t] = job[t], HasAnswer(job'[s])
    PROVE  Refined
<1>1. StandingIn(c) = "refused" /\ WordFits(c)
  BY DEF StandingIn, WordFits
<1>2. ServiceInv'
  BY <1>1, ServiceInvKeeps
<1>3. Service!Refuse(s)
  <2>1. [t \in Sessions |-> state[t].user]' = [t \in Sessions |-> state[t].user]
    BY ViewAfter
  <2>2. /\ [t \in Sessions |-> Standing(t)][s] \in {"open", "cleared"}
        /\ [t \in Sessions |-> Standing(t)]'
              = [[t \in Sessions |-> Standing(t)] EXCEPT ![s] = "refused"]
    BY <1>1, ViewAfter
  <2>3. QED BY <2>1, <2>2 DEF Service!Refuse, Service!Move
<1>4. QED BY <1>2, <1>3 DEF Refined, Service!Next

\* RefuseRequest, whoever calls it.
LEMMA RequestRefused ==
    ASSUME IInv, ServiceInv, NEW s \in Sessions, NEW c \in State, NEW r \in Refusals,
           RefuseRequest(s, c, r), StandingIn(state[s]) = "cleared", c.user = state[s].user,
           UNCHANGED <<told, users>>,
           \A t \in Sessions \ {s} : job'[t] = job[t], HasAnswer(job'[s])
    PROVE  Refined
<1> DEFINE d == [c EXCEPT !.stage = "CLOSING", !.reply = r, !.access_logged = @ \/ c.dest]
<1>1. state' = [state EXCEPT ![s] = d]
  BY DEF Refuses, RefuseRequest
<1>2. d.stage = "CLOSING" /\ d.reply = r /\ d.user = c.user
  BY DEF State
<1> HIDE DEF d
<1>3. QED BY <1>1, <1>2, Refused

\* Connect, whoever calls it: the client sees nothing, or its request is refused.
LEMMA ConnectRefines ==
    ASSUME IInv, ServiceInv, NEW s \in Sessions, NEW c \in State, Connect(s, c),
           c.err \in Errnos \/ \E i \in 1 .. Len(c.addrs) : c.addrs[i] = "inet",
           StandingIn(state[s]) = "cleared", c.user = state[s].user,
           UNCHANGED <<told, users>>,
           \A t \in Sessions \ {s} : job'[t] = job[t], HasAnswer(job'[s])
    PROVE  Refined
<1>1. PICK a \in Attempts(c.addrs, c.err) :
        LET d == [c EXCEPT !.addrs = a.left, !.err = a.err]
        IN  IF a.ok
            THEN state' = [state EXCEPT ![s] = [d EXCEPT !.stage = "CONNECTING"]]
            ELSE RefuseRequest(s, d, socks5_reply_for_errno(a.err))
  BY ConnectCases
<1> DEFINE d == [c EXCEPT !.addrs = a.left, !.err = a.err]
<1>2. a.ok \in BOOLEAN /\ a.left \in Seq({"inet", "other"}) /\ a.err \in Errnos \cup {"0"}
  BY AttemptsType DEF State
<1>3. d \in State /\ d.user = c.user
  BY <1>2 DEF State
<1>4. CASE ~a.ok
  <2>1. c.addrs \in Seq({"inet", "other"})
    BY DEF State
  <2>2. socks5_reply_for_errno(a.err) \in Refusals
    BY <1>4, <2>1, ExhaustedByError, ErrorsRefuse
  <2>3. RefuseRequest(s, d, socks5_reply_for_errno(a.err))
    BY <1>1, <1>4
  <2> HIDE DEF d
  <2>4. QED BY <1>3, <2>2, <2>3, RequestRefused
<1>5. CASE a.ok
  <2> DEFINE e == [d EXCEPT !.stage = "CONNECTING"]
  <2>1. state' = [state EXCEPT ![s] = e]
    BY <1>1, <1>5
  <2> HIDE DEF d
  <2>2. e.stage = "CONNECTING" /\ e.user = c.user
    BY <1>3 DEF State
  <2> HIDE DEF e
  <2>3. StandingIn(e) = "cleared" /\ WordFits(e)
    BY <2>2 DEF StandingIn, WordFits
  <2>4. ServiceInv' /\ [Service!Next]_Service!vars
    BY <2>1, <2>2, <2>3, ServiceInvKeeps, Unseen
  <2>5. QED BY <2>4 DEF Refined
<1>6. QED BY <1>2, <1>4, <1>5

\* What target_connection_detach_resolver leaves to the thread.
LEMMA DetachKeepsAnswer ==
    ASSUME IInv, ServiceInv, NEW s \in Sessions
    PROVE  HasAnswer(Detach(s))
<1> DEFINE j == job[s]
<1>1. j \in Job /\ HasAnswer(j)
  BY DEF IInv, TypeOK, ServiceInv
<1>2. Detach(s) = IF ~state[s].has_job THEN j
                  ELSE [j EXCEPT !.waiting = FALSE,
                                 !.mem = IF j.done THEN "freed" ELSE j.mem,
                                 !.result = IF j.done THEN <<>> ELSE j.result]
  BY <1>1 DEF Detach, DetachedMem, Job
<1> HIDE DEF j
<1>3. CASE j.done
  BY <1>1, <1>2, <1>3 DEF HasAnswer, Job
<1>4. CASE ~j.done
  BY <1>1, <1>2, <1>4 DEF HasAnswer, Job
<1>5. QED BY <1>3, <1>4

\* client_close: the client leaves, or is dismissed with its refusal.
LEMMA CloseRefines ==
    ASSUME IInv, ServiceInv, NEW s \in Sessions, client_close(s), Live(s), users' = users,
           \/ told' = told
           \/ /\ state[s].stage = "CLOSING"
              /\ told' = [told EXCEPT ![s] = state[s].reply]
    PROVE  Refined
<1> DEFINE f == [NewState EXCEPT !.stage = "FREED"]
<1>1. f.stage = "FREED" /\ f.user = "anonymous"
  BY DEF NewState
<1>2. state' = [state EXCEPT ![s] = f] /\ job' = [job EXCEPT ![s] = Detach(s)]
  BY DEF client_close
<1> HIDE DEF f
<1>3. job'[s] = Detach(s) /\ \A t \in Sessions \ {s} : job'[t] = job[t]
  BY <1>2 DEF IInv, TypeOK
<1>4. StandingIn(f) = "gone" /\ WordFits(f)
  BY <1>1 DEF StandingIn, WordFits
<1>5. ServiceInv'
  BY <1>2, <1>3, <1>4, DetachKeepsAnswer, ServiceInvKeeps
<1>6. /\ [t \in Sessions |-> Standing(t)]' =
             [[t \in Sessions |-> Standing(t)] EXCEPT ![s] = "gone"]
      /\ [t \in Sessions |-> Standing(t)][s] = StandingIn(state[s])
      /\ [t \in Sessions |-> state[t].user]' =
             [[t \in Sessions |-> state[t].user] EXCEPT ![s] = "anonymous"]
  BY <1>1, <1>2, <1>4, ViewAfter
<1>7. CASE told' = told
  <2>1. StandingIn(state[s]) \notin {"none", "gone"}
    <3>1. state[s].stage \in Stages
      BY DEF IInv, TypeOK, State
    <3>2. QED BY <3>1 DEF StandingIn, Live, Stages
  <2>2. Service!Leave(s)
    BY <1>7, <1>6, <2>1 DEF Service!Leave
  <2>3. QED BY <1>5, <2>2 DEF Refined, Service!Next
<1>8. CASE /\ state[s].stage = "CLOSING"
           /\ told' = [told EXCEPT ![s] = state[s].reply]
  <2>1. StandingIn(state[s]) = "refused"
    BY <1>8 DEF StandingIn
  <2>2. state[s].reply \in Refusals
    BY <1>8 DEF ServiceInv, WordFits
  <2>3. Service!Dismiss(s)
    BY <1>8, <1>6, <2>1, <2>2 DEF Service!Dismiss, Service!Move
  <2>4. QED BY <1>5, <2>3 DEF Refined, Service!Next
<1>9. QED BY <1>7, <1>8

\* A step that neither touches a session nor tells anything to a client.
LEMMA NothingSeen ==
    ASSUME ServiceInv, UNCHANGED <<state, job, told, users>>
    PROVE  Refined
<1>1. ServiceInv'
  BY DEF ServiceInv
<1>2. [t \in Sessions |-> Standing(t)]' = [t \in Sessions |-> Standing(t)]
  BY View
<1>3. UNCHANGED Service!vars
  BY <1>2 DEF Service!vars
<1>4. QED BY <1>1, <1>3 DEF Refined

\* A step of a thread: its client sees nothing.
LEMMA JobStep ==
    ASSUME IInv, ServiceInv, NEW s \in Sessions, NEW k, job' = [job EXCEPT ![s] = k],
           HasAnswer(k), UNCHANGED <<state, told, users>>
    PROVE  Refined
<1>1. ASSUME NEW t \in Sessions PROVE WordFits(state'[t]) /\ HasAnswer(job'[t])
  BY DEF ServiceInv, IInv, TypeOK
<1>2. ServiceInv'
  BY <1>1 DEF ServiceInv, WordFits, HasAnswer
<1>3. [t \in Sessions |-> Standing(t)]' = [t \in Sessions |-> Standing(t)]
  BY View
<1>4. UNCHANGED Service!vars
  BY <1>3 DEF Service!vars
<1>5. QED BY <1>2, <1>4 DEF Refined

-----------------------------------------------------------------------------
(* The steps *)

\* What is known of a session before a step.
LEMMA SessionKnown ==
    ASSUME IInv, ServiceInv, NEW s \in Sessions
    PROVE  /\ state \in [Sessions -> State] /\ job \in [Sessions -> Job]
           /\ state[s] \in State /\ job[s] \in Job
           /\ WordFits(state[s]) /\ HasAnswer(job[s])
           /\ Serves(Client(s), "W") => Live(s)
           /\ Serves(Client(s), "R") => Live(s)
<1>1. Serves(Client(s), "W") \/ Serves(Client(s), "R") => Live(s)
  BY ServedIsLive
<1>2. QED BY <1>1 DEF IInv, TypeOK, ServiceInv

\* Accepting is arriving.
LEMMA AcceptRefines ==
    ASSUME IInv, ServiceInv, NEW s \in Sessions, accept_connection(s)
    PROVE  Refined
<1>1. /\ state[s].stage = "UNBORN" /\ state' = [state EXCEPT ![s] = NewState]
      /\ job' = job /\ UNCHANGED <<told, users>>
  BY DEF accept_connection, jobVars
<1>2. NewState.stage = "GREETING" /\ NewState.user = "anonymous" /\ NewState.reply = "nothing"
  BY DEF NewState
<1>3. StandingIn(NewState) = "open" /\ StandingIn(state[s]) = "none" /\ WordFits(NewState)
  BY <1>1, <1>2 DEF StandingIn, WordFits
<1>4. ServiceInv'
  BY <1>1, <1>3, SessionKnown, ServiceInvKeeps
<1>5. state[s].user = "anonymous"
  BY <1>1, SessionKnown DEF WordFits
<1>6. [t \in Sessions |-> state[t].user]' = [t \in Sessions |-> state[t].user]
  BY <1>1, <1>2, <1>5, ViewAfter
<1>7. Service!Arrive(s)
  BY <1>1, <1>3, <1>6, ViewAfter DEF Service!Arrive, Service!Move
<1>8. QED BY <1>4, <1>7 DEF Refined, Service!Next

\* A greeting is answered: nothing the client can see yet, nobody is asked for
\* credentials, or it is refused.
LEMMA GreetingRefines ==
    ASSUME IInv, ServiceInv, NEW s \in Sessions,
           NEW offered \in SUBSET {"NO_AUTH", "USERPASS"}, Greeting(s, offered)
    PROVE  Refined
<1> DEFINE c == state[s]
           choice == ChosenMethod(offered)
           next == [USERPASS |-> "AUTH", NO_AUTH |-> "REQUEST",
                    NO_ACCEPTABLE |-> "CLOSING"][choice]
           d == [c EXCEPT !.stage = next, !.reply = choice]
<1>1. /\ c.stage = "GREETING" /\ state' = [state EXCEPT ![s] = d]
      /\ job' = job /\ UNCHANGED <<told, users>>
  BY DEF Greeting, Receives, Await, jobVars, bookVars
<1>2. /\ choice \in {"USERPASS", "NO_AUTH", "NO_ACCEPTABLE"}
      /\ choice = "NO_AUTH" => users = {}
  BY DEF ChosenMethod
<1>3. c \in State /\ c.user = "anonymous" /\ HasAnswer(job'[s]) /\ StandingIn(c) = "open"
  BY <1>1, SessionKnown DEF WordFits, StandingIn
<1> HIDE DEF choice
<1>4. /\ choice = "USERPASS" => next = "AUTH"
      /\ choice = "NO_AUTH" => next = "REQUEST"
      /\ choice = "NO_ACCEPTABLE" => next = "CLOSING"
  OBVIOUS
<1> HIDE DEF next, c
<1>5. d.stage = next /\ d.reply = choice /\ d.user = "anonymous"
  BY <1>3 DEF State
<1> HIDE DEF d
<1>6. CASE choice = "NO_ACCEPTABLE"
  <2>1. "NO_ACCEPTABLE" \in Refusals
    BY DEF Refusals
  <2>2. QED BY <1>1, <1>3, <1>4, <1>5, <1>6, <2>1, Refused DEF c
<1>7. CASE choice = "USERPASS"
  <2>1. StandingIn(d) = "open" /\ WordFits(d)
    BY <1>4, <1>5, <1>7 DEF StandingIn, WordFits
  <2>2. ServiceInv' /\ [Service!Next]_Service!vars
    BY <1>1, <1>3, <1>5, <2>1, ServiceInvKeeps, Unseen DEF c
  <2>3. QED BY <2>2 DEF Refined
<1>8. CASE choice = "NO_AUTH"
  <2>1. StandingIn(d) = "cleared" /\ WordFits(d)
    BY <1>4, <1>5, <1>8 DEF StandingIn, WordFits
  <2>2. ServiceInv'
    BY <1>1, <1>3, <2>1, ServiceInvKeeps
  <2>3. [t \in Sessions |-> state[t].user]' = [t \in Sessions |-> state[t].user]
    BY <1>1, <1>3, <1>5, ViewAfter DEF c
  <2>4. /\ [t \in Sessions |-> Standing(t)]' =
              [[t \in Sessions |-> Standing(t)] EXCEPT ![s] = "cleared"]
        /\ [t \in Sessions |-> Standing(t)][s] = "open"
    BY <1>1, <1>3, <2>1, ViewAfter DEF c
  <2>5. Service!Clear(s)
    BY <1>1, <1>2, <1>8, <2>3, <2>4 DEF Service!Clear, Service!Move
  <2>6. QED BY <2>2, <2>5 DEF Refined, Service!Next
<1>9. QED BY <1>2, <1>6, <1>7, <1>8

\* Credentials clear the client as the user that has them, or it is refused.
LEMMA AuthenticateRefines ==
    ASSUME IInv, ServiceInv, NEW s \in Sessions,
           NEW credentials \in UserPool \cup {"wrong"}, Authenticate(s, credentials)
    PROVE  Refined
<1> DEFINE c == state[s]
           good == [c EXCEPT !.stage = "REQUEST", !.reply = "AUTH_SUCCESS", !.user = credentials]
           bad == [c EXCEPT !.stage = "CLOSING", !.reply = "AUTH_FAILURE"]
<1>1. /\ c.stage = "AUTH"
      /\ state' = [state EXCEPT ![s] = IF credentials \in users THEN good ELSE bad]
      /\ job' = job /\ UNCHANGED <<told, users>>
  BY DEF Authenticate, Receives, Await, jobVars, bookVars
<1>2. c \in State /\ c.user = "anonymous" /\ HasAnswer(job'[s]) /\ StandingIn(c) = "open"
  BY <1>1, SessionKnown DEF WordFits, StandingIn
<1> HIDE DEF c
<1>3. /\ good.stage = "REQUEST" /\ good.reply = "AUTH_SUCCESS" /\ good.user = credentials
      /\ bad.stage = "CLOSING" /\ bad.reply = "AUTH_FAILURE" /\ bad.user = c.user
  BY <1>2 DEF State
<1> HIDE DEF good, bad
<1>4. CASE credentials \notin users
  <2>1. "AUTH_FAILURE" \in Refusals
    BY DEF Refusals
  <2>2. QED BY <1>1, <1>2, <1>3, <1>4, <2>1, Refused DEF c
<1>5. CASE credentials \in users
  <2>1. credentials # "anonymous"
    BY <1>5, SetsAssumption DEF IInv, TypeOK
  <2>2. StandingIn(good) = "cleared" /\ WordFits(good)
    BY <1>3, <2>1 DEF StandingIn, WordFits
  <2>3. ServiceInv'
    BY <1>1, <1>2, <1>5, <2>2, ServiceInvKeeps
  <2>4. /\ [t \in Sessions |-> Standing(t)]' =
              [[t \in Sessions |-> Standing(t)] EXCEPT ![s] = "cleared"]
        /\ [t \in Sessions |-> Standing(t)][s] = "open"
        /\ [t \in Sessions |-> state[t].user]' =
              [[t \in Sessions |-> state[t].user] EXCEPT ![s] = credentials]
    <3>1. state' = [state EXCEPT ![s] = good]
      BY <1>1, <1>5
    <3>2. /\ [t \in Sessions |-> Standing(t)]' =
                [[t \in Sessions |-> Standing(t)] EXCEPT ![s] = StandingIn(good)]
          /\ [t \in Sessions |-> Standing(t)][s] = StandingIn(state[s])
          /\ [t \in Sessions |-> state[t].user]' =
                [[t \in Sessions |-> state[t].user] EXCEPT ![s] = good.user]
      BY <3>1, ViewAfter
    <3>3. QED BY <1>2, <1>3, <2>2, <3>2 DEF c
  <2>5. Service!Clear(s)
    BY <1>1, <1>5, <2>4 DEF Service!Clear, Service!Move
  <2>6. QED BY <2>3, <2>5 DEF Refined, Service!Next
<1>6. QED BY <1>4, <1>5

\* A request: it is refused, or the client sees nothing yet.
LEMMA RequestRefines ==
    ASSUME IInv, ServiceInv, NEW s \in Sessions,
           \/ \E r \in {"GENERAL", "CMD_UNSUPPORTED", "ATYP_UNSUPPORTED"} : RejectRequest(s, r)
           \/ BeginAddress(s)
           \/ \E named \in BOOLEAN : BeginDomain(s, named)
    PROVE  Refined
<1> DEFINE c == state[s]
<1>1. c.stage = "REQUEST" /\ UNCHANGED <<told, users>>
  BY DEF RejectRequest, BeginAddress, BeginDomain, Receives
<1>2. c \in State /\ HasAnswer(job[s]) /\ WordFits(c) /\ StandingIn(c) = "cleared"
  BY <1>1, SessionKnown DEF StandingIn
<1>3. ASSUME NEW r \in {"GENERAL", "CMD_UNSUPPORTED", "ATYP_UNSUPPORTED"}, RejectRequest(s, r)
      PROVE  Refined
  <2>1. RefuseRequest(s, c, r) /\ job' = job
    BY <1>3 DEF RejectRequest, jobVars
  <2>2. r \in Refusals
    BY DEF Refusals, Failures
  <2>3. QED BY <1>1, <1>2, <2>1, <2>2, RequestRefused
<1>4. CASE BeginAddress(s)
  <2> DEFINE d == [c EXCEPT !.err = "0", !.dest = TRUE, !.access_logged = FALSE,
                            !.addrs = <<"inet">>]
  <2>1. Connect(s, d) /\ job' = job
    BY <1>4 DEF BeginAddress, jobVars
  <2>2. <<"inet">> \in Seq({"inet", "other"}) /\ Len(<<"inet">>) = 1 /\ <<"inet">>[1] = "inet"
    OBVIOUS
  <2> HIDE DEF c
  <2>3. d \in State /\ d.user = c.user /\ d.addrs = <<"inet">>
    BY <1>2, <2>2 DEF State
  <2> HIDE DEF d
  <2>4. \E i \in 1 .. Len(d.addrs) : d.addrs[i] = "inet"
    BY <2>2, <2>3
  <2>5. QED BY <1>1, <1>2, <2>1, <2>3, <2>4, ConnectRefines DEF c
<1>5. ASSUME NEW named \in BOOLEAN, BeginDomain(s, named) PROVE Refined
  <2> DEFINE d == [c EXCEPT !.err = "0", !.dest = named, !.access_logged = FALSE]
             e == [d EXCEPT !.stage = "RESOLVING", !.has_job = TRUE]
             j == [NoJob EXCEPT !.mem = "live", !.named = named, !.waiting = TRUE]
  <2>1. \/ job' = [job EXCEPT ![s] = j] /\ state' = [state EXCEPT ![s] = e]
        \/ RefuseRequest(s, d, "GENERAL") /\ job' = job
    BY <1>5 DEF BeginDomain, Await, jobVars
  <2>2. j.status = "EAI_AGAIN"
    BY DEF NoJob
  <2> HIDE DEF c, j
  <2>3. d \in State /\ d.user = c.user
    BY <1>2 DEF State
  <2> HIDE DEF d
  <2>4. e.stage = "RESOLVING" /\ e.user = c.user
    BY <2>3 DEF State
  <2> HIDE DEF e
  <2>5. CASE RefuseRequest(s, d, "GENERAL") /\ job' = job
    <3>1. "GENERAL" \in Refusals
      BY DEF Refusals, Failures
    <3>2. QED BY <1>1, <1>2, <2>3, <2>5, <3>1, RequestRefused DEF c
  <2>6. CASE job' = [job EXCEPT ![s] = j] /\ state' = [state EXCEPT ![s] = e]
    <3>1. job'[s] = j /\ \A t \in Sessions \ {s} : job'[t] = job[t]
      BY <2>6, SessionKnown
    <3>2. HasAnswer(job'[s])
      BY <2>2, <3>1 DEF HasAnswer
    <3>3. StandingIn(e) = "cleared" /\ WordFits(e)
      BY <2>4 DEF StandingIn, WordFits
    <3>4. ServiceInv'
      BY <2>6, <3>1, <3>2, <3>3, ServiceInvKeeps
    <3>5. [Service!Next]_Service!vars
      BY <1>1, <1>2, <2>4, <2>6, <3>3, Unseen DEF c
    <3>6. QED BY <3>4, <3>5 DEF Refined
  <2>7. QED BY <2>1, <2>5, <2>6
<1>6. QED BY <1>3, <1>4, <1>5

\* The outcome of a connection: the client is linked, refused, or sees nothing.
LEMMA OutcomeRefines ==
    ASSUME IInv, ServiceInv, NEW s \in Sessions, ConnectSucceeds(s) \/ ConnectFails(s)
    PROVE  Refined
<1> DEFINE c == state[s]
<1>1. c.stage = "CONNECTING" /\ job' = job /\ UNCHANGED <<told, users>>
  BY DEF ConnectSucceeds, ConnectFails, jobVars
<1>2. c \in State /\ HasAnswer(job[s]) /\ StandingIn(c) = "cleared" /\ ~c.relay_started
  BY <1>1, SessionKnown DEF StandingIn, IInv, DescriptorInv
<1>3. CASE ConnectFails(s)
  <2>1. PICK x \in Errnos : Connect(s, [c EXCEPT !.err = x])
    BY <1>3 DEF ConnectFails
  <2> DEFINE d == [c EXCEPT !.err = x]
  <2> HIDE DEF c
  <2>2. d \in State /\ d.user = c.user /\ d.err = x
    BY <1>2 DEF State
  <2>3. Connect(s, d)
    BY <2>1
  <2> HIDE DEF d
  <2>4. QED BY <1>1, <1>2, <2>2, <2>3, ConnectRefines DEF c
<1>4. CASE ConnectSucceeds(s)
  <2> DEFINE d == [c EXCEPT !.stage = "RELAY", !.reply = "SUCCESS",
                            !.access_logged = c.access_logged \/ c.dest]
  <2>1. state' = [state EXCEPT ![s] = d]
    BY <1>2, <1>4 DEF ConnectSucceeds, State
  <2> HIDE DEF c
  <2>2. d.stage = "RELAY" /\ d.reply = "SUCCESS" /\ d.user = c.user /\ ~d.relay_started
    BY <1>2 DEF State
  <2> HIDE DEF d
  <2>3. StandingIn(d) = "linked" /\ WordFits(d)
    BY <2>2 DEF StandingIn, WordFits
  <2>4. ServiceInv'
    BY <1>1, <1>2, <2>1, <2>3, ServiceInvKeeps
  <2>5. /\ [t \in Sessions |-> Standing(t)]' =
              [[t \in Sessions |-> Standing(t)] EXCEPT ![s] = "linked"]
        /\ [t \in Sessions |-> Standing(t)][s] = "cleared"
        /\ [t \in Sessions |-> state[t].user]' = [t \in Sessions |-> state[t].user]
    <3>1. /\ [t \in Sessions |-> Standing(t)]' =
                [[t \in Sessions |-> Standing(t)] EXCEPT ![s] = StandingIn(d)]
          /\ [t \in Sessions |-> Standing(t)][s] = StandingIn(state[s])
          /\ [t \in Sessions |-> state[t].user]' =
                [[t \in Sessions |-> state[t].user] EXCEPT ![s] = d.user]
      BY <2>1, ViewAfter
    <3>2. QED BY <1>2, <2>2, <2>3, <3>1 DEF c
  <2>6. Service!Link(s)
    BY <1>1, <2>5 DEF Service!Link, Service!Move
  <2>7. QED BY <2>4, <2>6 DEF Refined, Service!Next
<1>5. QED BY <1>3, <1>4

\* A reply is sent: a word of the negotiation, the grant, or a dismissal.
LEMMA ReplyRefines ==
    ASSUME IInv, ServiceInv, NEW s \in Sessions, ReplySent(s)
    PROVE  Refined
<1> DEFINE c == state[s]
<1>1. /\ c.reply # "nothing" /\ Live(s) /\ users' = users
      /\ told' = [told EXCEPT ![s] = c.reply]
  BY SessionKnown DEF ReplySent
<1>2. c \in State /\ HasAnswer(job[s]) /\ WordFits(c)
  BY SessionKnown
<1>3. CASE c.stage = "CLOSING"
  <2>1. client_close(s)
    BY <1>3 DEF ReplySent
  <2>2. QED BY <1>1, <1>3, <2>1, CloseRefines
<1>4. CASE c.stage # "CLOSING"
  <2> DEFINE d == [c EXCEPT !.reply = "nothing", !.relay_started = (c.stage = "RELAY")]
  <2>1. state' = [state EXCEPT ![s] = d] /\ job' = job
    BY <1>4, SessionKnown DEF ReplySent
  <2>2. c.stage \in {"AUTH", "REQUEST", "RELAY"} /\ ~c.relay_started
    <3>1. c.stage \in Stages
      BY <1>2 DEF State
    <3>2. QED BY <1>1, <1>2, <1>4, <3>1 DEF Stages, Live, WordFits, IInv, DescriptorInv
  <2> HIDE DEF c
  <2>3. /\ d.stage = c.stage /\ d.user = c.user /\ d.reply = "nothing"
        /\ d.relay_started <=> c.stage = "RELAY"
    BY <1>2 DEF State
  <2> HIDE DEF d
  <2>4. WordFits(d)
    BY <1>2, <2>2, <2>3 DEF WordFits
  <2>5. ServiceInv'
    BY <1>2, <2>1, <2>4, ServiceInvKeeps DEF c
  <2>6. [t \in Sessions |-> state[t].user]' = [t \in Sessions |-> state[t].user]
    BY <2>1, <2>3, ViewAfter DEF c
  <2>7. /\ [t \in Sessions |-> Standing(t)]' =
              [[t \in Sessions |-> Standing(t)] EXCEPT ![s] = StandingIn(d)]
        /\ [t \in Sessions |-> Standing(t)][s] = StandingIn(c)
        /\ StandingIn(d) = StandingIn(c) =>
              [t \in Sessions |-> Standing(t)]' = [t \in Sessions |-> Standing(t)]
    <3>1. /\ [t \in Sessions |-> Standing(t)]' =
                [[t \in Sessions |-> Standing(t)] EXCEPT ![s] = StandingIn(d)]
          /\ [t \in Sessions |-> Standing(t)][s] = StandingIn(state[s])
      BY <2>1, ViewAfter
    <3> DEFINE v == [t \in Sessions |-> Standing(t)]
    <3>2. StandingIn(d) = StandingIn(c) => [v EXCEPT ![s] = StandingIn(d)] = v
      <4>1. v = [t \in Sessions |-> v[t]] /\ v[s] = StandingIn(state[s])
        BY <3>1
      <4> HIDE DEF v
      <4>2. QED BY <4>1 DEF c
    <3>3. QED BY <3>1, <3>2 DEF c
  <2>8. [t \in Sessions |-> state[t].user][s] = c.user
    BY DEF c
  <2>9. CASE c.stage = "AUTH"
    <3>1. StandingIn(c) = "open" /\ StandingIn(d) = "open" /\ c.reply = "USERPASS"
      BY <1>1, <1>2, <2>3, <2>9 DEF StandingIn, WordFits
    <3>2. Service!Negotiate(s)
      BY <1>1, <2>6, <2>7, <3>1 DEF Service!Negotiate
    <3>3. QED BY <2>5, <3>2 DEF Refined, Service!Next
  <2>10. CASE c.stage = "REQUEST"
    <3>1. /\ StandingIn(c) = "cleared" /\ StandingIn(d) = "cleared"
          /\ c.reply = IF c.user = "anonymous" THEN "NO_AUTH" ELSE "AUTH_SUCCESS"
      BY <1>1, <1>2, <2>3, <2>10 DEF StandingIn, WordFits
    <3>2. Service!Negotiate(s)
      BY <1>1, <2>6, <2>7, <2>8, <3>1 DEF Service!Negotiate
    <3>3. QED BY <2>5, <3>2 DEF Refined, Service!Next
  <2>11. CASE c.stage = "RELAY"
    <3>1. StandingIn(c) = "linked" /\ StandingIn(d) = "granted" /\ c.reply = "SUCCESS"
      BY <1>1, <1>2, <2>2, <2>3, <2>11 DEF StandingIn, WordFits
    <3>2. Service!Grant(s)
      BY <1>1, <2>6, <2>7, <3>1 DEF Service!Grant, Service!Move
    <3>3. QED BY <2>5, <3>2 DEF Refined, Service!Next
  <2>12. QED BY <2>2, <2>9, <2>10, <2>11
<1>5. QED BY <1>3, <1>4

\* The handlers.
LEMMA ServeRefines ==
    ASSUME IInv, ServiceInv, NEW s \in Sessions, Serve(s)
    PROVE  Refined
<1>1. CASE ClientLeaves(s) \/ ReplyFails(s)
  <2>1. Live(s) /\ client_close(s) /\ UNCHANGED <<told, users>>
    BY <1>1, SessionKnown DEF ClientLeaves, ReplyFails
  <2>2. QED BY <2>1, CloseRefines
<1>2. CASE RelayEnds(s)
  BY <1>2, CloseRefines DEF RelayEnds
<1>3. QED
  BY <1>1, <1>2, AcceptRefines, GreetingRefines, AuthenticateRefines, RequestRefines,
     OutcomeRefines, ReplyRefines DEF Serve

\* The resolver thread of a session: its client sees nothing.
LEMMA ThreadRefines ==
    ASSUME IInv, ServiceInv, NEW s \in Sessions, Thread(s)
    PROVE  Refined
<1> DEFINE j == job[s]
<1>1. j \in Job /\ HasAnswer(j)
  BY SessionKnown
<1>2. CASE resolve_target(s)
  <2>1. PICK answer \in {[status |-> g, result |-> <<>>] : g \in GaiErrors}
                          \cup {[status |-> "OK", result |-> a] : a \in Answers} :
          job' = [job EXCEPT ![s] = [@ EXCEPT !.status = answer.status,
                                              !.result = answer.result, !.done = TRUE]]
    BY <1>2 DEF resolve_target
  <2> DEFINE k == [j EXCEPT !.status = answer.status, !.result = answer.result, !.done = TRUE]
  <2>2. job' = [job EXCEPT ![s] = k]
    BY <2>1, SessionKnown
  <2>3. answer.status = "OK" => answer.result \in Answers
    <3>1. CASE answer \in {[status |-> g, result |-> <<>>] : g \in GaiErrors}
      <4>1. answer.status \in GaiErrors
        BY <3>1
      <4>2. QED BY <4>1, SetsAssumption
    <3>2. CASE answer \in {[status |-> "OK", result |-> a] : a \in Answers}
      BY <3>2
    <3>3. QED BY <3>1, <3>2
  <2> HIDE DEF j
  <2>4. k.status = answer.status /\ k.result = answer.result
    BY <1>1 DEF Job
  <2> HIDE DEF k
  <2>5. HasAnswer(k)
    BY <2>3, <2>4 DEF HasAnswer
  <2>6. UNCHANGED <<state, told, users>>
    BY <1>2 DEF resolve_target, sessionVars, bookVars
  <2>7. QED BY <2>2, <2>5, <2>6, JobStep
<1>3. CASE FreeJob(s)
  <2> DEFINE k == [j EXCEPT !.mem = "freed", !.result = <<>>]
  <2>1. job' = [job EXCEPT ![s] = k]
    BY <1>3, SessionKnown DEF FreeJob
  <2> HIDE DEF j
  <2>2. k.mem = "freed"
    BY <1>1 DEF Job
  <2> HIDE DEF k
  <2>3. HasAnswer(k)
    BY <2>2 DEF HasAnswer
  <2>4. UNCHANGED <<state, told, users>>
    BY <1>3 DEF FreeJob, sessionVars, bookVars
  <2>5. QED BY <2>1, <2>3, <2>4, JobStep
<1>4. CASE Enqueue(s) \/ EnqueueFails(s) \/ SignalMain(s)
  <2>1. UNCHANGED <<state, job, told, users>>
    BY <1>4 DEF Enqueue, EnqueueFails, SignalMain, sessionVars, bookVars
  <2>2. QED BY <2>1, NothingSeen
<1>5. QED BY <1>2, <1>3, <1>4 DEF Thread

\* A notification: its client is refused or sees nothing.
LEMMA HandleNoteRefines ==
    ASSUME IInv, ServiceInv, HandleNote
    PROVE  Refined
<1>1. notes # <<>> /\ notes \in Seq(Sessions)
  BY DEF HandleNote, IInv, TypeOK
<1>2. Head(notes) \in Sessions
  BY <1>1
<1> PICK s \in Sessions : s = Head(notes)
  BY <1>2
<1>3. UNCHANGED <<told, users>>
  BY DEF HandleNote
<1>4. CASE UNCHANGED <<sessionVars, job, metrics, access_log>>
  BY <1>3, <1>4, NothingSeen DEF sessionVars
<1>5. CASE state[s].stage = "RESOLVING" /\ state[s].has_job /\ OnResolve(s)
  <2> DEFINE c == [state[s] EXCEPT !.has_job = FALSE]
             j == job[s]
             k == [j EXCEPT !.mem = "freed", !.waiting = FALSE, !.result = <<>>]
  <2>1. /\ job' = [job EXCEPT ![s] = k]
        /\ IF j.status # "OK"
           THEN RefuseRequest(s, c, socks5_reply_for_gai_error(j.status))
           ELSE Connect(s, [c EXCEPT !.addrs = j.result])
    BY <1>5, SessionKnown DEF OnResolve
  <2>2. j \in Job /\ j.mem = "live" /\ HasAnswer(j)
    BY <1>5, SessionKnown DEF IInv, JobInv
  <2>3. c \in State /\ c.user = state[s].user
    <3>1. state[s] \in State
      BY SessionKnown
    <3>2. QED BY <3>1 DEF State
  <2>4. StandingIn(state[s]) = "cleared"
    BY <1>5 DEF StandingIn
  <2> HIDE DEF c, j
  <2>5. k.mem = "freed"
    BY <2>2 DEF Job
  <2> HIDE DEF k
  <2>6. HasAnswer(job'[s]) /\ \A t \in Sessions \ {s} : job'[t] = job[t]
    BY <2>1, <2>5, SessionKnown DEF HasAnswer
  <2>7. CASE j.status # "OK"
    <3>1. socks5_reply_for_gai_error(j.status) \in Refusals
      BY <2>7, ErrorsRefuse
    <3>2. QED BY <1>3, <2>1, <2>3, <2>4, <2>6, <2>7, <3>1, RequestRefused
  <2>8. CASE j.status = "OK"
    <3> DEFINE d == [c EXCEPT !.addrs = j.result]
    <3>1. Connect(s, d)
      BY <2>1, <2>8
    <3>2. j.result \in Answers
      BY <2>2, <2>8 DEF HasAnswer
    <3>3. /\ j.result \in Seq({"inet", "other"})
          /\ \E i \in 1 .. Len(j.result) : j.result[i] = "inet"
      BY <3>2, AnswersAssumption
    <3>4. d \in State /\ d.user = c.user /\ d.addrs = j.result
      BY <2>3, <3>3 DEF State
    <3> HIDE DEF d
    <3>5. \E i \in 1 .. Len(d.addrs) : d.addrs[i] = "inet"
      BY <3>3, <3>4
    <3>6. QED BY <1>3, <2>3, <2>4, <2>6, <3>1, <3>4, <3>5, ConnectRefines
  <2>9. QED BY <2>7, <2>8
<1>6. QED BY <1>4, <1>5 DEF HandleNote

\* The loop: the clients it destroys are gone, otherwise nothing is seen.
LEMMA LoopRefines ==
    ASSUME IInv, ServiceInv, Loop
    PROVE  Refined
<1>1. ASSUME NEW x \in registered, DestroyItem(x) PROVE Refined
  <2>1. CASE x[2] = "client"
    <3>1. x[1] \in Sessions /\ x = Client(x[1])
      <4>1. PICK s \in Sessions : x = Client(s) \/ x = Target(s)
        BY DEF IInv, TypeOK, Descriptors, Client, Target
      <4>2. QED BY <2>1, <4>1 DEF Client, Target
    <3>2. Live(x[1])
      BY <3>1 DEF IInv, DescriptorInv
    <3>3. client_close(x[1]) /\ UNCHANGED <<told, users>>
      BY <1>1, <2>1 DEF DestroyItem
    <3>4. QED BY <3>1, <3>2, <3>3, CloseRefines
  <2>2. CASE x[2] # "client"
    BY <1>1, <2>2, NothingSeen DEF DestroyItem, target_close
  <2>3. QED BY <2>1, <2>2
<1>2. CASE EndIteration \/ NotesHandled \/ Check \/ While \/ Drain \/ DestroySelector \/ Exit
  <2>1. UNCHANGED <<state, job, told, users>>
    BY <1>2 DEF EndIteration, NotesHandled, Check, While, Drain, DestroySelector, Exit,
                sessionVars, jobVars, bookVars
  <2>2. QED BY <2>1, NothingSeen
<1>3. QED BY <1>1, <1>2, HandleNoteRefines DEF Loop

\* A management command configures the users.
LEMMA UsersRefine ==
    ASSUME IInv, ServiceInv, NEW u \in UserPool, users_add(u) \/ users_remove(u)
    PROVE  Refined
<1>1. users' # users /\ UNCHANGED <<state, job, told>>
  BY DEF users_add, users_remove, sessionVars, jobVars, bookVars
<1>2. ServiceInv'
  BY <1>1 DEF ServiceInv
<1>3. [t \in Sessions |-> Standing(t)]' = [t \in Sessions |-> Standing(t)]
  BY <1>1, View
<1>4. Service!Configure
  BY <1>1, <1>3 DEF Service!Configure
<1>5. QED BY <1>2, <1>4 DEF Refined, Service!Next

\* Every step is a step of the service or a stutter.
LEMMA NextRefines ==
    ASSUME IInv, ServiceInv, [Next]_vars
    PROVE  Refined
<1>1. CASE sigterm_handler \/ UNCHANGED vars
  BY <1>1, NothingSeen DEF sigterm_handler, vars, sessionVars, jobVars, bookVars
<1>2. QED BY <1>1, ServeRefines, ThreadRefines, UsersRefine, LoopRefines DEF Next

\* The proxy starts as the service does.
LEMMA InitRefines == Init => ServiceInv /\ Service!Init
<1> SUFFICES ASSUME Init PROVE ServiceInv /\ Service!Init
  OBVIOUS
<1>1. ASSUME NEW s \in Sessions
      PROVE  /\ state[s].stage = "UNBORN" /\ state[s].user = "anonymous"
             /\ job[s].status = "EAI_AGAIN" /\ told[s] = "nothing"
  BY DEF Init, NewState, NoJob
<1>2. ServiceInv
  BY <1>1 DEF ServiceInv, WordFits, HasAnswer
<1>3. \A s \in Sessions : Standing(s) = "none"
  BY <1>1 DEF Standing
<1>4. told = [s \in Sessions |-> "nothing"]
  BY DEF Init
<1>5. QED BY <1>1, <1>2, <1>3, <1>4 DEF Service!Init

\* Every behaviour of the proxy is, for its clients, one of the abstract
\* service: nobody is cleared without credentials that are configured at that
\* moment unless no user is, SUCCESS is told only to a linked client and once,
\* a refusal is the last thing told, and no client ever moves back.
THEOREM ProxyImplementsService == Spec => ImplementsService
<1>1. IInv /\ ServiceInv /\ [Next]_vars => ServiceInv' /\ [Service!Next]_Service!vars
  BY NextRefines DEF Refined
<1>2. QED BY <1>1, InitRefines, InitKeeps, NextKeeps, PTL DEF Spec, ImplementsService, Service!Spec
=============================================================================
