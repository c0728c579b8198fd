---------------------------- MODULE Proxy_proofs ----------------------------
(***************************************************************************)
(* Proofs about the proxy's control plane, for every number of sessions,   *)
(* users, errors, addresses and signals.                                   *)
(*                                                                         *)
(* The type invariant is not inductive alone: active_client_connections is *)
(* unsigned and its decrement is not guarded, so that it stays a natural   *)
(* number is the claim that it counts the live sessions, which in turn     *)
(* rests on sessions being closed only while they are live, that is while  *)
(* their client descriptor is registered.  The safety of resolver jobs     *)
(* rests on the thread and the session agreeing on who waits.              *)
(***************************************************************************)
EXTENDS Proxy, FiniteSetTheorems, TLAPS

\* Descriptors and interests of one session.
DescriptorInv(s) ==
    LET c == state[s] IN
    /\ Client(s) \in open <=> Live(s)
    /\ Target(s) \in open => c.stage \in {"CONNECTING", "RELAY"}
    /\ loop # "destroy" /\ c.stage \in {"CONNECTING", "RELAY"} => Target(s) \in open
    /\ Client(s) \notin open => interest[Client(s)] = {}
    /\ Target(s) \notin open => interest[Target(s)] = {}
    /\ c.stage \in {"GREETING", "AUTH", "REQUEST", "RELAY", "CLOSING"} =>
            interest[Client(s)] = IF c.reply = "nothing" THEN {"R"} ELSE {"W"}
    /\ c.stage \in {"RESOLVING", "CONNECTING"} => c.reply = "nothing" /\ interest[Client(s)] = {}
    /\ c.stage = "CONNECTING" /\ Target(s) \in open => interest[Target(s)] = {"W"}
    /\ c.stage = "CLOSING" => c.reply # "nothing"
    /\ c.stage = "RELAY" => (c.relay_started <=> c.reply = "nothing")
    /\ c.relay_started => c.stage = "RELAY"

\* The resolver job of one session, its thread, and what they agree upon.
JobInv(s) ==
    /\ state[s].has_job <=> state[s].stage = "RESOLVING"
    /\ job[s].waiting <=> state[s].has_job
    /\ job[s].mem = "none" <=> pc[s] = "none"
    /\ state[s].stage \in {"UNBORN", "GREETING", "AUTH", "REQUEST"} => pc[s] = "none"
    /\ pc[s] = "resolve" => ~job[s].done
    /\ pc[s] \in {"enqueue", "signal", "free", "end"} => job[s].done
    /\ pc[s] = "free" => ~state[s].has_job
    /\ state[s].has_job => job[s].mem = "live"
    /\ pc[s] \in {"resolve", "free"} => job[s].mem = "live"
    /\ job[s].mem = "live" => state[s].has_job \/ pc[s] \in {"resolve", "free"}

\* The inductive invariant.
IInv ==
    /\ TypeOK
    /\ CountersExact
    /\ open = registered
    /\ \A s \in Sessions : DescriptorInv(s)
    /\ \A s \in Sessions : JobInv(s)

\* The inductive invariant is at least as strong as the properties that the
\* model checker runs with.
LEMMA IInvImplies ==
    ASSUME IInv
    PROVE  TypeOK /\ CountersExact /\ DescriptorsExact /\ InterestFollowsStage /\ JobSafe
<1>1. DescriptorsExact
  BY DEF IInv, DescriptorInv, DescriptorsExact
<1>2. InterestFollowsStage
  <2>1. ASSUME NEW x \in Descriptors \ registered
        PROVE  interest[x] = {}
    <3>1. PICK s \in Sessions : x = Client(s) \/ x = Target(s)
      BY DEF Descriptors, Client, Target
    <3>2. QED BY <3>1 DEF IInv, DescriptorInv
  <2>2. QED BY <2>1 DEF IInv, DescriptorInv, InterestFollowsStage
<1>3. JobSafe
  BY DEF IInv, JobInv, JobSafe
<1>4. QED BY <1>1, <1>2, <1>3 DEF IInv

-----------------------------------------------------------------------------
(* Counting *)

\* The sets of live and of born sessions are finite.
LEMMA SessionsFinite ==
    /\ IsFiniteSet(LiveSessions) /\ Cardinality(LiveSessions) \in Nat
    /\ IsFiniteSet(BornSessions) /\ Cardinality(BornSessions) \in Nat
<1>1. LiveSessions \subseteq Sessions /\ BornSessions \subseteq Sessions
  BY DEF LiveSessions, BornSessions
<1>2. QED BY <1>1, SetsAssumption, FS_Subset, FS_CardinalityType

\* A step that neither creates nor frees a session leaves the counts alone.
LEMMA SameCounts ==
    ASSUME IInv, \A t \in Sessions : (Live(t))' <=> Live(t),
           \A t \in Sessions : (state[t].stage # "UNBORN")' <=> state[t].stage # "UNBORN",
           active' = active, metrics'.concurrent = metrics.concurrent,
           metrics'.historical = metrics.historical
    PROVE  CountersExact'
<1>1. LiveSessions' = LiveSessions /\ BornSessions' = BornSessions
  BY DEF LiveSessions, BornSessions
<1>2. QED BY <1>1 DEF IInv, CountersExact

\* Freeing a live session takes one from the count, which was positive.
LEMMA FreeCounts ==
    ASSUME IInv, NEW s \in Sessions, Live(s), ~(Live(s))',
           (state[s].stage # "UNBORN")',
           \A t \in Sessions \ {s} : state'[t] = state[t],
           active' = active - 1, metrics'.concurrent = metrics.concurrent - 1,
           metrics'.historical = metrics.historical
    PROVE  CountersExact' /\ active > 0 /\ active' \in Nat
<1>1. LiveSessions' = LiveSessions \ {s} /\ s \in LiveSessions
  BY DEF LiveSessions, Live
<1>2. BornSessions' = BornSessions
  BY DEF BornSessions, Live
<1>3. Cardinality(LiveSessions \ {s}) = Cardinality(LiveSessions) - 1
  BY <1>1, SessionsFinite, FS_RemoveElement
<1>4. Cardinality(LiveSessions \ {s}) \in Nat
  BY SessionsFinite, FS_Subset, FS_CardinalityType
<1>5. QED BY <1>1, <1>2, <1>3, <1>4, SessionsFinite DEF IInv, CountersExact

\* Accepting a session adds one to all counts.
LEMMA AcceptCounts ==
    ASSUME IInv, NEW s \in Sessions, state[s].stage = "UNBORN", (Live(s))',
           \A t \in Sessions \ {s} : state'[t] = state[t],
           active' = active + 1, metrics'.concurrent = metrics.concurrent + 1,
           metrics'.historical = metrics.historical + 1
    PROVE  CountersExact'
<1>1. /\ LiveSessions' = LiveSessions \cup {s} /\ s \notin LiveSessions
      /\ BornSessions' = BornSessions \cup {s} /\ s \notin BornSessions
  BY DEF LiveSessions, BornSessions, Live
<1>2. /\ Cardinality(LiveSessions \cup {s}) = Cardinality(LiveSessions) + 1
      /\ Cardinality(BornSessions \cup {s}) = Cardinality(BornSessions) + 1
  BY <1>1, SessionsFinite, FS_AddElement
<1>3. QED BY <1>1, <1>2 DEF IInv, CountersExact

-----------------------------------------------------------------------------
(* Steps of one session *)

\* A step that touches the descriptors of no session but s.
Confined(s) ==
    \A t \in Sessions \ {s} :
        /\ state'[t] = state[t]
        /\ interest'[Client(t)] = interest[Client(t)]
        /\ interest'[Target(t)] = interest[Target(t)]
        /\ Client(t) \in open' <=> Client(t) \in open
        /\ Target(t) \in open' <=> Target(t) \in open

\* It is enough to look at session s after such a step.
LEMMA OtherDescriptors ==
    ASSUME IInv, NEW s \in Sessions, Confined(s), loop' = loop, DescriptorInv(s)'
    PROVE  \A t \in Sessions : DescriptorInv(t)'
<1>1. ASSUME NEW t \in Sessions \ {s} PROVE DescriptorInv(t)'
  BY DEF IInv, DescriptorInv, Confined, Live, Client, Target
<1>2. QED BY <1>1

\* The same for jobs and threads.
LEMMA OtherJobs ==
    ASSUME IInv, NEW s \in Sessions,
           \A t \in Sessions \ {s} : state'[t] = state[t] /\ job'[t] = job[t] /\ pc'[t] = pc[t],
           JobInv(s)'
    PROVE  \A t \in Sessions : JobInv(t)'
<1>1. ASSUME NEW t \in Sessions \ {s} PROVE JobInv(t)'
  BY DEF IInv, JobInv
<1>2. QED BY <1>1

\* Updates of the entries of one session's descriptors, and how to read them.
LEMMA DescriptorFacts ==
    ASSUME NEW s \in Sessions
    PROVE  /\ Client(s) \in Descriptors /\ Target(s) \in Descriptors
           /\ Client(s) # Target(s)
           /\ \A t \in Sessions \ {s} :
                /\ Client(t) \in Descriptors /\ Target(t) \in Descriptors
                /\ Client(t) # Client(s) /\ Client(t) # Target(s)
                /\ Target(t) # Client(s) /\ Target(t) # Target(s)
BY DEF Descriptors, Client, Target

\* A fresh state is a state.
LEMMA NewStateType ==
    NewState \in State /\ [NewState EXCEPT !.stage = "FREED"] \in State
        /\ [NewState EXCEPT !.stage = "UNBORN"] \in State
<1>1. <<>> \in Seq({"inet", "other"})
  OBVIOUS
<1>2. QED BY <1>1 DEF NewState, State, Stages, Replies

\* Logging keeps the type of the access log.
LEMMA AccessLogType ==
    ASSUME NEW s \in Sessions, NEW c \in State, NEW b \in BOOLEAN,
           access_log \in [Sessions -> Seq(BOOLEAN)]
    PROVE  AccessLog(s, c, b) \in [Sessions -> Seq(BOOLEAN)]
<1>1. Append(access_log[s], b) \in Seq(BOOLEAN)
  OBVIOUS
<1>2. QED BY <1>1 DEF AccessLog

\* What target_connection_detach_resolver does to a job.
LEMMA DetachFacts ==
    ASSUME NEW s \in Sessions, job[s] \in Job, state[s] \in State
    PROVE  /\ Detach(s) \in Job
           /\ state[s].has_job =>
                /\ ~Detach(s).waiting
                /\ Detach(s).done = job[s].done
                /\ Detach(s).mem = IF job[s].done THEN "freed" ELSE job[s].mem
<1>1. CASE ~state[s].has_job
  BY <1>1 DEF Detach
<1>2. CASE state[s].has_job /\ job[s].done
  <2>1. Detach(s) = [job[s] EXCEPT !.waiting = FALSE, !.mem = "freed", !.result = <<>>]
    BY <1>2 DEF Detach, DetachedMem
  <2>2. QED BY <1>2, <2>1 DEF Job
<1>3. CASE state[s].has_job /\ ~job[s].done
  <2>1. Detach(s) = [job[s] EXCEPT !.waiting = FALSE, !.mem = job[s].mem, !.result = job[s].result]
    BY <1>3 DEF Detach, DetachedMem
  <2>2. QED BY <1>3, <2>1 DEF Job
<1>4. QED BY <1>1, <1>2, <1>3

\* client_close keeps the invariant: it runs for live sessions only, and leaves
\* to the thread exactly the jobs the thread will free.
LEMMA CloseKeeps ==
    ASSUME IInv, NEW s \in Sessions, Client(s) \in registered, client_close(s),
           UNCHANGED <<pc, notes, loopVars, signalVars, users, access_log>>,
           told' \in [Sessions -> Replies \cup {"nothing"}]
    PROVE  IInv'
<1>1. Live(s)
  BY DEF IInv, DescriptorInv
<1>2. /\ state' = [state EXCEPT ![s] = [NewState EXCEPT !.stage = "FREED"]]
      /\ state'[s].stage = "FREED" /\ ~state'[s].has_job /\ ~state'[s].relay_started
      /\ \A t \in Sessions \ {s} : state'[t] = state[t]
  BY DEF IInv, TypeOK, client_close, NewState
<1>3. CountersExact' /\ active' \in Nat
  <2>1. ~(Live(s))' /\ (state[s].stage # "UNBORN")'
    BY <1>2 DEF Live
  <2>2. Cardinality(LiveSessions) > 0
    <3>1. s \in LiveSessions
      BY <1>1 DEF LiveSessions
    <3>2. Cardinality(LiveSessions) # 0
      BY <3>1, SessionsFinite, FS_EmptySet
    <3>3. QED BY <3>2, SessionsFinite
  <2>3. /\ metrics'.concurrent = metrics.concurrent - 1
        /\ metrics'.historical = metrics.historical
        /\ active' = active - 1
    BY <2>2 DEF IInv, TypeOK, CountersExact, client_close, metrics_connection_closed
  <2>4. QED BY <1>1, <1>2, <2>1, <2>3, FreeCounts
<1>4. /\ job' = [job EXCEPT ![s] = Detach(s)]
      /\ job' \in [Sessions -> Job]
  <2>1. Detach(s) \in Job
    BY DetachFacts DEF IInv, TypeOK
  <2>2. QED BY <2>1 DEF IInv, TypeOK, client_close
<1>5. metrics' \in Metrics
  <2>1. metrics \in Metrics /\ metrics.concurrent \in Nat
    BY DEF IInv, TypeOK, Metrics
  <2>2. (IF metrics.concurrent > 0 THEN metrics.concurrent - 1 ELSE metrics.concurrent) \in Nat
    BY <2>1
  <2>3. QED BY <2>1, <2>2 DEF client_close, metrics_connection_closed, Metrics
<1>6. /\ interest' = [interest EXCEPT ![Client(s)] = {}, ![Target(s)] = {}]
      /\ registered' = registered \ {Client(s), Target(s)}
      /\ open' = open \ {Client(s), Target(s)}
  BY DEF client_close, ClosedWith
<1>7. TypeOK'
  <2>1. state' \in [Sessions -> State]
    BY <1>2, NewStateType DEF IInv, TypeOK
  <2>2. interest' \in [Descriptors -> SUBSET {"R", "W"}]
    BY <1>6 DEF IInv, TypeOK
  <2>3. QED BY <1>3, <1>4, <1>5, <1>6, <2>1, <2>2
            DEF IInv, TypeOK, loopVars, signalVars
<1>8. \A t \in Sessions : DescriptorInv(t)'
  <2>1. Confined(s)
    BY <1>2, <1>6, DescriptorFacts DEF IInv, TypeOK, Confined
  <2>2. DescriptorInv(s)'
    BY <1>2, <1>6, DescriptorFacts DEF IInv, TypeOK, DescriptorInv, Live
  <2>3. QED BY <2>1, <2>2, OtherDescriptors DEF loopVars
<1>9. \A t \in Sessions : JobInv(t)'
  <2>1. JobInv(s)'
    <3>1. job'[s] = Detach(s) /\ pc'[s] = pc[s]
      BY <1>4 DEF IInv, TypeOK
    <3>2. CASE state[s].has_job
      <4>1. /\ ~job'[s].waiting /\ job'[s].done = job[s].done
            /\ job'[s].mem = IF job[s].done THEN "freed" ELSE job[s].mem
        BY <3>1, <3>2, DetachFacts DEF IInv, TypeOK
      <4>2. /\ job[s].mem = "live" /\ pc[s] \notin {"none", "free"}
            /\ pc[s] = "resolve" => ~job[s].done
            /\ pc[s] # "resolve" => job[s].done
        BY <3>2 DEF IInv, TypeOK, JobInv
      <4>3. QED BY <1>2, <3>1, <4>1, <4>2 DEF JobInv
    <3>3. CASE ~state[s].has_job
      BY <1>1, <1>2, <3>1, <3>3 DEF IInv, TypeOK, JobInv, Detach, Live
    <3>4. QED BY <3>2, <3>3
  <2>2. \A t \in Sessions \ {s} : job'[t] = job[t] /\ pc'[t] = pc[t]
    BY <1>4 DEF IInv, TypeOK
  <2>3. QED BY <1>2, <2>1, <2>2, OtherJobs
<1>10. QED BY <1>3, <1>6, <1>7, <1>8, <1>9 DEF IInv

\* The job of a session that does not wait for one, and its thread.
Quiet(s) ==
    /\ ~job[s].waiting
    /\ job[s].mem = "none" <=> pc[s] = "none"
    /\ pc[s] = "resolve" => ~job[s].done
    /\ pc[s] \in {"enqueue", "signal", "free", "end"} => job[s].done
    /\ job[s].mem = "live" <=> pc[s] \in {"resolve", "free"}

\* Interests i in the client and j in the target fit the state c of a session.
Fits(c, i, j) ==
    /\ c.stage \in {"GREETING", "AUTH", "REQUEST", "RELAY", "CLOSING"} =>
            i = IF c.reply = "nothing" THEN {"R"} ELSE {"W"}
    /\ c.stage \in {"RESOLVING", "CONNECTING"} => c.reply = "nothing" /\ i = {}
    /\ c.stage = "CONNECTING" => j = {"W"}
    /\ c.stage \notin {"CONNECTING", "RELAY"} => j = {}
    /\ c.stage = "CLOSING" => c.reply # "nothing"
    /\ c.stage = "RELAY" => (c.relay_started <=> c.reply = "nothing")
    /\ c.relay_started => c.stage = "RELAY"

\* A handler that leaves session s alive in state c, with interests that fit it
\* and a target descriptor exactly if c needs one, keeps the invariant.
LEMMA SessionStep ==
    ASSUME IInv, NEW s \in Sessions, NEW c \in State,
           Live(s), c.stage \notin {"UNBORN", "FREED"},
           state' = [state EXCEPT ![s] = c],
           interest' \in [Descriptors -> SUBSET {"R", "W"}],
           \A x \in Descriptors \ {Client(s), Target(s)} : interest'[x] = interest[x],
           Fits(c, interest'[Client(s)], interest'[Target(s)]),
           open' \subseteq Descriptors, registered' = open',
           \A x \in Descriptors \ {Target(s)} : x \in open' <=> x \in open,
           Target(s) \in open' <=> c.stage \in {"CONNECTING", "RELAY"},
           job' \in [Sessions -> Job],
           pc' \in [Sessions -> {"none", "resolve", "enqueue", "signal", "free", "end"}],
           \A t \in Sessions \ {s} : job'[t] = job[t] /\ pc'[t] = pc[t],
           JobInv(s)',
           notes' \in Seq(Sessions),
           metrics' \in Metrics, active' = active,
           metrics'.concurrent = metrics.concurrent, metrics'.historical = metrics.historical,
           access_log' \in [Sessions -> Seq(BOOLEAN)],
           told' \in [Sessions -> Replies \cup {"nothing"}],
           UNCHANGED <<loopVars, signalVars, users>>
    PROVE  IInv'
<1>1. state'[s] = c /\ \A t \in Sessions \ {s} : state'[t] = state[t]
  BY DEF IInv, TypeOK
<1>2. CountersExact'
  <2>1. \A t \in Sessions : (Live(t))' <=> Live(t)
    BY <1>1 DEF Live
  <2>2. \A t \in Sessions : (state[t].stage # "UNBORN")' <=> state[t].stage # "UNBORN"
    BY <1>1 DEF Live
  <2>3. QED BY <2>1, <2>2, SameCounts
<1>3. TypeOK'
  BY DEF IInv, TypeOK, loopVars, signalVars
<1>4. \A t \in Sessions : DescriptorInv(t)'
  <2>1. Confined(s)
    BY <1>1, DescriptorFacts DEF Confined
  <2>2. DescriptorInv(s)'
    <3>1. Client(s) \in open'
      BY DescriptorFacts DEF IInv, DescriptorInv
    <3>2. QED BY <1>1, <3>1 DEF DescriptorInv, Fits, Live
  <2>3. QED BY <2>1, <2>2, OtherDescriptors DEF loopVars
<1>5. \A t \in Sessions : JobInv(t)'
  BY <1>1, OtherJobs
<1>6. QED BY <1>2, <1>3, <1>4, <1>5 DEF IInv

\* A refused request is counted and logged, and its session closes.
LEMMA RefuseKeeps ==
    ASSUME IInv, NEW s \in Sessions, NEW c \in State, NEW r \in Replies,
           Live(s), ~c.has_job, ~c.relay_started,
           RefuseRequest(s, c, r),
           job' \in [Sessions -> Job],
           \A t \in Sessions \ {s} : job'[t] = job[t],
           Quiet(s)',
           notes' \in Seq(Sessions),
           UNCHANGED <<pc, loopVars, signalVars, users, active, told>>
    PROVE  IInv'
<1> DEFINE d == [c EXCEPT !.stage = "CLOSING", !.reply = r,
                          !.access_logged = @ \/ c.dest]
<1>1. /\ d \in State /\ d.stage = "CLOSING" /\ d.reply = r
      /\ ~d.has_job /\ ~d.relay_started
  BY DEF State, Stages
<1>2. /\ state' = [state EXCEPT ![s] = d]
      /\ interest' = [interest EXCEPT ![Client(s)] = {"W"}, ![Target(s)] = {}]
      /\ registered' = registered \ {Target(s)} /\ open' = open \ {Target(s)}
      /\ metrics' = [metrics EXCEPT !.failed = @ + 1]
      /\ access_log' = AccessLog(s, c, FALSE)
  BY DEF Refuses, RefuseRequest, metrics_connection_failed
<1> HIDE DEF d
<1>3. /\ interest' \in [Descriptors -> SUBSET {"R", "W"}]
      /\ interest'[Client(s)] = {"W"} /\ interest'[Target(s)] = {}
      /\ \A x \in Descriptors \ {Client(s), Target(s)} : interest'[x] = interest[x]
  BY <1>2, DescriptorFacts DEF IInv, TypeOK
<1>4. Fits(d, interest'[Client(s)], interest'[Target(s)])
  <2>1. r # "nothing"
    BY DEF Replies, Refusals, Failures
  <2>2. QED BY <1>1, <1>3, <2>1 DEF Fits
<1>5. /\ open' \subseteq Descriptors /\ registered' = open'
      /\ Target(s) \notin open'
      /\ \A x \in Descriptors \ {Target(s)} : x \in open' <=> x \in open
  BY <1>2 DEF IInv, TypeOK
<1>6. state'[s] = d
  BY <1>2 DEF IInv, TypeOK
<1>7. JobInv(s)'
  BY <1>1, <1>6 DEF JobInv, Quiet
<1>8. /\ metrics' \in Metrics
      /\ metrics'.concurrent = metrics.concurrent /\ metrics'.historical = metrics.historical
  <2>1. metrics \in Metrics
    BY DEF IInv, TypeOK
  <2>2. QED BY <1>2, <2>1 DEF Metrics
<1>9. access_log' \in [Sessions -> Seq(BOOLEAN)]
  BY <1>2, AccessLogType DEF IInv, TypeOK
<1>10. QED BY <1>1, <1>2, <1>3, <1>4, <1>5, <1>7, <1>8, <1>9, SessionStep
           DEF IInv, TypeOK

\* Replies to errors are replies.
LEMMA ErrorReplies ==
    /\ \A e : socks5_reply_for_errno(e) \in Replies
    /\ \A g : socks5_reply_for_gai_error(g) \in Replies
BY DEF socks5_reply_for_errno, socks5_reply_for_gai_error, Replies, Refusals, Failures

\* Connection attempts leave a list of addresses and an error.
LEMMA AttemptsType ==
    ASSUME NEW addrs \in Seq({"inet", "other"}), NEW e \in Errnos \cup {"0"},
           NEW a \in Attempts(addrs, e)
    PROVE  /\ a.ok \in BOOLEAN
           /\ a.left \in Seq({"inet", "other"})
           /\ a.err \in Errnos \cup {"0"}
<1>1. \A k : ErrorsAfter(addrs, e, k) \subseteq Errnos \cup {"0"}
  BY DEF ErrorsAfter
<1>2. CASE a \in Exhausted(addrs, e)
  <2>1. PICK x \in ErrorsAfter(addrs, e, Len(addrs)) : a = [ok |-> FALSE, left |-> <<>>, err |-> x]
    BY <1>2 DEF Exhausted
  <2>2. a.ok = FALSE /\ a.left = <<>> /\ a.err = x
    BY <2>1
  <2>3. x \in Errnos \cup {"0"}
    BY <1>1
  <2>4. <<>> \in Seq({"inet", "other"})
    OBVIOUS
  <2>5. QED BY <2>2, <2>3, <2>4
<1>3. CASE \E k \in 1 .. Len(addrs) : a \in Started(addrs, e, k)
  <2>1. PICK k \in 1 .. Len(addrs) : a \in Started(addrs, e, k)
    BY <1>3
  <2>2. PICK x \in ErrorsAfter(addrs, e, k - 1) :
            a = [ok |-> TRUE, left |-> SubSeq(addrs, k + 1, Len(addrs)), err |-> x]
    BY <2>1 DEF Started
  <2>3. a.ok = TRUE /\ a.left = SubSeq(addrs, k + 1, Len(addrs)) /\ a.err = x
    BY <2>2
  <2>4. SubSeq(addrs, k + 1, Len(addrs)) \in Seq({"inet", "other"})
    OBVIOUS
  <2>5. x \in Errnos \cup {"0"}
    BY <1>1
  <2>6. QED BY <2>3, <2>4, <2>5
<1>4. QED BY <1>2, <1>3 DEF Attempts

\* No failed attempt leaves a descriptor behind, so a session whose addresses
\* have all failed is refused like any other.
LEMMA ConnectCases ==
    ASSUME NEW s, NEW c, Connect(s, c)
    PROVE  \E a \in Attempts(c.addrs, c.err) :
             LET d == [c EXCEPT !.addrs = a.left, !.err = a.err]
             IN  IF a.ok
                 THEN /\ state' = [state EXCEPT ![s] = [d EXCEPT !.stage = "CONNECTING"]]
                      /\ interest' = [interest EXCEPT ![Client(s)] = {}, ![Target(s)] = {"W"}]
                      /\ registered' = registered \cup {Target(s)}
                      /\ open' = open \cup {Target(s)}
                      /\ UNCHANGED <<metrics, access_log>>
                 ELSE RefuseRequest(s, d, socks5_reply_for_errno(a.err))
<1>1. \A o \in Undone(s) : o = open \ {Target(s)}
  BY DEF Undone, ClosedByHand
<1>2. QED BY <1>1 DEF Connect, RefuseRequest

\* A session without a pending reply tries its addresses: it connects to one of
\* them or is refused.
LEMMA ConnectKeeps ==
    ASSUME IInv, NEW s \in Sessions, NEW c \in State,
           Live(s), ~c.has_job, ~c.relay_started, c.reply = "nothing",
           Connect(s, c),
           job' \in [Sessions -> Job],
           \A t \in Sessions \ {s} : job'[t] = job[t],
           Quiet(s)',
           notes' \in Seq(Sessions),
           UNCHANGED <<pc, loopVars, signalVars, users, active, told>>
    PROVE  IInv'
<1>1. PICK a \in Attempts(c.addrs, c.err) :
        LET d == [c EXCEPT !.addrs = a.left, !.err = a.err]
        IN  IF a.ok
            THEN /\ state' = [state EXCEPT ![s] = [d EXCEPT !.stage = "CONNECTING"]]
                 /\ interest' = [interest EXCEPT ![Client(s)] = {}, ![Target(s)] = {"W"}]
                 /\ registered' = registered \cup {Target(s)}
                 /\ open' = open \cup {Target(s)}
                 /\ UNCHANGED <<metrics, access_log>>
            ELSE RefuseRequest(s, d, socks5_reply_for_errno(a.err))
  BY ConnectCases
<1> DEFINE d == [c EXCEPT !.addrs = a.left, !.err = a.err]
<1>2. c.addrs \in Seq({"inet", "other"}) /\ c.err \in Errnos \cup {"0"}
  BY DEF State
<1>3. /\ a.ok \in BOOLEAN /\ a.left \in Seq({"inet", "other"})
      /\ a.err \in Errnos \cup {"0"}
  BY <1>2, AttemptsType
<1>4. d \in State /\ ~d.has_job /\ ~d.relay_started /\ d.reply = "nothing"
  BY <1>3 DEF State
<1>5. CASE ~a.ok
  <2>1. RefuseRequest(s, d, socks5_reply_for_errno(a.err))
    BY <1>1, <1>5
  <2>2. QED BY <1>4, <2>1, ErrorReplies, RefuseKeeps
<1>6. CASE a.ok
  <2> DEFINE e == [d EXCEPT !.stage = "CONNECTING"]
  <2>1. /\ state' = [state EXCEPT ![s] = e]
        /\ interest' = [interest EXCEPT ![Client(s)] = {}, ![Target(s)] = {"W"}]
        /\ registered' = registered \cup {Target(s)} /\ open' = open \cup {Target(s)}
        /\ UNCHANGED <<metrics, access_log>>
    BY <1>1, <1>6
  <2> HIDE DEF d
  <2>2. /\ e \in State /\ e.stage = "CONNECTING" /\ e.reply = "nothing"
        /\ ~e.has_job /\ ~e.relay_started
    BY <1>4 DEF State, Stages
  <2> HIDE DEF e
  <2>3. /\ interest' \in [Descriptors -> SUBSET {"R", "W"}]
        /\ interest'[Client(s)] = {} /\ interest'[Target(s)] = {"W"}
        /\ \A x \in Descriptors \ {Client(s), Target(s)} : interest'[x] = interest[x]
    BY <2>1, DescriptorFacts DEF IInv, TypeOK
  <2>4. Fits(e, interest'[Client(s)], interest'[Target(s)])
    BY <2>2, <2>3 DEF Fits
  <2>5. /\ open' \subseteq Descriptors /\ registered' = open'
        /\ Target(s) \in open'
        /\ \A x \in Descriptors \ {Target(s)} : x \in open' <=> x \in open
    BY <2>1, DescriptorFacts DEF IInv, TypeOK
  <2>6. state'[s] = e
    BY <2>1 DEF IInv, TypeOK
  <2>7. JobInv(s)'
    BY <2>2, <2>6 DEF JobInv, Quiet
  <2>8. QED BY <2>1, <2>2, <2>3, <2>4, <2>5, <2>7, SessionStep DEF IInv, TypeOK
<1>7. QED BY <1>3, <1>5, <1>6

\* A session that has no job has a quiet one.
LEMMA NoJobIsQuiet ==
    ASSUME IInv, NEW s \in Sessions, ~state[s].has_job
    PROVE  Quiet(s)
BY DEF IInv, TypeOK, JobInv, Quiet

\* A descriptor that is served belongs to a live session.
LEMMA ServedIsLive ==
    ASSUME IInv, NEW s \in Sessions, NEW op,
           Serves(Client(s), op) \/ Serves(Target(s), op)
    PROVE  Live(s) /\ loop = "select"
BY DEF IInv, DescriptorInv, Serves, Live

\* What a session is like when a complete message of the client is handled.
LEMMA ReceivingFacts ==
    ASSUME IInv, NEW s \in Sessions, NEW st \in {"GREETING", "AUTH", "REQUEST"},
           Receives(s, st)
    PROVE  /\ Live(s) /\ state[s].stage = st /\ state[s].reply = "nothing"
           /\ ~state[s].has_job /\ ~state[s].relay_started
           /\ Target(s) \notin open /\ interest[Target(s)] = {}
           /\ pc[s] = "none" /\ Quiet(s)
<1>1. /\ Live(s) /\ state[s].stage = st /\ Target(s) \notin open
      /\ interest[Target(s)] = {} /\ "R" \in interest[Client(s)]
  BY ServedIsLive DEF Receives, IInv, DescriptorInv, Serves
<1>2. ~state[s].has_job /\ pc[s] = "none"
  BY <1>1 DEF IInv, JobInv
<1>3. state[s].reply = "nothing" /\ ~state[s].relay_started
  BY <1>1 DEF IInv, DescriptorInv
<1>4. QED BY <1>1, <1>2, <1>3, NoJobIsQuiet

\* Greeting and authentication: a reply is prepared and the session moves on.
LEMMA AwaitKeeps ==
    ASSUME IInv, NEW s \in Sessions, NEW st \in {"GREETING", "AUTH"}, Receives(s, st),
           NEW c \in State, c.stage \in {"AUTH", "REQUEST", "CLOSING"},
           c.reply # "nothing", ~c.has_job, ~c.relay_started,
           Await(s, c, {"W"}),
           UNCHANGED <<registered, open, jobVars, notes, loopVars, signalVars, users, bookVars>>
    PROVE  IInv'
<1>1. /\ state' = [state EXCEPT ![s] = c]
      /\ interest' = [interest EXCEPT ![Client(s)] = {"W"}]
  BY DEF Await
<1>2. /\ Live(s) /\ Target(s) \notin open /\ interest[Target(s)] = {} /\ pc[s] = "none"
      /\ Quiet(s)
  BY ReceivingFacts
<1>3. /\ interest' \in [Descriptors -> SUBSET {"R", "W"}]
      /\ interest'[Client(s)] = {"W"} /\ interest'[Target(s)] = {}
      /\ \A x \in Descriptors \ {Client(s), Target(s)} : interest'[x] = interest[x]
  BY <1>1, <1>2, DescriptorFacts DEF IInv, TypeOK
<1>4. Fits(c, interest'[Client(s)], interest'[Target(s)])
  BY <1>3 DEF Fits
<1>5. state'[s] = c
  BY <1>1 DEF IInv, TypeOK
<1>6. JobInv(s)'
  BY <1>2, <1>5 DEF JobInv, Quiet, jobVars
<1>7. QED BY <1>1, <1>2, <1>3, <1>4, <1>6, SessionStep DEF IInv, TypeOK, jobVars, bookVars

\* accept_connection
LEMMA AcceptKeeps ==
    ASSUME IInv, NEW s \in Sessions, accept_connection(s)
    PROVE  IInv'
<1>1. /\ state' = [state EXCEPT ![s] = NewState]
      /\ interest' = [interest EXCEPT ![Client(s)] = {"R"}]
      /\ registered' = registered \cup {Client(s)} /\ open' = open \cup {Client(s)}
      /\ metrics' = [metrics EXCEPT !.historical = @ + 1, !.concurrent = @ + 1]
      /\ active' = active + 1 /\ state[s].stage = "UNBORN"
      /\ UNCHANGED <<jobVars, notes, loopVars, signalVars, users, access_log, told>>
  BY DEF accept_connection
<1>2. /\ state'[s] = NewState /\ \A t \in Sessions \ {s} : state'[t] = state[t]
  BY <1>1 DEF IInv, TypeOK
<1>3. /\ state'[s].stage = "GREETING" /\ ~state'[s].has_job /\ ~state'[s].relay_started
      /\ state'[s].reply = "nothing"
  BY <1>2 DEF NewState
<1>4. metrics \in Metrics
  BY DEF IInv, TypeOK
<1>5. /\ metrics' \in Metrics /\ metrics'.concurrent = metrics.concurrent + 1
      /\ metrics'.historical = metrics.historical + 1
  <2>1. /\ metrics.historical + 1 \in Nat /\ metrics.concurrent + 1 \in Nat
    BY <1>4 DEF Metrics
  <2>2. metrics' = [metrics EXCEPT !.historical = metrics.historical + 1,
                                   !.concurrent = metrics.concurrent + 1]
    BY <1>1
  <2>3. QED BY <1>4, <2>1, <2>2 DEF Metrics
<1>6. CountersExact'
  <2>1. (Live(s))'
    BY <1>3 DEF Live
  <2>2. QED BY <1>1, <1>2, <1>5, <2>1, AcceptCounts
<1>7. /\ interest' \in [Descriptors -> SUBSET {"R", "W"}]
      /\ interest'[Client(s)] = {"R"}
      /\ \A x \in Descriptors \ {Client(s)} : interest'[x] = interest[x]
  BY <1>1, DescriptorFacts DEF IInv, TypeOK
<1>8. TypeOK'
  <2>1. state' \in [Sessions -> State]
    BY <1>1, NewStateType DEF IInv, TypeOK
  <2>2. open' \subseteq Descriptors /\ registered' \subseteq Descriptors
    BY <1>1, DescriptorFacts DEF IInv, TypeOK
  <2>3. QED BY <1>1, <1>5, <1>7, <2>1, <2>2
            DEF IInv, TypeOK, jobVars, loopVars, signalVars
<1>9. \A t \in Sessions : DescriptorInv(t)'
  <2>1. Confined(s)
    BY <1>1, <1>2, <1>7, DescriptorFacts DEF Confined
  <2>2. DescriptorInv(s)'
    <3>1. Target(s) \notin open /\ interest[Target(s)] = {}
      BY <1>1 DEF IInv, DescriptorInv
    <3>2. Client(s) \in open' /\ Target(s) \notin open' /\ interest'[Target(s)] = {}
      BY <1>1, <1>7, <3>1, DescriptorFacts
    <3>3. QED BY <1>3, <1>7, <3>2 DEF DescriptorInv, Live
  <2>3. QED BY <1>1, <2>1, <2>2, OtherDescriptors DEF loopVars
<1>10. \A t \in Sessions : JobInv(t)'
  <2>1. JobInv(s)'
    BY <1>1, <1>3 DEF IInv, TypeOK, JobInv, jobVars
  <2>2. QED BY <1>1, <1>2, <2>1, OtherJobs DEF jobVars
<1>11. QED BY <1>1, <1>6, <1>8, <1>9, <1>10 DEF IInv

\* The two messages of the negotiation.
LEMMA NegotiationKeeps ==
    ASSUME IInv, NEW s \in Sessions,
           \/ \E offered \in SUBSET {"NO_AUTH", "USERPASS"} : Greeting(s, offered)
           \/ \E credentials \in UserPool \cup {"wrong"} : Authenticate(s, credentials)
    PROVE  IInv'
<1>1. state[s] \in State /\ users \subseteq UserPool
  BY DEF IInv, TypeOK
<1>2. ASSUME NEW offered \in SUBSET {"NO_AUTH", "USERPASS"}, Greeting(s, offered)
      PROVE  IInv'
  <2> DEFINE choice == ChosenMethod(offered)
             next == [USERPASS |-> "AUTH", NO_AUTH |-> "REQUEST",
                      NO_ACCEPTABLE |-> "CLOSING"][choice]
             c == [state[s] EXCEPT !.stage = next, !.reply = choice]
  <2>1. choice \in {"USERPASS", "NO_AUTH", "NO_ACCEPTABLE"}
    BY DEF ChosenMethod
  <2>2. next \in {"AUTH", "REQUEST", "CLOSING"}
    <3> HIDE DEF choice
    <3> QED BY <2>1
  <2>3. Receives(s, "GREETING") /\ Await(s, c, {"W"})
    BY <1>2 DEF Greeting
  <2>4. /\ c \in State /\ c.stage \in {"AUTH", "REQUEST", "CLOSING"} /\ c.reply # "nothing"
        /\ ~c.has_job /\ ~c.relay_started
    <3> HIDE DEF choice, next
    <3>1. ~state[s].has_job /\ ~state[s].relay_started
      BY <2>3, ReceivingFacts
    <3>2. QED BY <1>1, <2>1, <2>2, <3>1 DEF State, Stages, Replies, Refusals
  <2>5. UNCHANGED <<registered, open, jobVars, notes, loopVars, signalVars, users, bookVars>>
    BY <1>2 DEF Greeting
  <2>6. QED
    <3> HIDE DEF c
    <3> QED BY <2>3, <2>4, <2>5, AwaitKeeps
<1>3. ASSUME NEW credentials \in UserPool \cup {"wrong"}, Authenticate(s, credentials)
      PROVE  IInv'
  <2> DEFINE c == IF credentials \in users
                  THEN [state[s] EXCEPT !.stage = "REQUEST", !.reply = "AUTH_SUCCESS",
                                        !.user = credentials]
                  ELSE [state[s] EXCEPT !.stage = "CLOSING", !.reply = "AUTH_FAILURE"]
  <2>1. Receives(s, "AUTH") /\ Await(s, c, {"W"})
    BY <1>3 DEF Authenticate
  <2>2. /\ c \in State /\ c.stage \in {"AUTH", "REQUEST", "CLOSING"} /\ c.reply # "nothing"
        /\ ~c.has_job /\ ~c.relay_started
    <3>1. ~state[s].has_job /\ ~state[s].relay_started
      BY <2>1, ReceivingFacts
    <3>2. CASE credentials \in users
      BY <1>1, <3>1, <3>2 DEF State, Stages, Replies
    <3>3. CASE credentials \notin users
      BY <1>1, <3>1, <3>3 DEF State, Stages, Replies, Refusals
    <3>4. QED BY <3>2, <3>3
  <2>3. UNCHANGED <<registered, open, jobVars, notes, loopVars, signalVars, users, bookVars>>
    BY <1>3 DEF Authenticate
  <2>4. QED
    <3> HIDE DEF c
    <3> QED BY <2>1, <2>2, <2>3, AwaitKeeps
<1>4. QED BY <1>2, <1>3

\* The request, whatever it asks for.
LEMMA RequestKeeps ==
    ASSUME IInv, NEW s \in Sessions,
           \/ \E r \in {"GENERAL", "CMD_UNSUPPORTED", "ATYP_UNSUPPORTED"} : RejectRequest(s, r)
           \/ BeginAddress(s)
           \/ \E named \in BOOLEAN : BeginDomain(s, named)
    PROVE  IInv'
<1>1. Receives(s, "REQUEST")
  BY DEF RejectRequest, BeginAddress, BeginDomain
<1>2. /\ Live(s) /\ state[s].stage = "REQUEST" /\ state[s].reply = "nothing"
      /\ ~state[s].has_job /\ ~state[s].relay_started
      /\ Target(s) \notin open /\ interest[Target(s)] = {}
      /\ pc[s] = "none" /\ Quiet(s)
  BY <1>1, ReceivingFacts
<1>3. state[s] \in State
  BY DEF IInv, TypeOK
<1>4. ASSUME UNCHANGED jobVars
      PROVE  /\ job' \in [Sessions -> Job] /\ UNCHANGED pc
             /\ \A t \in Sessions \ {s} : job'[t] = job[t]
             /\ Quiet(s)'
  BY <1>2, <1>4 DEF IInv, TypeOK, Quiet, jobVars
<1>5. ASSUME NEW r \in {"GENERAL", "CMD_UNSUPPORTED", "ATYP_UNSUPPORTED"}, RejectRequest(s, r)
      PROVE  IInv'
  <2>1. r \in Replies
    BY DEF Replies, Refusals, Failures
  <2>2. /\ RefuseRequest(s, state[s], r) /\ UNCHANGED jobVars
        /\ UNCHANGED <<loopVars, signalVars, users, active, told>> /\ notes' = notes
    BY <1>5 DEF RejectRequest
  <2>3. notes' \in Seq(Sessions)
    BY <2>2 DEF IInv, TypeOK
  <2>4. QED BY <1>2, <1>3, <1>4, <2>1, <2>2, <2>3, RefuseKeeps
<1>6. ASSUME BeginAddress(s)
      PROVE  IInv'
  <2> DEFINE c == [state[s] EXCEPT !.err = "0", !.dest = TRUE, !.access_logged = FALSE,
                                   !.addrs = <<"inet">>]
  <2>1. /\ Connect(s, c) /\ UNCHANGED jobVars
        /\ UNCHANGED <<loopVars, signalVars, users, active, told>> /\ notes' = notes
    BY <1>6 DEF BeginAddress
  <2>2. /\ c \in State /\ ~c.has_job /\ ~c.relay_started /\ c.reply = "nothing"
    <3>1. <<"inet">> \in Seq({"inet", "other"})
      OBVIOUS
    <3>2. QED BY <1>2, <1>3, <3>1 DEF State
  <2>3. notes' \in Seq(Sessions)
    BY <2>1 DEF IInv, TypeOK
  <2>4. QED
    <3> HIDE DEF c
    <3> QED BY <1>2, <1>4, <2>1, <2>2, <2>3, ConnectKeeps
<1>7. ASSUME NEW named \in BOOLEAN, BeginDomain(s, named)
      PROVE  IInv'
  <2> DEFINE c == [state[s] EXCEPT !.err = "0", !.dest = named, !.access_logged = FALSE]
             d == [c EXCEPT !.stage = "RESOLVING", !.has_job = TRUE]
             k == [NoJob EXCEPT !.mem = "live", !.named = named, !.waiting = TRUE]
  <2>1. /\ \/ /\ job' = [job EXCEPT ![s] = k]
              /\ pc' = [pc EXCEPT ![s] = "resolve"]
              /\ Await(s, d, {})
              /\ UNCHANGED <<registered, open, metrics, access_log>>
           \/ RefuseRequest(s, c, "GENERAL") /\ UNCHANGED jobVars
        /\ UNCHANGED <<loopVars, signalVars, users, active, told>> /\ notes' = notes
    BY <1>7 DEF BeginDomain
  <2>2. c \in State /\ ~c.has_job /\ ~c.relay_started /\ c.reply = "nothing"
    BY <1>2, <1>3 DEF State
  <2>3. notes' \in Seq(Sessions)
    BY <2>1 DEF IInv, TypeOK
  <2>4. CASE RefuseRequest(s, c, "GENERAL") /\ UNCHANGED jobVars
    <3>1. "GENERAL" \in Replies
      BY DEF Replies, Refusals, Failures
    <3> HIDE DEF c
    <3>2. QED BY <1>2, <1>4, <2>1, <2>2, <2>3, <2>4, <3>1, RefuseKeeps
  <2>5. CASE /\ job' = [job EXCEPT ![s] = k]
             /\ pc' = [pc EXCEPT ![s] = "resolve"]
             /\ Await(s, d, {})
             /\ UNCHANGED <<registered, open, metrics, access_log>>
    <3>1. /\ d \in State /\ d.stage = "RESOLVING" /\ d.has_job /\ ~d.relay_started
          /\ d.reply = "nothing"
      <4> HIDE DEF c
      <4> QED BY <2>2 DEF State, Stages
    <3>2. k \in Job /\ k.mem = "live" /\ k.waiting /\ ~k.done
      BY DEF NoJob, Job
    <3> HIDE DEF c, d, k
    <3>3. /\ state' = [state EXCEPT ![s] = d]
          /\ interest' = [interest EXCEPT ![Client(s)] = {}]
      BY <2>5 DEF Await
    <3>4. /\ interest' \in [Descriptors -> SUBSET {"R", "W"}]
          /\ interest'[Client(s)] = {} /\ interest'[Target(s)] = {}
          /\ \A x \in Descriptors \ {Client(s), Target(s)} : interest'[x] = interest[x]
      BY <1>2, <3>3, DescriptorFacts DEF IInv, TypeOK
    <3>5. Fits(d, interest'[Client(s)], interest'[Target(s)])
      BY <3>1, <3>4 DEF Fits
    <3>6. /\ job' \in [Sessions -> Job]
          /\ pc' \in [Sessions -> {"none", "resolve", "enqueue", "signal", "free", "end"}]
          /\ job'[s] = k /\ pc'[s] = "resolve" /\ state'[s] = d
          /\ \A t \in Sessions \ {s} : job'[t] = job[t] /\ pc'[t] = pc[t]
      BY <2>5, <3>2, <3>3 DEF IInv, TypeOK
    <3>7. JobInv(s)'
      BY <3>1, <3>2, <3>6 DEF JobInv
    <3>8. QED BY <1>2, <2>1, <2>3, <2>5, <3>1, <3>3, <3>4, <3>5, <3>6, <3>7, SessionStep
              DEF IInv, TypeOK
  <2>6. QED BY <2>1, <2>4, <2>5
<1>8. QED BY <1>5, <1>6, <1>7

\* The outcome of a connection attempt.
LEMMA ConnectionKeeps ==
    ASSUME IInv, NEW s \in Sessions, ConnectSucceeds(s) \/ ConnectFails(s)
    PROVE  IInv'
<1>1. /\ Serves(Target(s), "W") /\ state[s].stage = "CONNECTING"
      /\ UNCHANGED <<jobVars, loopVars, signalVars, users, active, told>> /\ notes' = notes
  BY DEF ConnectSucceeds, ConnectFails
<1>2. /\ Live(s) /\ Target(s) \in open /\ state[s].reply = "nothing"
      /\ ~state[s].relay_started /\ ~state[s].has_job
  BY <1>1 DEF IInv, DescriptorInv, JobInv, Serves, Live
<1>3. /\ state[s] \in State /\ notes' \in Seq(Sessions)
      /\ told' \in [Sessions -> Replies \cup {"nothing"}]
  BY <1>1 DEF IInv, TypeOK
<1>4. /\ job' \in [Sessions -> Job] /\ UNCHANGED pc
      /\ \A t \in Sessions \ {s} : job'[t] = job[t] /\ pc'[t] = pc[t]
      /\ Quiet(s)'
  <2>1. Quiet(s)
    BY <1>2, NoJobIsQuiet
  <2>2. QED BY <1>1, <2>1 DEF IInv, TypeOK, Quiet, jobVars
<1>5. CASE ConnectFails(s)
  <2>1. PICK e \in Errnos : Connect(s, [state[s] EXCEPT !.err = e])
    BY <1>5 DEF ConnectFails
  <2> DEFINE c == [state[s] EXCEPT !.err = e]
  <2>2. c \in State /\ ~c.has_job /\ ~c.relay_started /\ c.reply = "nothing"
    BY <1>2, <1>3 DEF State
  <2>3. Connect(s, c)
    BY <2>1
  <2> HIDE DEF c
  <2>4. QED BY <1>1, <1>2, <1>3, <1>4, <2>2, <2>3, ConnectKeeps
<1>6. CASE ConnectSucceeds(s)
  <2> DEFINE c == [state[s] EXCEPT !.stage = "RELAY", !.reply = "SUCCESS",
                                   !.access_logged = @ \/ state[s].dest]
  <2>1. /\ state' = [state EXCEPT ![s] = c]
        /\ interest' = [interest EXCEPT ![Client(s)] = {"W"}, ![Target(s)] = {}]
        /\ metrics' = [metrics EXCEPT !.successful = @ + 1]
        /\ access_log' = AccessLog(s, state[s], TRUE)
        /\ UNCHANGED <<registered, open>>
    BY <1>6 DEF ConnectSucceeds
  <2>2. /\ c \in State /\ c.stage = "RELAY" /\ c.reply = "SUCCESS"
        /\ ~c.has_job /\ ~c.relay_started
    BY <1>2, <1>3 DEF State, Stages, Replies
  <2> HIDE DEF c
  <2>3. /\ interest' \in [Descriptors -> SUBSET {"R", "W"}]
        /\ interest'[Client(s)] = {"W"} /\ interest'[Target(s)] = {}
        /\ \A x \in Descriptors \ {Client(s), Target(s)} : interest'[x] = interest[x]
    BY <2>1, DescriptorFacts DEF IInv, TypeOK
  <2>4. Fits(c, interest'[Client(s)], interest'[Target(s)])
    BY <2>2, <2>3 DEF Fits
  <2>5. JobInv(s)'
    <3>1. state'[s] = c
      BY <2>1 DEF IInv, TypeOK
    <3>2. QED BY <1>4, <2>2, <3>1 DEF JobInv, Quiet
  <2>6. metrics \in Metrics
    BY DEF IInv, TypeOK
  <2>7. /\ metrics' \in Metrics
        /\ metrics'.concurrent = metrics.concurrent /\ metrics'.historical = metrics.historical
    <3>1. metrics' = [metrics EXCEPT !.successful = metrics.successful + 1]
      BY <2>1
    <3>2. metrics.successful + 1 \in Nat
      BY <2>6 DEF Metrics
    <3>3. QED BY <2>6, <3>1, <3>2 DEF Metrics
  <2>8. access_log' \in [Sessions -> Seq(BOOLEAN)]
    BY <1>3, <2>1, AccessLogType DEF IInv, TypeOK
  <2>9. QED BY <1>1, <1>2, <1>3, <1>4, <2>1, <2>2, <2>3, <2>4, <2>5, <2>7, <2>8, SessionStep
            DEF IInv, TypeOK
<1>7. QED BY <1>5, <1>6

\* The reply goes out, and the session goes on or ends.
LEMMA ReplyKeeps ==
    ASSUME IInv, NEW s \in Sessions, ReplySent(s)
    PROVE  IInv'
<1>1. /\ Serves(Client(s), "W") /\ state[s].reply # "nothing"
      /\ told' = [told EXCEPT ![s] = state[s].reply]
      /\ UNCHANGED <<pc, notes, loopVars, signalVars, users, access_log>>
  BY DEF ReplySent
<1>2. /\ Live(s) /\ Client(s) \in registered /\ state[s].stage \notin {"RESOLVING", "CONNECTING"}
  BY <1>1, ServedIsLive DEF Serves, IInv, DescriptorInv
<1>3. state[s] \in State
  BY DEF IInv, TypeOK
<1>4. told' \in [Sessions -> Replies \cup {"nothing"}]
  <2>1. state[s].reply \in Replies \cup {"nothing"}
    BY <1>3 DEF State
  <2>2. QED BY <1>1, <2>1 DEF IInv, TypeOK
<1>5. CASE state[s].stage = "CLOSING"
  BY <1>1, <1>2, <1>4, <1>5, CloseKeeps DEF ReplySent
<1>6. CASE state[s].stage # "CLOSING"
  <2> DEFINE c == [state[s] EXCEPT !.reply = "nothing",
                                   !.relay_started = (state[s].stage = "RELAY")]
             j == IF state[s].stage = "RELAY" THEN {"R"} ELSE interest[Target(s)]
  <2>1. /\ state' = [state EXCEPT ![s] = c]
        /\ UNCHANGED <<registered, open, job, metrics, active>>
        /\ interest' = [interest EXCEPT ![Client(s)] = {"R"},
                                ![Target(s)] = IF state[s].stage = "RELAY" THEN {"R"} ELSE @]
    BY <1>6 DEF ReplySent
  <2>2. /\ c \in State /\ c.stage = state[s].stage /\ c.reply = "nothing"
        /\ c.has_job = state[s].has_job
        /\ c.relay_started <=> state[s].stage = "RELAY"
    BY <1>3 DEF State
  <2> HIDE DEF c
  <2>3. /\ interest' \in [Descriptors -> SUBSET {"R", "W"}]
        /\ interest'[Client(s)] = {"R"} /\ interest'[Target(s)] = j
        /\ \A x \in Descriptors \ {Client(s), Target(s)} : interest'[x] = interest[x]
    <3>1. j \in SUBSET {"R", "W"}
      BY DescriptorFacts DEF IInv, TypeOK
    <3>2. interest' = [interest EXCEPT ![Client(s)] = {"R"}, ![Target(s)] = j]
      BY <2>1, DescriptorFacts DEF IInv, TypeOK
    <3> HIDE DEF j
    <3>3. QED BY <3>1, <3>2, DescriptorFacts DEF IInv, TypeOK
  <2>4. Fits(c, interest'[Client(s)], interest'[Target(s)])
    <3>1. state[s].stage # "RELAY" => j = {}
      BY <1>2 DEF IInv, DescriptorInv
    <3> HIDE DEF j
    <3>2. QED BY <1>2, <1>6, <2>2, <2>3, <3>1 DEF Fits
  <2>5. Target(s) \in open <=> state[s].stage \in {"CONNECTING", "RELAY"}
    BY <1>1, <1>2 DEF IInv, DescriptorInv, Serves
  <2>6. JobInv(s)'
    <3>1. state'[s] = c
      BY <2>1 DEF IInv, TypeOK
    <3>2. QED BY <1>1, <2>1, <2>2, <3>1 DEF IInv, JobInv
  <2>7. QED BY <1>1, <1>2, <1>4, <2>1, <2>2, <2>3, <2>4, <2>5, <2>6, SessionStep
            DEF IInv, TypeOK, Live
<1>7. QED BY <1>5, <1>6

\* Every step of a session's handlers.
LEMMA ServeKeeps ==
    ASSUME IInv, NEW s \in Sessions, Serve(s)
    PROVE  IInv'
<1>1. told \in [Sessions -> Replies \cup {"nothing"}]
  BY DEF IInv, TypeOK
<1>2. CASE ClientLeaves(s)
  BY <1>1, <1>2, CloseKeeps DEF ClientLeaves, Serves
<1>3. CASE ReplyFails(s)
  BY <1>1, <1>3, CloseKeeps DEF ReplyFails, Serves
<1>4. CASE RelayEnds(s)
  <2>1. Client(s) \in registered
    BY <1>4 DEF RelayEnds, IInv, DescriptorInv
  <2>2. QED BY <1>1, <1>4, <2>1, CloseKeeps DEF RelayEnds
<1>5. QED
  BY <1>2, <1>3, <1>4, AcceptKeeps, NegotiationKeeps, RequestKeeps, ConnectionKeeps, ReplyKeeps
     DEF Serve

-----------------------------------------------------------------------------
(* Threads and the loop *)

\* A step that leaves the sessions, their descriptors and the counters alone,
\* and does not enter or leave selector_destroy with a live session.
LEMMA ThreadStep ==
    ASSUME IInv, NEW s \in Sessions,
           job' \in [Sessions -> Job],
           pc' \in [Sessions -> {"none", "resolve", "enqueue", "signal", "free", "end"}],
           \A t \in Sessions \ {s} : job'[t] = job[t] /\ pc'[t] = pc[t],
           notes' \in Seq(Sessions),
           JobInv(s)',
           UNCHANGED <<sessionVars, loopVars, signalVars, users, bookVars>>
    PROVE  IInv'
<1>1. TypeOK'
  BY DEF IInv, TypeOK, sessionVars, loopVars, signalVars, bookVars
<1>2. CountersExact'
  BY DEF IInv, CountersExact, LiveSessions, BornSessions, Live, sessionVars, bookVars
<1>3. \A t \in Sessions : DescriptorInv(t)'
  BY DEF IInv, DescriptorInv, Live, sessionVars, loopVars
<1>4. \A t \in Sessions : JobInv(t)'
  BY OtherJobs DEF sessionVars
<1>5. QED BY <1>1, <1>2, <1>3, <1>4 DEF IInv, sessionVars

\* Every step of a resolver thread.
LEMMA ThreadKeeps ==
    ASSUME IInv, NEW s \in Sessions, Thread(s)
    PROVE  IInv'
<1>1. /\ job \in [Sessions -> Job] /\ job[s] \in Job /\ notes \in Seq(Sessions)
      /\ pc \in [Sessions -> {"none", "resolve", "enqueue", "signal", "free", "end"}]
      /\ JobInv(s)
  BY DEF IInv, TypeOK
<1>2. CASE resolve_target(s)
  <2>1. PICK answer \in {[status |-> g, result |-> <<>>] : g \in GaiErrors}
                            \cup {[status |-> "OK", result |-> a] : a \in Answers} :
          job' = [job EXCEPT ![s] = [@ EXCEPT !.status = answer.status,
                                              !.result = answer.result, !.done = TRUE]]
    BY <1>2 DEF resolve_target
  <2>2. /\ answer.status \in GaiErrors \cup {"OK", "EAI_AGAIN"}
        /\ answer.result \in Answers \cup {<<>>}
    OBVIOUS
  <2> DEFINE k == [job[s] EXCEPT !.status = answer.status, !.result = answer.result,
                                 !.done = TRUE]
  <2>3. /\ k \in Job /\ k.done /\ k.mem = job[s].mem /\ k.waiting = job[s].waiting
    BY <1>1, <2>2 DEF Job
  <2>4. job' = [job EXCEPT ![s] = k]
    BY <1>1, <2>1
  <2>5. /\ pc[s] = "resolve"
        /\ pc' = [pc EXCEPT ![s] = IF job[s].waiting THEN "enqueue" ELSE "free"]
        /\ UNCHANGED <<sessionVars, notes, loopVars, signalVars, users, bookVars>>
    BY <1>2 DEF resolve_target
  <2> HIDE DEF k
  <2>6. /\ job' \in [Sessions -> Job] /\ job'[s] = k
        /\ pc' \in [Sessions -> {"none", "resolve", "enqueue", "signal", "free", "end"}]
        /\ pc'[s] = IF job[s].waiting THEN "enqueue" ELSE "free"
        /\ \A t \in Sessions \ {s} : job'[t] = job[t] /\ pc'[t] = pc[t]
    BY <1>1, <2>3, <2>4, <2>5
  <2>7. JobInv(s)'
    BY <1>1, <2>3, <2>5, <2>6 DEF JobInv, sessionVars
  <2>8. QED BY <1>1, <2>5, <2>6, <2>7, ThreadStep
<1>3. ASSUME NEW p \in {"signal", "end"}, pc[s] \in {"enqueue", "signal"},
             pc' = [pc EXCEPT ![s] = p], notes' \in Seq(Sessions),
             UNCHANGED <<sessionVars, job, loopVars, signalVars, users, bookVars>>
      PROVE  IInv'
  <2>1. /\ pc' \in [Sessions -> {"none", "resolve", "enqueue", "signal", "free", "end"}]
        /\ pc'[s] = p /\ \A t \in Sessions \ {s} : pc'[t] = pc[t]
    BY <1>1, <1>3
  <2>2. JobInv(s)'
    BY <1>1, <1>3, <2>1 DEF JobInv, sessionVars
  <2>3. QED BY <1>1, <1>3, <2>1, <2>2, ThreadStep
<1>4. CASE Enqueue(s)
  <2>1. <<s>> \o notes \in Seq(Sessions)
    BY <1>1
  <2>2. QED BY <1>1, <1>3, <1>4, <2>1 DEF Enqueue
<1>5. CASE EnqueueFails(s)
  BY <1>1, <1>3, <1>5 DEF EnqueueFails
<1>6. CASE SignalMain(s)
  BY <1>1, <1>3, <1>6 DEF SignalMain
<1>7. CASE FreeJob(s)
  <2> DEFINE k == [job[s] EXCEPT !.mem = "freed", !.result = <<>>]
  <2>1. k \in Job /\ k.done = job[s].done /\ k.mem = "freed" /\ k.waiting = job[s].waiting
    BY <1>1 DEF Job
  <2>2. /\ pc[s] = "free" /\ job' = [job EXCEPT ![s] = k]
        /\ pc' = [pc EXCEPT ![s] = "end"]
        /\ UNCHANGED <<sessionVars, notes, loopVars, signalVars, users, bookVars>>
    BY <1>1, <1>7 DEF FreeJob
  <2> HIDE DEF k
  <2>3. /\ job' \in [Sessions -> Job] /\ job'[s] = k /\ pc'[s] = "end"
        /\ pc' \in [Sessions -> {"none", "resolve", "enqueue", "signal", "free", "end"}]
        /\ \A t \in Sessions \ {s} : job'[t] = job[t] /\ pc'[t] = pc[t]
    BY <1>1, <2>1, <2>2
  <2>4. JobInv(s)'
    BY <1>1, <2>1, <2>2, <2>3 DEF JobInv, sessionVars
  <2>5. QED BY <1>1, <2>2, <2>3, <2>4, ThreadStep
<1>8. QED BY <1>2, <1>4, <1>5, <1>6, <1>7 DEF Thread

\* A step of the loop that touches no session.  selector_destroy ends without
\* registered descriptors, hence without sessions.
LEMMA LoopStep ==
    ASSUME IInv,
           loop' \in {"select", "notify", "check", "while", "drain", "destroy", "report", "exit"},
           loop = "destroy" => loop' = "destroy" \/ registered = {},
           listening' \in BOOLEAN, selector' \in {"live", "freed"}, notes' \in Seq(Sessions),
           shutdown_requested' \in BOOLEAN, force_shutdown' \in BOOLEAN,
           users' \subseteq UserPool,
           UNCHANGED <<sessionVars, jobVars, bookVars>>
    PROVE  IInv'
<1>1. TypeOK'
  BY DEF IInv, TypeOK, sessionVars, jobVars, bookVars
<1>2. CountersExact'
  BY DEF IInv, CountersExact, LiveSessions, BornSessions, Live, sessionVars, bookVars
<1>3. ASSUME NEW s \in Sessions PROVE DescriptorInv(s)'
  <2>1. DescriptorInv(s)
    BY DEF IInv
  <2>2. loop' # "destroy" /\ state[s].stage \in {"CONNECTING", "RELAY"} => Target(s) \in open
    <3>1. CASE loop = "destroy"
      BY <2>1, <3>1 DEF IInv, DescriptorInv, Live
    <3>2. CASE loop # "destroy"
      BY <2>1, <3>2 DEF DescriptorInv
    <3>3. QED BY <3>1, <3>2
  <2>3. QED BY <2>1, <2>2 DEF DescriptorInv, Live, sessionVars
<1>4. \A s \in Sessions : JobInv(s)'
  BY DEF IInv, JobInv, sessionVars, jobVars
<1>5. QED BY <1>1, <1>2, <1>3, <1>4 DEF IInv, sessionVars

\* A notification is handled: the session that waits takes the answer.
LEMMA HandleNoteKeeps ==
    ASSUME IInv, HandleNote
    PROVE  IInv'
<1>1. /\ notes # <<>> /\ notes \in Seq(Sessions)
      /\ notes' = Tail(notes) /\ UNCHANGED <<pc, loopVars, signalVars, users, active, told>>
  BY DEF HandleNote, NotesLeft, IInv, TypeOK
<1>2. loop = "notify"
  BY DEF HandleNote
<1>3. notes' \in Seq(Sessions) /\ Head(notes) \in Sessions
  BY <1>1
<1> PICK s \in Sessions : s = Head(notes)
  BY <1>3
<1>4. CASE OnResolve(s) /\ state[s].stage = "RESOLVING" /\ state[s].has_job /\ job[s].done
  <2> DEFINE c == [state[s] EXCEPT !.has_job = FALSE]
             k == [job[s] EXCEPT !.mem = "freed", !.waiting = FALSE, !.result = <<>>]
  <2>1. /\ state[s] \in State /\ job[s] \in Job /\ job \in [Sessions -> Job]
        /\ DescriptorInv(s) /\ JobInv(s)
    BY <1>3 DEF IInv, TypeOK
  <2>2. Live(s) /\ state[s].reply = "nothing" /\ ~state[s].relay_started
    BY <1>4, <2>1 DEF DescriptorInv, Live
  <2>3. c \in State /\ ~c.has_job /\ ~c.relay_started /\ c.reply = "nothing"
    BY <2>1, <2>2 DEF State
  <2>4. k \in Job /\ ~k.waiting /\ k.mem = "freed" /\ k.done
    BY <1>4, <2>1 DEF Job
  <2>5. /\ job' = [job EXCEPT ![s] = k]
        /\ IF job[s].status # "OK"
           THEN RefuseRequest(s, c, socks5_reply_for_gai_error(job[s].status))
           ELSE Connect(s, [c EXCEPT !.addrs = job[s].result])
    BY <1>4 DEF OnResolve
  <2> HIDE DEF c, k
  <2>6. /\ job' \in [Sessions -> Job] /\ job'[s] = k
        /\ \A t \in Sessions \ {s} : job'[t] = job[t]
    BY <1>3, <2>1, <2>4, <2>5
  <2>7. pc[s] \in {"enqueue", "signal", "end"}
    BY <1>3, <1>4, <2>1 DEF IInv, TypeOK, JobInv
  <2>8. Quiet(s)'
    BY <1>1, <2>4, <2>6, <2>7 DEF Quiet
  <2>9. CASE job[s].status # "OK"
    BY <1>1, <1>3, <2>2, <2>3, <2>5, <2>6, <2>8, <2>9, ErrorReplies, RefuseKeeps
  <2>10. CASE job[s].status = "OK"
    <3> DEFINE d == [c EXCEPT !.addrs = job[s].result]
    <3>1. job[s].result \in Seq({"inet", "other"})
      <4>1. <<>> \in Seq({"inet", "other"})
        OBVIOUS
      <4>2. job[s].result \in Answers \cup {<<>>}
        BY <2>1 DEF Job
      <4>3. QED BY <4>1, <4>2, AnswersAssumption
    <3>2. d \in State /\ ~d.has_job /\ ~d.relay_started /\ d.reply = "nothing"
      BY <2>3, <3>1 DEF State
    <3>3. Connect(s, d)
      BY <2>5, <2>10
    <3> HIDE DEF d
    <3>4. QED BY <1>1, <1>3, <2>2, <2>6, <2>8, <3>2, <3>3, ConnectKeeps
  <2>11. QED BY <2>9, <2>10
<1>5. CASE UNCHANGED <<sessionVars, job, metrics, access_log>>
  <2>1. UNCHANGED <<sessionVars, jobVars, bookVars>>
    BY <1>1, <1>5 DEF jobVars, bookVars
  <2>2. QED BY <1>1, <1>2, <1>3, <2>1, LoopStep DEF IInv, TypeOK, loopVars, signalVars
<1>6. QED BY <1>4, <1>5 DEF HandleNote

\* selector_destroy closes a descriptor.
LEMMA DestroyItemKeeps ==
    ASSUME IInv, NEW x \in registered, DestroyItem(x)
    PROVE  IInv'
<1>1. /\ loop = "destroy"
      /\ UNCHANGED <<pc, notes, loopVars, signalVars, users, access_log, told>>
      /\ IF x[2] = "client" THEN client_close(x[1]) ELSE target_close(x)
  BY DEF DestroyItem
<1>2. PICK s \in Sessions : x = Client(s) \/ x = Target(s)
  BY DEF IInv, TypeOK, Descriptors, Client, Target
<1>3. CASE x = Client(s)
  <2>1. client_close(s)
    BY <1>1, <1>3 DEF Client
  <2>2. QED BY <1>1, <1>3, <2>1, CloseKeeps DEF IInv, TypeOK
<1>4. CASE x = Target(s)
  <2>1. /\ registered' = registered \ {Target(s)} /\ open' = open \ {Target(s)}
        /\ interest' = [interest EXCEPT ![Target(s)] = {}]
        /\ UNCHANGED <<state, job, metrics, active>>
    BY <1>1, <1>4 DEF target_close, Target
  <2>2. /\ interest' \in [Descriptors -> SUBSET {"R", "W"}] /\ interest'[Target(s)] = {}
        /\ \A y \in Descriptors \ {Target(s)} : interest'[y] = interest[y]
    BY <2>1, DescriptorFacts DEF IInv, TypeOK
  <2>3. TypeOK'
    BY <1>1, <2>1, <2>2 DEF IInv, TypeOK, loopVars, signalVars
  <2>4. CountersExact'
    BY <2>1, SameCounts DEF Live
  <2>5. \A t \in Sessions : DescriptorInv(t)'
    <3>1. Confined(s)
      BY <2>1, <2>2, DescriptorFacts DEF Confined
    <3>2. DescriptorInv(s)'
      BY <1>1, <2>1, <2>2, DescriptorFacts DEF IInv, DescriptorInv, Live, loopVars
    <3>3. QED BY <1>1, <3>1, <3>2, OtherDescriptors DEF loopVars
  <2>6. \A t \in Sessions : JobInv(t)'
    BY <1>1, <2>1 DEF IInv, JobInv
  <2>7. QED BY <2>1, <2>3, <2>4, <2>5, <2>6 DEF IInv
<1>5. QED BY <1>2, <1>3, <1>4

\* Every step of the main loop.
LEMMA LoopKeeps ==
    ASSUME IInv, Loop
    PROVE  IInv'
<1>1. /\ listening \in BOOLEAN /\ selector \in {"live", "freed"} /\ notes \in Seq(Sessions)
      /\ shutdown_requested \in BOOLEAN /\ force_shutdown \in BOOLEAN
      /\ users \subseteq UserPool /\ <<>> \in Seq(Sessions)
  BY DEF IInv, TypeOK
<1>2. CASE EndIteration
  BY <1>1, <1>2, LoopStep DEF EndIteration, signalVars
<1>3. CASE NotesHandled
  BY <1>1, <1>3, LoopStep DEF NotesHandled, signalVars
<1>4. CASE Check
  BY <1>1, <1>4, LoopStep DEF Check, signalVars
<1>5. CASE While
  BY <1>1, <1>5, LoopStep DEF While, signalVars
<1>6. CASE Drain
  BY <1>1, <1>6, LoopStep DEF Drain, signalVars
<1>7. CASE DestroySelector
  BY <1>1, <1>7, LoopStep DEF DestroySelector, signalVars
<1>8. CASE Exit
  BY <1>1, <1>8, LoopStep DEF Exit, signalVars
<1>9. QED
  BY <1>2, <1>3, <1>4, <1>5, <1>6, <1>7, <1>8, HandleNoteKeeps, DestroyItemKeeps DEF Loop

-----------------------------------------------------------------------------
(* The theorems *)

\* The invariant holds when server_run enters its loop.
LEMMA InitKeeps == Init => IInv
<1> SUFFICES ASSUME Init PROVE IInv
  OBVIOUS
<1>1. /\ state \in [Sessions -> State]
      /\ \A s \in Sessions : /\ state[s].stage = "UNBORN" /\ ~state[s].has_job
                            /\ ~state[s].relay_started
  <2>1. \A s \in Sessions : state[s] = [NewState EXCEPT !.stage = "UNBORN"]
    BY DEF Init
  <2>2. QED BY <2>1, NewStateType DEF Init, NewState
<1>2. /\ job \in [Sessions -> Job]
      /\ \A s \in Sessions : job[s].mem = "none" /\ ~job[s].waiting /\ ~job[s].done
  BY DEF Init, NoJob, Job
<1>3. TypeOK
  <2>1. metrics \in Metrics
    BY DEF Init, Metrics
  <2>2. <<>> \in Seq(BOOLEAN) /\ notes \in Seq(Sessions)
    BY DEF Init
  <2>3. QED BY <1>1, <1>2, <2>1, <2>2, SetsAssumption DEF Init, TypeOK
<1>4. CountersExact
  <2>1. LiveSessions = {} /\ BornSessions = {}
    BY <1>1 DEF LiveSessions, BornSessions, Live
  <2>2. QED BY <2>1, FS_EmptySet DEF Init, CountersExact
<1>5. \A s \in Sessions : DescriptorInv(s)
  BY <1>1, DescriptorFacts DEF Init, DescriptorInv, Live
<1>6. \A s \in Sessions : JobInv(s)
  BY <1>1, <1>2 DEF Init, JobInv
<1>7. QED BY <1>3, <1>4, <1>5, <1>6 DEF IInv, Init

\* Every step of a handler, a thread, the loop or a signal keeps the invariant.
LEMMA NextKeeps == IInv /\ [Next]_vars => IInv'
<1> SUFFICES ASSUME IInv, [Next]_vars PROVE IInv'
  OBVIOUS
<1>1. /\ listening \in BOOLEAN /\ selector \in {"live", "freed"} /\ notes \in Seq(Sessions)
      /\ shutdown_requested \in BOOLEAN /\ force_shutdown \in BOOLEAN
      /\ users \subseteq UserPool
      /\ loop \in {"select", "notify", "check", "while", "drain", "destroy", "report", "exit"}
  BY DEF IInv, TypeOK
<1>2. ASSUME NEW u \in UserPool, users_add(u) \/ users_remove(u)
      PROVE  IInv'
  BY <1>1, <1>2, LoopStep DEF users_add, users_remove, loopVars, signalVars
<1>3. CASE sigterm_handler
  BY <1>1, <1>3, LoopStep DEF sigterm_handler, loopVars
<1>4. CASE UNCHANGED vars
  BY <1>1, <1>4, LoopStep DEF vars, loopVars, signalVars
<1>5. QED BY <1>2, <1>3, <1>4, ServeKeeps, ThreadKeeps, LoopKeeps DEF Next

\* The inductive invariant is an invariant.
THEOREM Inductive == Spec => []IInv
<1>1. QED BY InitKeeps, NextKeeps, PTL DEF Spec

\* The state of the sessions, jobs, threads and counters always has its type;
\* in particular the unguarded decrement of active_client_connections never
\* wraps around.
THEOREM TypeCorrect == Spec => []TypeOK
<1>1. IInv => TypeOK
  BY IInvImplies
<1>2. QED BY <1>1, Inductive, PTL

\* The counter that graceful shutdown waits on and the connection metrics count
\* the sessions, on every path that creates or closes one.
THEOREM CountersAreExact == Spec => []CountersExact
<1>1. IInv => CountersExact
  BY IInvImplies
<1>2. QED BY <1>1, Inductive, PTL

\* No descriptor leaks and none is watched after it is closed, on any error path.
THEOREM DescriptorsAreExact == Spec => []DescriptorsExact
<1>1. IInv => DescriptorsExact
  BY IInvImplies
<1>2. QED BY <1>1, Inductive, PTL

\* The selector watches for every session what its stage calls for.
THEOREM InterestsFollow == Spec => []InterestFollowsStage
<1>1. IInv => InterestFollowsStage
  BY IInvImplies
<1>2. QED BY <1>1, Inductive, PTL

\* Session and resolver thread never use a freed job, free one twice or lose one.
THEOREM JobsAreSafe == Spec => []JobSafe
<1>1. IInv => JobSafe
  BY IInvImplies
<1>2. QED BY <1>1, Inductive, PTL
=============================================================================
