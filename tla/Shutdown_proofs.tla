--------------------------- MODULE Shutdown_proofs ---------------------------
(***************************************************************************)
(* Notifications and shutdown, for every number of sessions: what resolver *)
(* threads queue is what the loop expects, and a shutdown without a second *)
(* signal drops no session and frees the selector under no thread that has *)
(* yet to queue its notification.                                          *)
(*                                                                         *)
(* The argument: a session that waits for a name has no interest in any    *)
(* descriptor, so while the loop runs only its own notification moves it   *)
(* on.  A thread that has decided to notify therefore finds its session    *)
(* where it was; and as such a session is live, the loop is not left       *)
(* without a second signal before the notification has been handled.       *)
(***************************************************************************)
EXTENDS Proxy_proofs

\* selector_select is called again and again.
Running == loop \in {"select", "notify", "check", "while"}

\* A thread that is about to queue its notification has a session that waits.
AnnouncersAwaited ==
    Running \/ ~force_shutdown =>
        \A s \in Sessions : pc[s] = "enqueue" => state[s].has_job

\* The queued notifications: each one's thread is past the queue, its session
\* waits while the loop runs, and none is queued twice.
QueueInv ==
    \A i \in 1 .. Len(notes) :
        /\ pc[notes[i]] \in {"signal", "end"}
        /\ Running => state[notes[i]].has_job
        /\ \A k \in 1 .. Len(notes) : notes[k] = notes[i] => k = i

\* The second invariant, inductive together with IInv.
SInv ==
    /\ force_shutdown => shutdown_requested
    /\ selector = "freed" => loop \in {"report", "exit"}
    /\ GracefulDropsNobody
    /\ AnnouncersAwaited
    /\ QueueInv

\* What the second invariant is for.
LEMMA SInvImplies ==
    ASSUME IInv, SInv
    PROVE  NotesFresh /\ GracefulDropsNobody /\ EnqueuesInLiveSelector
<1>1. NotesFresh
  <2>1. ASSUME Running, NEW i \in 1 .. Len(notes)
        PROVE  /\ state[notes[i]].stage = "RESOLVING" /\ state[notes[i]].has_job
               /\ job[notes[i]].done
               /\ \A k \in 1 .. Len(notes) : notes[k] = notes[i] => k = i
    <3>1. notes[i] \in Sessions
      BY DEF IInv, TypeOK
    <3>2. /\ pc[notes[i]] \in {"signal", "end"} /\ state[notes[i]].has_job
          /\ \A k \in 1 .. Len(notes) : notes[k] = notes[i] => k = i
      BY <2>1 DEF SInv, QueueInv
    <3>3. QED BY <3>1, <3>2 DEF IInv, JobInv
  <2>2. QED BY <2>1 DEF NotesFresh, Running
<1>2. EnqueuesInLiveSelector
  <2>1. ASSUME ~force_shutdown, NEW s \in Sessions, pc[s] = "enqueue", selector # "live"
        PROVE  FALSE
    <3>1. loop \in {"report", "exit"}
      BY <2>1 DEF IInv, TypeOK, SInv
    <3>2. state[s].has_job
      BY <2>1 DEF SInv, AnnouncersAwaited
    <3>3. Live(s)
      BY <3>2 DEF IInv, JobInv, Live
    <3>4. QED BY <2>1, <3>1, <3>3 DEF SInv, GracefulDropsNobody
  <2>2. QED BY <2>1 DEF EnqueuesInLiveSelector
<1>3. QED BY <1>1, <1>2 DEF SInv

-----------------------------------------------------------------------------
(* Handlers *)

\* A handler of session s runs in the loop, for a session without a job, and
\* changes no other session; the only thread it may start is a new one.
LEMMA ServeFrame ==
    ASSUME IInv, NEW s \in Sessions, Serve(s)
    PROVE  /\ loop = "select" /\ ~state[s].has_job
           /\ \A t \in Sessions \ {s} : state'[t] = state[t]
           /\ \/ pc' = pc
              \/ pc[s] = "none" /\ pc' = [pc EXCEPT ![s] = "resolve"]
           /\ UNCHANGED <<notes, loopVars, signalVars>>
<1>1. /\ state \in [Sessions -> State] /\ DescriptorInv(s) /\ JobInv(s)
  BY DEF IInv, TypeOK
<1>2. ASSUME NEW op, Serves(Client(s), op) \/ Serves(Target(s), op)
      PROVE  loop = "select" /\ ~state[s].has_job
  <2>1. state[s].stage # "RESOLVING"
    BY <1>1, <1>2 DEF IInv, DescriptorInv, Serves
  <2>2. QED BY <1>1, <1>2, <2>1 DEF JobInv, Serves
<1>3. ASSUME NEW st, Receives(s, st)
      PROVE  loop = "select" /\ ~state[s].has_job
  BY <1>2, <1>3 DEF Receives
<1>4. ASSUME NEW c, state' = [state EXCEPT ![s] = c]
      PROVE  \A t \in Sessions \ {s} : state'[t] = state[t]
  BY <1>1, <1>4
<1>5. CASE accept_connection(s)
  BY <1>1, <1>4, <1>5 DEF accept_connection, JobInv, jobVars
<1>6. ASSUME NEW offered, Greeting(s, offered)
      PROVE  /\ loop = "select" /\ ~state[s].has_job
             /\ \A t \in Sessions \ {s} : state'[t] = state[t]
             /\ pc' = pc /\ UNCHANGED <<notes, loopVars, signalVars>>
  BY <1>3, <1>4, <1>6 DEF Greeting, Await, jobVars
<1>7. ASSUME NEW credentials, Authenticate(s, credentials)
      PROVE  /\ loop = "select" /\ ~state[s].has_job
             /\ \A t \in Sessions \ {s} : state'[t] = state[t]
             /\ pc' = pc /\ UNCHANGED <<notes, loopVars, signalVars>>
  BY <1>3, <1>4, <1>7 DEF Authenticate, Await, jobVars
<1>8. CASE ClientLeaves(s)
  BY <1>2, <1>4, <1>8 DEF ClientLeaves, client_close
<1>9. ASSUME NEW r, RejectRequest(s, r)
      PROVE  /\ loop = "select" /\ ~state[s].has_job
             /\ \A t \in Sessions \ {s} : state'[t] = state[t]
             /\ pc' = pc /\ UNCHANGED <<notes, loopVars, signalVars>>
  BY <1>3, <1>4, <1>9 DEF RejectRequest, Refuses, RefuseRequest, jobVars
<1>10. ASSUME NEW c, Connect(s, c)
       PROVE  \A t \in Sessions \ {s} : state'[t] = state[t]
  <2>1. \E d : state' = [state EXCEPT ![s] = d]
    BY <1>10 DEF Connect, Refuses, RefuseRequest
  <2>2. QED BY <1>4, <2>1
<1>11. CASE BeginAddress(s)
  BY <1>3, <1>10, <1>11 DEF BeginAddress, jobVars
<1>12. ASSUME NEW named, BeginDomain(s, named)
       PROVE  /\ loop = "select" /\ ~state[s].has_job
              /\ \A t \in Sessions \ {s} : state'[t] = state[t]
              /\ \/ pc' = pc
                 \/ pc[s] = "none" /\ pc' = [pc EXCEPT ![s] = "resolve"]
              /\ UNCHANGED <<notes, loopVars, signalVars>>
  <2>1. Receives(s, "REQUEST") /\ UNCHANGED <<notes, loopVars, signalVars>>
    BY <1>12 DEF BeginDomain
  <2>2. pc' = pc \/ pc' = [pc EXCEPT ![s] = "resolve"]
    BY <1>12 DEF BeginDomain, jobVars
  <2>3. \E d : state' = [state EXCEPT ![s] = d]
    BY <1>12 DEF BeginDomain, Await, Refuses, RefuseRequest
  <2>4. QED BY <1>3, <1>4, <2>1, <2>2, <2>3, ReceivingFacts
<1>13. CASE ConnectSucceeds(s)
  <2>1. \E d : state' = [state EXCEPT ![s] = d]
    BY <1>13 DEF ConnectSucceeds
  <2>2. QED BY <1>2, <1>4, <1>13, <2>1 DEF ConnectSucceeds, jobVars
<1>14. CASE ConnectFails(s)
  BY <1>2, <1>10, <1>14 DEF ConnectFails, jobVars
<1>15. CASE ReplySent(s)
  <2>1. \E d : state' = [state EXCEPT ![s] = d]
    BY <1>15 DEF ReplySent, client_close
  <2>2. QED BY <1>2, <1>4, <1>15, <2>1 DEF ReplySent
<1>16. CASE ReplyFails(s)
  BY <1>2, <1>4, <1>16 DEF ReplyFails, client_close
<1>17. CASE RelayEnds(s)
  <2>1. state[s].stage = "RELAY"
    BY <1>1, <1>17 DEF RelayEnds, DescriptorInv
  <2>2. QED BY <1>1, <1>4, <1>17, <2>1 DEF RelayEnds, client_close, JobInv
<1>18. QED
  BY <1>5, <1>6, <1>7, <1>8, <1>9, <1>11, <1>12, <1>13, <1>14, <1>15, <1>16, <1>17 DEF Serve

\* The handlers keep the second invariant.
LEMMA ServeKeepsS ==
    ASSUME IInv, SInv, NEW s \in Sessions, Serve(s)
    PROVE  SInv'
<1>1. /\ loop = "select" /\ ~state[s].has_job
      /\ \A t \in Sessions \ {s} : state'[t] = state[t]
      /\ \/ pc' = pc
         \/ pc[s] = "none" /\ pc' = [pc EXCEPT ![s] = "resolve"]
      /\ notes' = notes /\ UNCHANGED <<loop, selector, force_shutdown, shutdown_requested>>
  BY ServeFrame DEF loopVars, signalVars
<1>2. notes \in Seq(Sessions) /\ pc \in [Sessions -> {"none", "resolve", "enqueue", "signal", "free", "end"}]
  BY DEF IInv, TypeOK
<1>3. Running
  BY <1>1 DEF Running
<1>4. \A t \in Sessions : pc[t] = "enqueue" => state[t].has_job
  BY <1>3 DEF SInv, AnnouncersAwaited
<1>5. AnnouncersAwaited'
  <2>1. ASSUME NEW t \in Sessions, pc'[t] = "enqueue" PROVE state'[t].has_job
    BY <1>1, <1>2, <1>4, <2>1
  <2>2. QED BY <2>1 DEF AnnouncersAwaited
<1>6. QueueInv'
  <2>1. ASSUME NEW i \in 1 .. Len(notes)
        PROVE  pc'[notes[i]] = pc[notes[i]] /\ state'[notes[i]] = state[notes[i]]
    <3>1. notes[i] \in Sessions
      BY <1>2
    <3>2. state[notes[i]].has_job
      BY <1>3 DEF SInv, QueueInv
    <3>3. QED BY <1>1, <1>2, <3>1, <3>2
  <2>2. QED BY <1>1, <1>3, <2>1 DEF SInv, QueueInv, Running
<1>7. GracefulDropsNobody'
  BY <1>1 DEF GracefulDropsNobody
<1>8. QED BY <1>1, <1>5, <1>6, <1>7 DEF SInv

-----------------------------------------------------------------------------
(* Threads *)

\* The threads keep the second invariant.
LEMMA ThreadKeepsS ==
    ASSUME IInv, SInv, NEW s \in Sessions, Thread(s)
    PROVE  SInv'
<1>1. /\ UNCHANGED <<state, loop, selector, force_shutdown, shutdown_requested>>
  BY DEF Thread, resolve_target, Enqueue, EnqueueFails, SignalMain, FreeJob,
         sessionVars, loopVars, signalVars
<1>2. /\ notes \in Seq(Sessions) /\ JobInv(s)
      /\ pc \in [Sessions -> {"none", "resolve", "enqueue", "signal", "free", "end"}]
  BY DEF IInv, TypeOK
<1>3. GracefulDropsNobody'
  BY <1>1 DEF SInv, GracefulDropsNobody, Live
<1>4. ASSUME NEW p, pc' = [pc EXCEPT ![s] = p],
             p = "enqueue" => state[s].has_job
      PROVE  AnnouncersAwaited'
  BY <1>1, <1>2, <1>4 DEF SInv, AnnouncersAwaited, Running
<1>5. ASSUME NEW p, pc' = [pc EXCEPT ![s] = p], notes' = notes,
             pc[s] \in {"signal", "end"} => p \in {"signal", "end"}
      PROVE  QueueInv'
  <2>1. ASSUME NEW i \in 1 .. Len(notes) PROVE pc'[notes[i]] \in {"signal", "end"}
    <3>1. notes[i] \in Sessions /\ pc[notes[i]] \in {"signal", "end"}
      BY <1>2 DEF SInv, QueueInv
    <3>2. QED BY <1>2, <1>5, <3>1
  <2>2. QED BY <1>1, <1>5, <2>1 DEF SInv, QueueInv, Running
<1>6. CASE resolve_target(s)
  <2>1. /\ pc[s] = "resolve" /\ notes' = notes
        /\ pc' = [pc EXCEPT ![s] = IF job[s].waiting THEN "enqueue" ELSE "free"]
    BY <1>6 DEF resolve_target
  <2>2. job[s].waiting <=> state[s].has_job
    BY <1>2 DEF JobInv
  <2>3. QED BY <1>1, <1>3, <1>4, <1>5, <2>1, <2>2 DEF SInv
<1>7. CASE EnqueueFails(s) \/ SignalMain(s) \/ FreeJob(s)
  <2>1. pc' = [pc EXCEPT ![s] = "end"] /\ notes' = notes
    BY <1>7 DEF EnqueueFails, SignalMain, FreeJob
  <2>2. QED BY <1>1, <1>3, <1>4, <1>5, <2>1 DEF SInv
<1>8. CASE Enqueue(s) /\ selector # "live"
  <2>1. pc' = [pc EXCEPT ![s] = "end"] /\ notes' = notes
    BY <1>8 DEF Enqueue
  <2>2. QED BY <1>1, <1>3, <1>4, <1>5, <2>1 DEF SInv
<1>9. CASE Enqueue(s) /\ selector = "live"
  <2>1. /\ pc[s] = "enqueue" /\ pc' = [pc EXCEPT ![s] = "signal"]
        /\ notes' = <<s>> \o notes
    BY <1>9 DEF Enqueue
  <2>2. /\ Len(notes') = Len(notes) + 1 /\ notes'[1] = s
        /\ \A i \in 2 .. Len(notes) + 1 : i - 1 \in 1 .. Len(notes) /\ notes'[i] = notes[i - 1]
    BY <1>2, <2>1
  <2>3. Running => state[s].has_job
    BY <2>1 DEF SInv, AnnouncersAwaited
  <2>4. \A i \in 1 .. Len(notes) : notes[i] \in Sessions /\ notes[i] # s
    BY <1>2, <2>1 DEF SInv, QueueInv
  <2>5. pc'[s] = "signal" /\ \A t \in Sessions \ {s} : pc'[t] = pc[t]
    BY <1>2, <2>1
  <2>6. QueueInv'
    <3>1. ASSUME NEW i \in 1 .. Len(notes')
          PROVE  /\ pc'[notes'[i]] \in {"signal", "end"}
                 /\ Running' => state'[notes'[i]].has_job
      <4>1. CASE i = 1
        BY <1>1, <2>2, <2>3, <2>5, <4>1 DEF Running
      <4>2. CASE i # 1
        <5>1. i \in 2 .. Len(notes) + 1
          BY <1>2, <2>2, <4>2
        <5>2. notes'[i] = notes[i - 1] /\ i - 1 \in 1 .. Len(notes)
          BY <2>2, <5>1
        <5>3. QED BY <1>1, <2>4, <2>5, <5>2 DEF SInv, QueueInv, Running
      <4>3. QED BY <4>1, <4>2
    <3>2. ASSUME NEW i \in 1 .. Len(notes'), NEW k \in 1 .. Len(notes'), notes'[k] = notes'[i]
          PROVE  k = i
      <4>1. Len(notes) \in Nat
        BY <1>2
      <4>2. CASE i = 1 /\ k # 1
        BY <2>2, <2>4, <3>2, <4>1, <4>2
      <4>3. CASE i # 1 /\ k = 1
        BY <2>2, <2>4, <3>2, <4>1, <4>3
      <4>4. CASE i # 1 /\ k # 1
        <5>1. /\ i - 1 \in 1 .. Len(notes) /\ k - 1 \in 1 .. Len(notes)
              /\ notes[k - 1] = notes[i - 1]
          BY <2>2, <3>2, <4>1, <4>4
        <5>2. k - 1 = i - 1
          BY <5>1 DEF SInv, QueueInv
        <5>3. QED BY <2>2, <4>1, <5>2
      <4>5. QED BY <4>2, <4>3, <4>4
    <3>3. QED BY <3>1, <3>2 DEF QueueInv
  <2>7. QED BY <1>1, <1>3, <1>4, <2>1, <2>6 DEF SInv
<1>10. QED BY <1>6, <1>7, <1>8, <1>9 DEF Thread

-----------------------------------------------------------------------------
(* The loop *)

\* A step that leaves sessions, threads and notifications alone, and leaves the
\* loop only without sessions or after a second signal.
LEMMA CalmStep ==
    ASSUME IInv, SInv,
           UNCHANGED <<state, pc, notes>>,
           force_shutdown => force_shutdown', force_shutdown' => shutdown_requested',
           selector' = selector, selector = "freed" => loop' \in {"report", "exit"},
           Running' => Running,
           Running /\ loop' \in {"drain", "destroy", "report", "exit"} =>
                force_shutdown \/ \A s \in Sessions : ~Live(s)
    PROVE  SInv'
<1>1. GracefulDropsNobody'
  <2>1. ASSUME loop' \in {"drain", "destroy", "report", "exit"}, ~force_shutdown'
        PROVE  \A s \in Sessions : ~Live(s)
    <3>1. CASE Running
      BY <2>1, <3>1
    <3>2. CASE ~Running
      <4>1. loop \in {"drain", "destroy", "report", "exit"}
        BY <3>2 DEF IInv, TypeOK, Running
      <4>2. QED BY <2>1, <4>1 DEF SInv, GracefulDropsNobody
    <3>3. QED BY <3>1, <3>2
  <2>2. QED BY <2>1 DEF GracefulDropsNobody, Live
<1>2. AnnouncersAwaited'
  BY DEF SInv, AnnouncersAwaited
<1>3. QueueInv'
  BY DEF SInv, QueueInv
<1>4. QED BY <1>1, <1>2, <1>3 DEF SInv

\* The number of live sessions is what server_run tests before it stops.
LEMMA NobodyLeft ==
    ASSUME IInv, active = 0
    PROVE  \A s \in Sessions : ~Live(s)
<1>1. LiveSessions = {}
  BY SessionsFinite, FS_EmptySet DEF IInv, CountersExact
<1>2. QED BY <1>1 DEF LiveSessions

\* A notification is handled: it names no other queued notification's session.
LEMMA HandleNoteKeepsS ==
    ASSUME IInv, SInv, HandleNote
    PROVE  SInv'
<1>1. /\ notes # <<>> /\ notes \in Seq(Sessions) /\ notes' = Tail(notes) /\ loop = "notify"
      /\ UNCHANGED <<pc, loop, selector, force_shutdown, shutdown_requested>>
  BY DEF HandleNote, NotesLeft, IInv, TypeOK, loopVars, signalVars
<1>2. /\ Len(notes) \in Nat /\ Len(notes) > 0 /\ Head(notes) = notes[1]
      /\ Len(notes') = Len(notes) - 1
      /\ \A i \in 1 .. Len(notes') : i + 1 \in 1 .. Len(notes) /\ notes'[i] = notes[i + 1]
  BY <1>1
<1>3. Head(notes) \in Sessions
  BY <1>1
<1> PICK s \in Sessions : s = Head(notes)
  BY <1>3
<1>4. \A t \in Sessions \ {s} : state'[t] = state[t]
  <2>1. state \in [Sessions -> State]
    BY DEF IInv, TypeOK
  <2>2. (\E d : state' = [state EXCEPT ![s] = d]) \/ state' = state
    BY DEF HandleNote, OnResolve, Refuses, RefuseRequest, Connect, sessionVars
  <2>3. QED BY <2>1, <2>2
<1>5. Running
  BY <1>1 DEF Running
<1>6. pc[s] # "enqueue"
  BY <1>2 DEF SInv, QueueInv
<1>7. AnnouncersAwaited'
  BY <1>1, <1>4, <1>5, <1>6 DEF SInv, AnnouncersAwaited
<1>8. QueueInv'
  <2>1. \A i \in 1 .. Len(notes') : notes'[i] \in Sessions \ {s}
    BY <1>1, <1>2 DEF SInv, QueueInv
  <2>2. ASSUME NEW i \in 1 .. Len(notes')
        PROVE  /\ pc'[notes'[i]] \in {"signal", "end"}
               /\ state'[notes'[i]].has_job
    <3>1. notes'[i] = notes[i + 1] /\ i + 1 \in 1 .. Len(notes)
      BY <1>2
    <3>2. pc[notes[i + 1]] \in {"signal", "end"} /\ state[notes[i + 1]].has_job
      BY <1>5, <3>1 DEF SInv, QueueInv
    <3>3. QED BY <1>1, <1>4, <2>1, <3>1, <3>2
  <2>3. ASSUME NEW i \in 1 .. Len(notes'), NEW k \in 1 .. Len(notes'), notes'[k] = notes'[i]
        PROVE  k = i
    <3>1. /\ i + 1 \in 1 .. Len(notes) /\ k + 1 \in 1 .. Len(notes)
          /\ notes[k + 1] = notes[i + 1]
      BY <1>2, <2>3
    <3>2. k + 1 = i + 1
      BY <3>1 DEF SInv, QueueInv
    <3>3. QED BY <1>2, <3>2
  <2>4. QED BY <2>2, <2>3 DEF QueueInv
<1>9. GracefulDropsNobody'
  BY <1>1 DEF GracefulDropsNobody
<1>10. QED BY <1>1, <1>7, <1>8, <1>9 DEF SInv

\* selector_destroy finds a descriptor only after a second signal.
LEMMA DestroyItemKeepsS ==
    ASSUME IInv, SInv, NEW x \in registered, DestroyItem(x)
    PROVE  SInv'
<1>1. /\ loop = "destroy" /\ notes' = notes
      /\ UNCHANGED <<pc, loop, selector, force_shutdown, shutdown_requested>>
  BY DEF DestroyItem, loopVars, signalVars
<1>2. PICK s \in Sessions : x = Client(s) \/ x = Target(s)
  BY DEF IInv, TypeOK, Descriptors, Client, Target
<1>3. Live(s)
  BY <1>2 DEF IInv, DescriptorInv, Live
<1>4. force_shutdown
  BY <1>1, <1>3 DEF SInv, GracefulDropsNobody
<1>5. QueueInv'
  BY <1>1 DEF SInv, QueueInv, Running
<1>6. QED BY <1>1, <1>4, <1>5 DEF SInv, GracefulDropsNobody, AnnouncersAwaited, Running

\* The loop keeps the second invariant.
LEMMA LoopKeepsS ==
    ASSUME IInv, SInv, Loop
    PROVE  SInv'
<1>1. /\ force_shutdown => shutdown_requested
      /\ selector = "freed" => loop \in {"report", "exit"}
  BY DEF SInv
<1>2. CASE EndIteration
  BY <1>1, <1>2, CalmStep DEF EndIteration, Running, sessionVars, jobVars, signalVars
<1>3. CASE NotesHandled
  BY <1>1, <1>3, CalmStep DEF NotesHandled, Running, sessionVars, jobVars, signalVars
<1>4. CASE Check
  <2>1. loop' \in {"drain", "while"} /\ (loop' = "drain" => active = 0)
    BY <1>4 DEF Check, AllGone
  <2>2. QED BY <1>1, <1>4, <2>1, NobodyLeft, CalmStep
            DEF Check, Running, sessionVars, jobVars, signalVars
<1>5. CASE While
  BY <1>1, <1>5, CalmStep DEF While, GoOn, Running, sessionVars, jobVars, signalVars
<1>6. CASE Drain
  BY <1>1, <1>6, CalmStep DEF Drain, Running, sessionVars, jobVars, signalVars
<1>7. CASE DestroySelector
  <2>1. /\ loop = "destroy" /\ loop' = "report" /\ notes' = <<>> /\ selector' = "freed"
        /\ UNCHANGED <<state, pc, force_shutdown, shutdown_requested>>
    BY <1>7 DEF DestroySelector, sessionVars, jobVars, signalVars
  <2>2. QueueInv'
    BY <2>1 DEF QueueInv
  <2>3. QED BY <1>1, <2>1, <2>2 DEF SInv, GracefulDropsNobody, AnnouncersAwaited, Running, Live
<1>8. CASE Exit
  BY <1>1, <1>8, CalmStep DEF Exit, Running, sessionVars, jobVars, signalVars
<1>9. QED
  BY <1>2, <1>3, <1>4, <1>5, <1>6, <1>7, <1>8, HandleNoteKeepsS, DestroyItemKeepsS DEF Loop

-----------------------------------------------------------------------------
(* The theorems *)

\* Both invariants together are inductive.
THEOREM ShutdownInductive == Spec => [](IInv /\ SInv)
<1>1. Init => SInv
  BY DEF Init, SInv, GracefulDropsNobody, AnnouncersAwaited, QueueInv, Running
<1>2. IInv /\ SInv /\ [Next]_vars => SInv'
  <2> SUFFICES ASSUME IInv, SInv, [Next]_vars PROVE SInv'
    OBVIOUS
  <2>1. /\ force_shutdown => shutdown_requested
        /\ selector = "freed" => loop \in {"report", "exit"}
    BY DEF SInv
  <2>2. ASSUME NEW u \in UserPool, users_add(u) \/ users_remove(u)
        PROVE  SInv'
    BY <2>1, <2>2, CalmStep
       DEF users_add, users_remove, Running, sessionVars, jobVars, loopVars, signalVars
  <2>3. CASE sigterm_handler
    BY <2>1, <2>3, CalmStep DEF sigterm_handler, Running, sessionVars, jobVars, loopVars
  <2>4. CASE UNCHANGED vars
    BY <2>1, <2>4, CalmStep DEF vars, Running, sessionVars, jobVars, loopVars, signalVars
  <2>5. QED BY <2>2, <2>3, <2>4, ServeKeepsS, ThreadKeepsS, LoopKeepsS DEF Next
<1>3. QED BY <1>1, <1>2, InitKeeps, NextKeeps, PTL DEF Spec

\* A queued notification always names, once, a session that still waits for the
\* answer it announces.
THEOREM NotificationsAreFresh == Spec => []NotesFresh
<1>1. IInv /\ SInv => NotesFresh
  BY SInvImplies
<1>2. QED BY <1>1, ShutdownInductive, PTL

\* A shutdown without a second signal drops no session.
THEOREM ShutdownIsGraceful == Spec => []GracefulDropsNobody
<1>1. IInv /\ SInv => GracefulDropsNobody
  BY SInvImplies
<1>2. QED BY <1>1, ShutdownInductive, PTL

\* A shutdown without a second signal frees the selector under no thread that
\* has yet to queue its notification.
THEOREM NotifiesALiveSelector == Spec => []EnqueuesInLiveSelector
<1>1. IInv /\ SInv => EnqueuesInLiveSelector
  BY SInvImplies
<1>2. QED BY <1>1, ShutdownInductive, PTL

-----------------------------------------------------------------------------
(* No wakeup is lost *)

\* While the loop runs, a session that waits for its name has a thread that has
\* yet to queue its notification, or the notification is in the queue.
Announced(s) ==
    Running /\ state[s].has_job =>
        pc[s] \in {"resolve", "enqueue"} \/ \E i \in 1 .. Len(notes) : notes[i] = s

\* Nothing about the announcement of session s changes.
LEMMA SameAnnounced ==
    ASSUME NEW s \in Sessions, Announced(s), state'[s] = state[s], pc'[s] = pc[s],
           notes' = notes, Running' => Running
    PROVE  Announced(s)'
BY DEF Announced

\* A handler gives its session a job only together with a thread.
LEMMA ServeAnnounces ==
    ASSUME IInv, IInv', NEW s \in Sessions, Serve(s), \A t \in Sessions : Announced(t)
    PROVE  \A t \in Sessions : Announced(t)'
<1>1. /\ ~state[s].has_job
      /\ \A t \in Sessions \ {s} : state'[t] = state[t]
      /\ pc' = pc \/ pc' = [pc EXCEPT ![s] = "resolve"]
      /\ notes' = notes /\ loop' = loop
  BY ServeFrame DEF loopVars
<1>2. pc \in [Sessions -> {"none", "resolve", "enqueue", "signal", "free", "end"}]
  BY DEF IInv, TypeOK
<1>3. ASSUME NEW t \in Sessions \ {s} PROVE Announced(t)'
  BY <1>1, <1>2, SameAnnounced DEF Running
<1>4. job' = job \/ client_close(s) \/ pc' = [pc EXCEPT ![s] = "resolve"]
  BY DEF Serve, accept_connection, Greeting, Authenticate, ClientLeaves, RejectRequest,
         BeginAddress, BeginDomain, ConnectSucceeds, ConnectFails, ReplySent, ReplyFails,
         RelayEnds, jobVars
<1>5. Announced(s)'
  <2>1. CASE job' = job
    <3>1. ~job[s].waiting
      BY <1>1 DEF IInv, JobInv
    <3>2. ~state'[s].has_job
      BY <2>1, <3>1 DEF IInv, JobInv
    <3>3. QED BY <3>2 DEF Announced
  <2>2. CASE client_close(s)
    <3>1. ~(Live(s))'
      BY <2>2 DEF client_close, Live, IInv, TypeOK
    <3>2. ~state'[s].has_job
      BY <3>1 DEF IInv, JobInv, Live
    <3>3. QED BY <3>2 DEF Announced
  <2>3. CASE pc' = [pc EXCEPT ![s] = "resolve"]
    BY <1>2, <2>3 DEF Announced
  <2>4. QED BY <1>4, <2>1, <2>2, <2>3
<1>6. QED BY <1>3, <1>5

\* A thread that finds its session waiting queues a notification, unless there
\* is no memory for one.
LEMMA ThreadAnnounces ==
    ASSUME IInv, SInv, ~AllocMayFail, NEW s \in Sessions, Thread(s),
           \A t \in Sessions : Announced(t)
    PROVE  \A t \in Sessions : Announced(t)'
<1>1. /\ notes \in Seq(Sessions) /\ JobInv(s)
      /\ pc \in [Sessions -> {"none", "resolve", "enqueue", "signal", "free", "end"}]
      /\ selector \in {"live", "freed"}
  BY DEF IInv, TypeOK
<1>2. UNCHANGED <<state, loop>>
  BY DEF Thread, resolve_target, Enqueue, EnqueueFails, SignalMain, FreeJob,
         sessionVars, loopVars
<1>3. CASE resolve_target(s)
  <2>1. /\ notes' = notes
        /\ pc' = [pc EXCEPT ![s] = IF job[s].waiting THEN "enqueue" ELSE "free"]
    BY <1>3 DEF resolve_target
  <2>2. QED BY <1>1, <1>2, <2>1 DEF Announced, Running, JobInv
<1>4. CASE Enqueue(s)
  <2>1. CASE selector = "live"
    <3>1. notes' = <<s>> \o notes /\ pc' = [pc EXCEPT ![s] = "signal"]
      BY <1>4, <2>1 DEF Enqueue
    <3>2. /\ 1 \in 1 .. Len(notes') /\ notes'[1] = s
          /\ \A i \in 1 .. Len(notes) : i + 1 \in 1 .. Len(notes') /\ notes'[i + 1] = notes[i]
      BY <1>1, <3>1
    <3>3. QED BY <1>1, <1>2, <3>1, <3>2 DEF Announced, Running
  <2>2. CASE selector = "freed"
    <3>1. ~Running
      BY <2>2 DEF SInv, Running
    <3>2. QED BY <1>2, <3>1 DEF Announced, Running
  <2>3. QED BY <1>1, <2>1, <2>2
<1>5. CASE EnqueueFails(s)
  BY <1>5 DEF EnqueueFails
<1>6. CASE SignalMain(s)
  <2>1. pc[s] = "signal" /\ notes' = notes /\ pc' = [pc EXCEPT ![s] = "end"]
    BY <1>6 DEF SignalMain
  <2>2. QED BY <1>1, <1>2, <2>1 DEF Announced, Running
<1>7. CASE FreeJob(s)
  <2>1. pc[s] = "free" /\ notes' = notes /\ pc' = [pc EXCEPT ![s] = "end"]
    BY <1>7 DEF FreeJob
  <2>2. QED BY <1>1, <1>2, <2>1 DEF Announced, Running, JobInv
<1>8. QED BY <1>3, <1>4, <1>5, <1>6, <1>7 DEF Thread

\* A notification that is taken from the queue ends the wait of its session.
LEMMA HandleNoteAnnounces ==
    ASSUME IInv, IInv', SInv, HandleNote, \A t \in Sessions : Announced(t)
    PROVE  \A t \in Sessions : Announced(t)'
<1>1. /\ notes # <<>> /\ notes \in Seq(Sessions) /\ notes' = Tail(notes) /\ loop = "notify"
      /\ UNCHANGED <<pc, loop>>
  BY DEF HandleNote, NotesLeft, IInv, TypeOK, loopVars
<1>2. /\ Len(notes) \in Nat /\ Len(notes) > 0 /\ Head(notes) = notes[1]
      /\ Len(notes') = Len(notes) - 1
      /\ \A i \in 2 .. Len(notes) : i - 1 \in 1 .. Len(notes') /\ notes'[i - 1] = notes[i]
  BY <1>1
<1>3. Head(notes) \in Sessions
  BY <1>1
<1> PICK s \in Sessions : s = Head(notes)
  BY <1>3
<1>4. \A t \in Sessions \ {s} : state'[t] = state[t]
  <2>1. state \in [Sessions -> State]
    BY DEF IInv, TypeOK
  <2>2. (\E d : state' = [state EXCEPT ![s] = d]) \/ state' = state
    BY DEF HandleNote, OnResolve, Refuses, RefuseRequest, Connect, sessionVars
  <2>3. QED BY <2>1, <2>2
<1>5. ASSUME NEW t \in Sessions \ {s} PROVE Announced(t)'
  <2>1. ASSUME NEW i \in 1 .. Len(notes), notes[i] = t
        PROVE  \E k \in 1 .. Len(notes') : notes'[k] = t
    <3>1. i \in 2 .. Len(notes)
      BY <1>2, <2>1
    <3>2. QED BY <1>2, <2>1, <3>1
  <2>2. QED BY <1>1, <1>4, <2>1 DEF Announced, Running
<1>6. ~state'[s].has_job
  <2>1. pc[s] \in {"signal", "end"} /\ state[s].has_job
    BY <1>1, <1>2 DEF SInv, QueueInv, Running
  <2>2. Client(s) \in registered /\ state[s].stage = "RESOLVING" /\ job[s].done
    BY <2>1 DEF IInv, JobInv, DescriptorInv, Live
  <2>3. OnResolve(s)
    BY <2>1, <2>2 DEF HandleNote
  <2>4. job \in [Sessions -> Job]
    BY DEF IInv, TypeOK
  <2>5. job'[s].waiting = FALSE
    <3> DEFINE j == job[s]
    <3>1. job' = [job EXCEPT ![s] = [j EXCEPT !.mem = "freed", !.waiting = FALSE,
                                              !.result = <<>>]]
      BY <2>3, <2>4 DEF OnResolve
    <3>2. j \in Job
      BY <2>4
    <3> HIDE DEF j
    <3>3. QED BY <2>4, <3>1, <3>2 DEF Job
  <2>6. QED BY <2>5 DEF IInv, JobInv
<1>7. QED BY <1>5, <1>6 DEF Announced

\* Without a failing malloc, no session that waits for its name is forgotten.
LEMMA AnnouncedAlways ==
    ASSUME ~AllocMayFail
    PROVE  Spec => [](IInv /\ \A s \in Sessions : Announced(s))
<1>1. Init => \A s \in Sessions : Announced(s)
  <2> SUFFICES ASSUME Init, NEW s \in Sessions PROVE Announced(s)
    OBVIOUS
  <2>1. IInv
    BY InitKeeps
  <2>2. state[s].stage = "UNBORN"
    BY DEF Init, NewState
  <2>3. QED BY <2>1, <2>2 DEF IInv, JobInv, Announced
<1>2. IInv /\ IInv' /\ SInv /\ (\A s \in Sessions : Announced(s)) /\ [Next]_vars
        => (\A s \in Sessions : Announced(s))'
  <2> SUFFICES ASSUME IInv, IInv', SInv, \A s \in Sessions : Announced(s), [Next]_vars
               PROVE  \A s \in Sessions : Announced(s)'
    OBVIOUS
  <2>1. ASSUME UNCHANGED <<state, pc, notes>>, Running' => Running
        PROVE  \A s \in Sessions : Announced(s)'
    BY <2>1, SameAnnounced
  <2>2. CASE Loop /\ ~HandleNote
    <3>1. CASE Running'
      <4>1. UNCHANGED <<state, pc, notes>> /\ Running
        BY <2>2, <3>1 DEF Loop, EndIteration, NotesHandled, Check, While, Drain, DestroyItem,
             DestroySelector, Exit, Running, sessionVars, jobVars, loopVars
      <4>2. QED BY <2>1, <4>1
    <3>2. CASE ~Running'
      BY <3>2 DEF Announced
    <3>3. QED BY <3>1, <3>2
  <2>3. ASSUME NEW u \in UserPool, users_add(u) \/ users_remove(u)
        PROVE  \A s \in Sessions : Announced(s)'
    BY <2>1, <2>3 DEF users_add, users_remove, Running, sessionVars, jobVars, loopVars
  <2>4. CASE sigterm_handler \/ UNCHANGED vars
    BY <2>1, <2>4 DEF sigterm_handler, vars, Running, sessionVars, jobVars, loopVars
  <2>5. QED BY <2>2, <2>3, <2>4, ServeAnnounces, ThreadAnnounces, HandleNoteAnnounces DEF Next
<1>3. QED BY <1>1, <1>2, ShutdownInductive, PTL DEF Spec

\* While the loop runs, every session waits for something that can still come,
\* if malloc does not fail in selector_notify_block: a descriptor, a thread that
\* has yet to queue its notification, or a notification in the queue.
THEOREM NobodyIsForgotten ==
    ASSUME ~AllocMayFail
    PROVE  Spec => []NoneForgotten
<1>1. IInv /\ (\A s \in Sessions : Announced(s)) => NoneForgotten
  <2> SUFFICES ASSUME IInv, \A s \in Sessions : Announced(s), Running,
                      NEW s \in Sessions, Live(s)
               PROVE  \/ interest[Client(s)] # {}
                      \/ interest[Target(s)] # {}
                      \/ /\ state[s].stage = "RESOLVING"
                         /\ \/ pc[s] \in {"resolve", "enqueue"}
                            \/ \E i \in 1 .. Len(notes) : notes[i] = s
    BY DEF NoneForgotten, Running
  <2>1. CASE state[s].stage = "RESOLVING"
    BY <2>1 DEF IInv, JobInv, Announced
  <2>2. CASE state[s].stage = "CONNECTING"
    BY <2>2 DEF IInv, DescriptorInv, Running
  <2>3. CASE state[s].stage \notin {"RESOLVING", "CONNECTING"}
    <3>1. state[s].stage \in {"GREETING", "AUTH", "REQUEST", "RELAY", "CLOSING"}
      BY <2>3 DEF IInv, TypeOK, State, Stages, Live
    <3>2. QED BY <3>1 DEF IInv, DescriptorInv
  <2>4. QED BY <2>1, <2>2, <2>3
<1>2. QED BY <1>1, AnnouncedAlways, PTL
=============================================================================
