------------------------------- MODULE Proxy -------------------------------
(***************************************************************************)
(* The control plane of the SOCKS5 proxy: the life of every client session *)
(* (client_session.c, target_connection.c), the event loop that serves     *)
(* them (selector.c, server.c), the detached threads that resolve names,   *)
(* and the two-step shutdown on SIGTERM/SIGINT.                            *)
(*                                                                         *)
(* The main thread runs one handler at a time, so a handler is one action; *)
(* resolver threads and signals interleave with it between handlers.  A    *)
(* session is never reused: accepting a connection takes a fresh one.      *)
(* What a session does once its relay has started is in module Relay; here *)
(* a relaying session only ends.                                           *)
(***************************************************************************)
EXTENDS Naturals, Sequences, FiniteSets

CONSTANTS
    Sessions,            \* client connections that may be accepted
    UserPool,            \* names ADDUSER and the command line may use
    InitialUsers,        \* users given with -u
    Managed,             \* TRUE iff ADDUSER/DELUSER commands arrive
    Errnos,              \* failures of socket, connect and selector_register
    Answers,             \* address lists getaddrinfo may return, by family
    GaiErrors,           \* failures of getaddrinfo
    MaxSignals,          \* termination signals the process receives
    AllocMayFail         \* TRUE iff malloc may fail in selector_notify_block

ASSUME SetsAssumption ==
    /\ IsFiniteSet(Sessions)
    /\ InitialUsers \subseteq UserPool
    /\ "anonymous" \notin UserPool /\ "wrong" \notin UserPool
    /\ Managed \in BOOLEAN /\ AllocMayFail \in BOOLEAN
    /\ MaxSignals \in 0 .. 2
    /\ "0" \notin Errnos /\ "OK" \notin GaiErrors

\* getaddrinfo with AF_UNSPEC returns no list without an IPv4 or IPv6 address.
ASSUME AnswersAssumption ==
    \A a \in Answers : a \in Seq({"inet", "other"}) /\ \E i \in 1 .. Len(a) : a[i] = "inet"

VARIABLES
    state,               \* state[s]: the client_state_t of session s
    interest,            \* interest of the selector in each descriptor
    registered,          \* descriptors in the selector's table
    open,                \* descriptors open in the process
    job,                 \* job[s]: the resolver_job of session s
    pc,                  \* pc[s]: where the resolver thread of session s is
    notes,               \* resolution_jobs of the selector, newest first
    selector,            \* memory of the selector: "live" or "freed"
    loop,                \* where the main thread is in server_run
    listening,           \* ~stopped_accepting
    shutdown_requested, force_shutdown,
    users,               \* managed_users
    metrics, active,     \* current_metrics, active_client_connections
    access_log,          \* access_log[s]: lines written for session s
    told                 \* told[s]: the last reply session s sent in full

sessionVars == <<state, interest, registered, open>>
jobVars == <<job, pc>>
loopVars == <<loop, listening, selector>>
signalVars == <<shutdown_requested, force_shutdown>>
bookVars == <<metrics, active, access_log, told>>
vars == <<sessionVars, jobVars, notes, loopVars, signalVars, users, bookVars>>

Descriptors == Sessions \X {"client", "target"}
Stages == {"UNBORN", "GREETING", "AUTH", "REQUEST", "RESOLVING", "CONNECTING",
           "RELAY", "CLOSING", "FREED"}
Failures == {"GENERAL", "NET_UNREACHABLE", "HOST_UNREACHABLE", "REFUSED",
             "TTL_EXPIRED", "CMD_UNSUPPORTED", "ATYP_UNSUPPORTED"}
Refusals == Failures \cup {"NO_ACCEPTABLE", "AUTH_FAILURE"}
Replies == Refusals \cup {"SUCCESS", "NO_AUTH", "USERPASS", "AUTH_SUCCESS"}

Client(s) == <<s, "client">>
Target(s) == <<s, "target">>
Live(s) == state[s].stage \notin {"UNBORN", "FREED"}

\* calloc of a client_state_t, as accept_connection leaves it.
NewState ==
    [stage |-> "GREETING",
     reply |-> "nothing",        \* write_buffer; "nothing" when write_len = 0
     relay_started |-> FALSE,
     user |-> "anonymous",
     dest |-> FALSE,             \* destination_host is not empty
     access_logged |-> FALSE,
     err |-> "0",                \* last_connect_error
     addrs |-> <<>>,             \* list from target_address_current on
     has_job |-> FALSE]          \* resolver_job # NULL

\* client_state_t
State ==
    [stage : Stages, reply : Replies \cup {"nothing"}, relay_started : BOOLEAN,
     user : UserPool \cup {"anonymous"}, dest : BOOLEAN, access_logged : BOOLEAN,
     err : Errnos \cup {"0"}, addrs : Seq({"inet", "other"}), has_job : BOOLEAN]

NoJob ==
    [mem |-> "none",             \* "none", "live" or "freed"
     named |-> FALSE,            \* host is not empty
     waiting |-> FALSE,          \* job->state # NULL
     done |-> FALSE,
     status |-> "EAI_AGAIN",
     result |-> <<>>]

\* struct resolver_job
Job ==
    [mem : {"none", "live", "freed"}, named : BOOLEAN, waiting : BOOLEAN,
     done : BOOLEAN, status : GaiErrors \cup {"OK", "EAI_AGAIN"},
     result : Answers \cup {<<>>}]

\* server_metrics_t, without the byte counters
Metrics == [historical : Nat, concurrent : Nat, successful : Nat, failed : Nat]

Init ==
    /\ state = [s \in Sessions |-> [NewState EXCEPT !.stage = "UNBORN"]]
    /\ interest = [x \in Descriptors |-> {}]
    /\ registered = {}
    /\ open = {}
    /\ job = [s \in Sessions |-> NoJob]
    /\ pc = [s \in Sessions |-> "none"]
    /\ notes = <<>>
    /\ selector = "live"
    /\ loop = "select"
    /\ listening = TRUE
    /\ shutdown_requested = FALSE
    /\ force_shutdown = FALSE
    /\ users = InitialUsers
    /\ metrics = [historical |-> 0, concurrent |-> 0, successful |-> 0, failed |-> 0]
    /\ active = 0
    /\ access_log = [s \in Sessions |-> <<>>]
    /\ told = [s \in Sessions |-> "nothing"]

-----------------------------------------------------------------------------
(* Replies *)

socks5_reply_for_errno(e) ==
    CASE e = "0" -> "SUCCESS"
      [] e = "ENETUNREACH" -> "NET_UNREACHABLE"
      [] e \in {"EHOSTUNREACH", "EHOSTDOWN", "ENODATA"} -> "HOST_UNREACHABLE"
      [] e = "ECONNREFUSED" -> "REFUSED"
      [] e = "ETIMEDOUT" -> "TTL_EXPIRED"
      [] OTHER -> "GENERAL"

socks5_reply_for_gai_error(g) ==
    CASE g = "OK" -> "SUCCESS"
      [] g = "EAI_AGAIN" -> "TTL_EXPIRED"
      [] g \in {"EAI_NONAME", "EAI_NODATA"} -> "HOST_UNREACHABLE"
      [] OTHER -> "GENERAL"

\* access_log_client_connection, for session s in state c.
AccessLog(s, c, success) ==
    IF c.access_logged \/ ~c.dest
    THEN access_log
    ELSE [access_log EXCEPT ![s] = Append(@, success)]

\* Mutant: counted twice.
metrics_connection_failedTwice == [metrics EXCEPT !.failed = @ + 2]

metrics_connection_failed == [metrics EXCEPT !.failed = @ + 1]

\* Mutant: not counted.
metrics_connection_closedNot == metrics

metrics_connection_closed ==
    [metrics EXCEPT !.concurrent = IF @ > 0 THEN @ - 1 ELSE @]

\* Mutant: the interest is not changed.
AwaitAsBefore(s, c, ops) ==
    /\ state' = [state EXCEPT ![s] = c]
    /\ UNCHANGED interest

\* A handler of session s ends with state c and waits on its client for ops.
Await(s, c, ops) ==
    /\ state' = [state EXCEPT ![s] = c]
    /\ interest' = [interest EXCEPT ![Client(s)] = ops]

\* The request of session s is refused with reply r: the reply is prepared, the
\* failure counted and logged, and the session closes once the reply is sent.
\* An earlier target is already unregistered.
Refuses(s, c, r) ==
    /\ state' = [state EXCEPT ![s] =
                    [c EXCEPT !.stage = "CLOSING", !.reply = r,
                              !.access_logged = @ \/ c.dest]]
    /\ interest' = [interest EXCEPT ![Client(s)] = {"W"}, ![Target(s)] = {}]
    /\ registered' = registered \ {Target(s)}
    /\ metrics' = metrics_connection_failed
    /\ access_log' = AccessLog(s, c, FALSE)

\* The request is refused and no connection was tried since the last one closed.
RefuseRequest(s, c, r) ==
    /\ Refuses(s, c, r)
    /\ open' = open \ {Target(s)}

-----------------------------------------------------------------------------
(* Closing *)

\* Mutant: the job is freed although its thread still uses it.
DetachedMemAlways(s) == "freed"

\* Who frees the job of a session that goes: a finished job is freed here.
DetachedMem(s) == IF job[s].done THEN "freed" ELSE job[s].mem

\* target_connection_detach_resolver: a finished job is freed here; one still
\* resolving is left to its thread, which finds nobody waiting.
Detach(s) ==
    IF ~state[s].has_job
    THEN job[s]
    ELSE [job[s] EXCEPT !.waiting = FALSE,
                        !.mem = DetachedMem(s),
                        !.result = IF job[s].done THEN <<>> ELSE @]

\* Mutant: the target descriptor is unregistered but stays open.
ClosedWithClientOnly(s) == {Client(s)}

\* The descriptors that client_close closes.
ClosedWith(s) == {Client(s), Target(s)}

\* selector_unregister_fd of the client descriptor, and with it client_close:
\* the target descriptor, the resolver job, the addresses and the state itself
\* go with it.
client_close(s) ==
    /\ registered' = registered \ {Client(s), Target(s)}
    /\ open' = open \ ClosedWith(s)
    /\ interest' = [interest EXCEPT ![Client(s)] = {}, ![Target(s)] = {}]
    /\ job' = [job EXCEPT ![s] = Detach(s)]
    /\ state' = [state EXCEPT ![s] = [NewState EXCEPT !.stage = "FREED"]]
    /\ metrics' = metrics_connection_closed
    /\ active' = active - 1

-----------------------------------------------------------------------------
(* Accepting and negotiating *)

\* The main thread is in handle_iteration and descriptor x is ready for op.
Serves(x, op) ==
    /\ loop = "select"
    /\ x \in registered
    /\ op \in interest[x]

\* One turn of the loop of accept_connection.  A connection that cannot be set
\* up is closed again at once and leaves no trace.
accept_connection(s) ==
    /\ loop = "select"
    /\ listening
    /\ state[s].stage = "UNBORN"
    /\ state' = [state EXCEPT ![s] = NewState]
    /\ interest' = [interest EXCEPT ![Client(s)] = {"R"}]
    /\ registered' = registered \cup {Client(s)}
    /\ open' = open \cup {Client(s)}
    /\ metrics' = [metrics EXCEPT !.historical = @ + 1, !.concurrent = @ + 1]
    /\ active' = active + 1
    /\ UNCHANGED <<jobVars, notes, loopVars, signalVars, users, access_log, told>>

\* The client's descriptor is readable: a complete message arrives in stage st.
\* An incomplete one only grows read_buffer and is left out.
Receives(s, st) ==
    /\ Serves(Client(s), "R")
    /\ state[s].stage = st

\* Mutant: NO AUTH is accepted although users are configured.
ChosenMethodAnyone(offered) ==
    IF "USERPASS" \in offered THEN "USERPASS"
    ELSE IF "NO_AUTH" \in offered THEN "NO_AUTH" ELSE "NO_ACCEPTABLE"

\* Username/password is chosen whenever it is offered, and NO AUTH only while
\* no user is configured.
ChosenMethod(offered) ==
    IF "USERPASS" \in offered THEN "USERPASS"
    ELSE IF users = {} /\ "NO_AUTH" \in offered THEN "NO_AUTH" ELSE "NO_ACCEPTABLE"

\* A complete greeting that offers some methods.
Greeting(s, offered) ==
    /\ Receives(s, "GREETING")
    /\ LET choice == ChosenMethod(offered)
           next == [USERPASS |-> "AUTH", NO_AUTH |-> "REQUEST",
                    NO_ACCEPTABLE |-> "CLOSING"][choice]
       IN Await(s, [state[s] EXCEPT !.stage = next, !.reply = choice], {"W"})
    /\ UNCHANGED <<registered, open, jobVars, notes, loopVars, signalVars, users, bookVars>>

\* A complete username/password message; "wrong" stands for every pair that no
\* configured user has, whatever the table holds.
Authenticate(s, credentials) ==
    /\ Receives(s, "AUTH")
    /\ Await(s, IF credentials \in users
                THEN [state[s] EXCEPT !.stage = "REQUEST", !.reply = "AUTH_SUCCESS",
                                      !.user = credentials]
                ELSE [state[s] EXCEPT !.stage = "CLOSING", !.reply = "AUTH_FAILURE"],
             {"W"})
    /\ UNCHANGED <<registered, open, jobVars, notes, loopVars, signalVars, users, bookVars>>

\* End of file or an error on the client's descriptor before the relay starts,
\* or a greeting of another protocol version.
ClientLeaves(s) ==
    /\ Serves(Client(s), "R")
    /\ ~state[s].relay_started
    /\ client_close(s)
    /\ UNCHANGED <<pc, notes, loopVars, signalVars, users, access_log, told>>

-----------------------------------------------------------------------------
(* Requests and connections *)

\* last_connect_error once the first k addresses have been gone through: each
\* one of a known family failed at once, the others were skipped.
ErrorsAfter(addrs, err, k) ==
    IF \E i \in 1 .. k : addrs[i] = "inet" THEN Errnos ELSE {err}

\* The connection to address k is under way and registered.
Started(addrs, err, k) ==
    {[ok |-> TRUE, left |-> SubSeq(addrs, k + 1, Len(addrs)), err |-> e] :
        e \in ErrorsAfter(addrs, err, k - 1)}

\* No address is left.
Exhausted(addrs, err) ==
    {[ok |-> FALSE, left |-> <<>>, err |-> e] : e \in ErrorsAfter(addrs, err, Len(addrs))}

\* What start_next_target_connection may do with the addresses left.
Attempts(addrs, err) ==
    Exhausted(addrs, err) \cup
        UNION {Started(addrs, err, k) : k \in {i \in 1 .. Len(addrs) : addrs[i] = "inet"}}

\* Mutant: a failed attempt forgets to close its descriptor.
ClosedByHandNot(o, d) == o

\* The descriptors once a failed attempt has closed its own, d, by hand.
ClosedByHand(o, d) == o \ {d}

\* The descriptors when every address has failed: an earlier target was closed
\* with its registration, and the last attempt got no descriptor from socket or
\* closed the one it got.
Undone(s) ==
    LET o == open \ {Target(s)} IN {o, ClosedByHand(o \cup {Target(s)}, Target(s))}

\* Session s, in state c, connects to the first of its addresses that can be
\* tried, or refuses the request with the last error.  (target_write leaves the
\* client's interest alone when it falls back: it is empty already.)
Connect(s, c) ==
    \E a \in Attempts(c.addrs, c.err) :
        LET d == [c EXCEPT !.addrs = a.left, !.err = a.err]
        IN  IF a.ok
            THEN /\ state' = [state EXCEPT ![s] = [d EXCEPT !.stage = "CONNECTING"]]
                 /\ interest' = [interest EXCEPT ![Client(s)] = {}, ![Target(s)] = {"W"}]
                 /\ registered' = registered \cup {Target(s)}
                 /\ open' = open \cup {Target(s)}
                 /\ UNCHANGED <<metrics, access_log>>
            ELSE /\ Refuses(s, d, socks5_reply_for_errno(a.err))
                 /\ open' \in Undone(s)

\* A request that cannot be served: unsupported command or address type, or
\* malformed.  It is answered and counted but, having no destination, not logged.
RejectRequest(s, r) ==
    /\ Receives(s, "REQUEST")
    /\ RefuseRequest(s, state[s], r)
    /\ UNCHANGED <<jobVars, notes, loopVars, signalVars, users, active, told>>

\* target_connection_begin with an IPv4 or IPv6 address.
BeginAddress(s) ==
    /\ Receives(s, "REQUEST")
    /\ Connect(s, [state[s] EXCEPT !.err = "0", !.dest = TRUE, !.access_logged = FALSE,
                                   !.addrs = <<"inet">>])
    /\ UNCHANGED <<jobVars, notes, loopVars, signalVars, users, active, told>>

\* target_connection_begin with a domain name (its session has no job to detach
\* and no addresses to free yet); a name that starts with a NUL
\* byte leaves destination_host empty (named = FALSE).
BeginDomain(s, named) ==
    /\ Receives(s, "REQUEST")
    /\ LET c == [state[s] EXCEPT !.err = "0", !.dest = named, !.access_logged = FALSE]
       IN  \/ \* start_target_resolution creates the job and its thread
              /\ job' = [job EXCEPT ![s] = [NoJob EXCEPT !.mem = "live", !.named = named,
                                                        !.waiting = TRUE]]
              /\ pc' = [pc EXCEPT ![s] = "resolve"]
              /\ Await(s, [c EXCEPT !.stage = "RESOLVING", !.has_job = TRUE], {})
              /\ UNCHANGED <<registered, open, metrics, access_log>>
           \/ \* out of memory or of threads
              /\ RefuseRequest(s, c, "GENERAL")
              /\ UNCHANGED jobVars
    /\ UNCHANGED <<notes, loopVars, signalVars, users, active, told>>

\* target_write while connecting, with SO_ERROR = 0: the session is granted.
ConnectSucceeds(s) ==
    /\ Serves(Target(s), "W")
    /\ state[s].stage = "CONNECTING"
    /\ state' = [state EXCEPT ![s] =
                    [state[s] EXCEPT !.stage = "RELAY", !.reply = "SUCCESS",
                                     !.access_logged = @ \/ state[s].dest]]
    /\ interest' = [interest EXCEPT ![Client(s)] = {"W"}, ![Target(s)] = {}]
    /\ metrics' = [metrics EXCEPT !.successful = @ + 1]
    /\ access_log' = AccessLog(s, state[s], TRUE)
    /\ UNCHANGED <<registered, open, jobVars, notes, loopVars, signalVars, users, active, told>>

\* target_write while connecting, with an error: the descriptor is unregistered
\* and closed, and the addresses that are left are tried.
ConnectFails(s) ==
    /\ Serves(Target(s), "W")
    /\ state[s].stage = "CONNECTING"
    /\ \E e \in Errnos : Connect(s, [state[s] EXCEPT !.err = e])
    /\ UNCHANGED <<jobVars, notes, loopVars, signalVars, users, active, told>>

\* client_write: the pending reply goes out in full.  (A partial send changes
\* nothing but write_off.)  A closing session is then closed; a granted one
\* starts its relay; another one waits for the next message.
ReplySent(s) ==
    /\ Serves(Client(s), "W")
    /\ state[s].reply # "nothing"
    /\ told' = [told EXCEPT ![s] = state[s].reply]
    /\ IF state[s].stage = "CLOSING"
       THEN client_close(s)
       ELSE /\ state' = [state EXCEPT ![s] = [@ EXCEPT !.reply = "nothing",
                                !.relay_started = (state[s].stage = "RELAY")]]
            /\ interest' = [interest EXCEPT ![Client(s)] = {"R"},
                                ![Target(s)] = IF state[s].stage = "RELAY" THEN {"R"} ELSE @]
            /\ UNCHANGED <<registered, open, job, metrics, active>>
    /\ UNCHANGED <<pc, notes, loopVars, signalVars, users, access_log>>

\* client_write: the reply cannot be sent.
ReplyFails(s) ==
    /\ Serves(Client(s), "W")
    /\ state[s].reply # "nothing"
    /\ client_close(s)
    /\ UNCHANGED <<pc, notes, loopVars, signalVars, users, access_log, told>>

\* The relay of session s ends (module Relay says when).
RelayEnds(s) ==
    /\ loop = "select"
    /\ state[s].relay_started /\ Live(s)
    /\ client_close(s)
    /\ UNCHANGED <<pc, notes, loopVars, signalVars, users, access_log, told>>

-----------------------------------------------------------------------------
(* The resolver thread of session s *)

\* getaddrinfo returns; under the job's mutex the thread publishes the answer
\* and looks whether the session still waits for it.  An empty name never
\* resolves.
resolve_target(s) ==
    /\ loop # "exit"
    /\ pc[s] = "resolve"
    /\ \E answer \in {[status |-> g, result |-> <<>>] : g \in GaiErrors}
                        \cup {[status |-> "OK", result |-> a] : a \in Answers} :
          /\ answer.status = "OK" => job[s].named
          /\ job' = [job EXCEPT ![s] = [@ EXCEPT !.status = answer.status,
                                                 !.result = answer.result, !.done = TRUE]]
    /\ pc' = [pc EXCEPT ![s] = IF job[s].waiting THEN "enqueue" ELSE "free"]
    /\ UNCHANGED <<sessionVars, notes, loopVars, signalVars, users, bookVars>>

\* selector_notify_block up to the unlock of resolution_mutex, which the main
\* thread holds while it handles notifications.  In a freed selector what
\* happens is undefined: here the thread is lost.
Enqueue(s) ==
    /\ loop \notin {"notify", "exit"}
    /\ pc[s] = "enqueue"
    /\ IF selector = "live"
       THEN /\ notes' = <<s>> \o notes
            /\ pc' = [pc EXCEPT ![s] = "signal"]
       ELSE /\ pc' = [pc EXCEPT ![s] = "end"]
            /\ UNCHANGED notes
    /\ UNCHANGED <<sessionVars, job, loopVars, signalVars, users, bookVars>>

\* selector_notify_block without memory for the notification: it returns
\* SELECTOR_ENOMEM, which resolve_target ignores.
EnqueueFails(s) ==
    /\ AllocMayFail
    /\ loop # "exit"
    /\ pc[s] = "enqueue"
    /\ pc' = [pc EXCEPT ![s] = "end"]
    /\ UNCHANGED <<sessionVars, job, notes, loopVars, signalVars, users, bookVars>>

\* pthread_kill(s->selector_thread, SIGALRM): wakes the main thread up, which
\* would wake up by itself when its timeout expires.
SignalMain(s) ==
    /\ loop # "exit"
    /\ pc[s] = "signal"
    /\ pc' = [pc EXCEPT ![s] = "end"]
    /\ UNCHANGED <<sessionVars, job, notes, loopVars, signalVars, users, bookVars>>

\* Nobody waits: the thread frees the answer and the job.
FreeJob(s) ==
    /\ loop # "exit"
    /\ pc[s] = "free"
    /\ job' = [job EXCEPT ![s] = [@ EXCEPT !.mem = "freed", !.result = <<>>]]
    /\ pc' = [pc EXCEPT ![s] = "end"]
    /\ UNCHANGED <<sessionVars, notes, loopVars, signalVars, users, bookVars>>

Thread(s) ==
    resolve_target(s) \/ Enqueue(s) \/ EnqueueFails(s) \/ SignalMain(s) \/ FreeJob(s)

-----------------------------------------------------------------------------
(* The main loop *)

\* selector_select leaves handle_iteration, or pselect was interrupted or timed
\* out, and takes resolution_mutex.  (It skips the notifications when pselect
\* fails with EBADF, which takes a registered descriptor that is closed:
\* DescriptorsExact says that there is none.)
EndIteration ==
    /\ loop = "select"
    /\ loop' = "notify"
    /\ UNCHANGED <<sessionVars, jobVars, notes, listening, selector, signalVars, users, bookVars>>

\* target_connection_on_resolve takes the answer out of the finished job.
OnResolve(s) ==
    LET c == [state[s] EXCEPT !.has_job = FALSE]
    IN  /\ job' = [job EXCEPT ![s] = [@ EXCEPT !.mem = "freed", !.waiting = FALSE,
                                              !.result = <<>>]]
        /\ IF job[s].status # "OK"
           THEN RefuseRequest(s, c, socks5_reply_for_gai_error(job[s].status))
           ELSE Connect(s, [c EXCEPT !.addrs = job[s].result])

\* Mutant: the notification stays in the list.
NotesLeftAll == notes

\* Mutant: the list is emptied after its first notification.
NotesLeftNone == <<>>

\* The notifications after the one being handled.
NotesLeft == Tail(notes)

\* handle_block_notifications: one notification.
HandleNote ==
    /\ loop = "notify"
    /\ notes # <<>>
    /\ notes' = NotesLeft
    /\ LET s == Head(notes)
       IN  IF /\ Client(s) \in registered
              /\ state[s].stage = "RESOLVING" /\ state[s].has_job
              /\ job[s].done
           THEN OnResolve(s)
           ELSE UNCHANGED <<sessionVars, job, metrics, access_log>>
    /\ UNCHANGED <<pc, loopVars, signalVars, users, active, told>>

\* resolution_mutex is released and selector_select returns.
NotesHandled ==
    /\ loop = "notify"
    /\ notes = <<>>
    /\ loop' = "check"
    /\ UNCHANGED <<sessionVars, jobVars, notes, listening, selector, signalVars, users, bookVars>>

\* Mutant: nobody is waited for.
AllGoneAssumed == TRUE

\* Mutant: the wait never ends.
AllGoneNever == FALSE

\* client_session_active_count() == 0
AllGone == active = 0

\* server_run after selector_select: the first request to stop closes both
\* listening sockets; the loop is left once no session is left.
Check ==
    /\ loop = "check"
    /\ listening' = (listening /\ ~shutdown_requested)
    /\ loop' = IF ~listening' /\ AllGone THEN "drain" ELSE "while"
    /\ UNCHANGED <<sessionVars, jobVars, notes, selector, signalVars, users, bookVars>>

\* Mutant: the second signal is not looked at.
GoOnAlways == TRUE

GoOn == ~force_shutdown

\* while (!force_shutdown)
While ==
    /\ loop = "while"
    /\ loop' = IF GoOn THEN "select" ELSE "drain"
    /\ UNCHANGED <<sessionVars, jobVars, notes, listening, selector, signalVars, users, bookVars>>

\* After the loop: the listening sockets go if they are still there, and
\* selector_destroy starts.
Drain ==
    /\ loop = "drain"
    /\ listening' = FALSE
    /\ loop' = "destroy"
    /\ UNCHANGED <<sessionVars, jobVars, notes, selector, signalVars, users, bookVars>>

\* Mutant: the target is counted as a session.
target_closeCounts(x) ==
    /\ registered' = registered \ {x}
    /\ open' = open \ {x}
    /\ interest' = [interest EXCEPT ![x] = {}]
    /\ active' = active - 1
    /\ UNCHANGED <<state, job, metrics>>

\* selector_unregister_fd of a target descriptor whose session stays.
target_close(x) ==
    /\ registered' = registered \ {x}
    /\ open' = open \ {x}
    /\ interest' = [interest EXCEPT ![x] = {}]
    /\ UNCHANGED <<state, job, metrics, active>>

\* selector_destroy unregisters one descriptor: client_close or target_close.
DestroyItem(x) ==
    /\ loop = "destroy"
    /\ x \in registered
    /\ IF x[2] = "client"
       THEN client_close(x[1])
       ELSE target_close(x)
    /\ UNCHANGED <<pc, notes, loopVars, signalVars, users, access_log, told>>

\* selector_destroy frees the notifications and the selector.
DestroySelector ==
    /\ loop = "destroy"
    /\ registered = {}
    /\ notes' = <<>>
    /\ selector' = "freed"
    /\ loop' = "report"
    /\ UNCHANGED <<sessionVars, jobVars, listening, signalVars, users, bookVars>>

\* The metrics are printed and main returns, which ends every thread.
Exit ==
    /\ loop = "report"
    /\ loop' = "exit"
    /\ UNCHANGED <<sessionVars, jobVars, notes, listening, selector, signalVars, users, bookVars>>

Loop ==
    \/ EndIteration \/ HandleNote \/ NotesHandled \/ Check \/ While
    \/ Drain \/ (\E x \in registered : DestroyItem(x)) \/ DestroySelector \/ Exit

\* sigterm_handler
sigterm_handler ==
    /\ loop # "exit"
    /\ MaxSignals > (IF shutdown_requested THEN 1 ELSE 0)
    /\ shutdown_requested' = TRUE
    /\ force_shutdown' = shutdown_requested
    /\ UNCHANGED <<sessionVars, jobVars, notes, loopVars, users, bookVars>>

-----------------------------------------------------------------------------
(* Management commands that change the users *)

USERS_MAX == 10

users_add(u) ==
    /\ Managed
    /\ loop = "select"
    /\ u \notin users
    /\ Cardinality(users) < USERS_MAX
    /\ users' = users \cup {u}
    /\ UNCHANGED <<sessionVars, jobVars, notes, loopVars, signalVars, bookVars>>

users_remove(u) ==
    /\ Managed
    /\ loop = "select"
    /\ u \in users
    /\ users' = users \ {u}
    /\ UNCHANGED <<sessionVars, jobVars, notes, loopVars, signalVars, bookVars>>

-----------------------------------------------------------------------------

Serve(s) ==
    \/ accept_connection(s)
    \/ \E offered \in SUBSET {"NO_AUTH", "USERPASS"} : Greeting(s, offered)
    \/ \E credentials \in UserPool \cup {"wrong"} : Authenticate(s, credentials)
    \/ ClientLeaves(s)
    \/ \E r \in {"GENERAL", "CMD_UNSUPPORTED", "ATYP_UNSUPPORTED"} : RejectRequest(s, r)
    \/ BeginAddress(s)
    \/ \E named \in BOOLEAN : BeginDomain(s, named)
    \/ ConnectSucceeds(s)
    \/ ConnectFails(s)
    \/ ReplySent(s)
    \/ ReplyFails(s)
    \/ RelayEnds(s)

Next ==
    \/ \E s \in Sessions : Serve(s) \/ Thread(s)
    \/ \E u \in UserPool : users_add(u) \/ users_remove(u)
    \/ Loop
    \/ sigterm_handler

Spec == Init /\ [][Next]_vars

(***************************************************************************)
(* Fairness.  The main thread never blocks for good: pselect has a timeout *)
(* and no handler blocks.  The operating system schedules every thread and *)
(* getaddrinfo gives up after its own timeouts.  A thread that waits for   *)
(* resolution_mutex gets it in the end: the main thread holds it for a few *)
(* handlers only and not while it sleeps in pselect.  Nothing is assumed   *)
(* of clients, targets, signals or management commands.                    *)
(***************************************************************************)
Fairness ==
    /\ WF_vars(Loop)
    /\ \A s \in Sessions : WF_vars(Thread(s)) /\ SF_vars(Enqueue(s))

FairSpec == Spec /\ Fairness

-----------------------------------------------------------------------------
(* Properties *)

\* Every variable has its type (client_state_t, resolver_job, fdselector and
\* the globals of server.c, metrics.c and client_session.c).
TypeOK ==
    /\ state \in [Sessions -> State]
    /\ interest \in [Descriptors -> SUBSET {"R", "W"}]
    /\ registered \subseteq Descriptors
    /\ open \subseteq Descriptors
    /\ job \in [Sessions -> Job]
    /\ pc \in [Sessions -> {"none", "resolve", "enqueue", "signal", "free", "end"}]
    /\ notes \in Seq(Sessions)
    /\ selector \in {"live", "freed"}
    /\ loop \in {"select", "notify", "check", "while", "drain", "destroy", "report", "exit"}
    /\ listening \in BOOLEAN
    /\ shutdown_requested \in BOOLEAN
    /\ force_shutdown \in BOOLEAN
    /\ users \subseteq UserPool
    /\ metrics \in Metrics
    /\ active \in Nat
    /\ access_log \in [Sessions -> Seq(BOOLEAN)]
    /\ told \in [Sessions -> Replies \cup {"nothing"}]

LiveSessions == {s \in Sessions : Live(s)}
BornSessions == {s \in Sessions : state[s].stage # "UNBORN"}

\* The counter that shutdown waits on and the two connection metrics count the
\* sessions that exist: every path that closes a session, selector_destroy
\* included, decrements exactly once (active_client_connections is unsigned and
\* its decrement is not guarded).
CountersExact ==
    /\ active = Cardinality(LiveSessions)
    /\ metrics.concurrent = active
    /\ metrics.historical = Cardinality(BornSessions)

\* A session has at most one outcome: one line in the access log, one increment
\* of successful_connections or of failed_connections, over all the error
\* paths of target_connection.c; successes are logged as such.
OneOutcome ==
    /\ \A s \in Sessions : Len(access_log[s]) =< 1
    /\ metrics.successful = Cardinality({s \in Sessions : access_log[s] = <<TRUE>>})
    /\ metrics.failed >= Cardinality({s \in Sessions : access_log[s] = <<FALSE>>})
    /\ metrics.successful + metrics.failed =< metrics.historical

\* The process keeps a descriptor open exactly while it is registered, a client
\* descriptor exactly while its session exists, and a target descriptor exactly
\* while its session connects or relays: nothing leaks on any error path, and
\* pselect never sees a closed descriptor.
DescriptorsExact ==
    /\ open = registered
    /\ \A s \in Sessions :
        /\ Client(s) \in open <=> Live(s)
        /\ Target(s) \in open => state[s].stage \in {"CONNECTING", "RELAY"}
        /\ loop # "destroy" /\ state[s].stage \in {"CONNECTING", "RELAY"} => Target(s) \in open

\* What the selector watches for a session is what the session's stage and its
\* pending reply call for, however the stage was reached: a message of the
\* client, the outcome of a connection (possibly of several addresses), or the
\* room to send the reply.  A descriptor that is not registered is not watched.
InterestFollowsStage ==
    /\ \A x \in Descriptors \ registered : interest[x] = {}
    /\ \A s \in Sessions :
        LET c == state[s]
            replying == IF c.reply = "nothing" THEN {"R"} ELSE {"W"}
        IN  /\ c.stage \in {"GREETING", "AUTH", "REQUEST", "RELAY", "CLOSING"} =>
                    interest[Client(s)] = replying
            /\ c.stage \in {"RESOLVING", "CONNECTING"} =>
                    c.reply = "nothing" /\ interest[Client(s)] = {}
            /\ c.stage = "CONNECTING" /\ Target(s) \in registered =>
                    interest[Target(s)] = {"W"}
            /\ c.stage = "CLOSING" => c.reply # "nothing"
            /\ c.stage = "RELAY" => (c.relay_started <=> c.reply = "nothing")
            /\ c.relay_started => c.stage = "RELAY"

\* A resolver job is neither used after it is freed, freed twice, nor lost: the
\* session and the thread only hold live jobs, and a live job is held by the
\* waiting session or, once detached, by its thread, never by nobody.
JobSafe ==
    \A s \in Sessions :
        /\ state[s].has_job => job[s].mem = "live" /\ job[s].waiting /\ pc[s] # "free"
        /\ pc[s] \in {"resolve", "free"} => job[s].mem = "live"
        /\ job[s].mem = "live" => state[s].has_job \/ pc[s] \in {"resolve", "free"}

\* A queued notification names a session that still waits for the finished job
\* it announces, and no session is announced twice: the descriptor number in
\* the notification cannot have been closed and reused meanwhile, by a target
\* or management descriptor without a handle_block handler for instance.
NotesFresh ==
    loop \in {"select", "notify", "check", "while"} =>
        \A i \in 1 .. Len(notes) :
            /\ state[notes[i]].stage = "RESOLVING" /\ state[notes[i]].has_job
            /\ job[notes[i]].done
            /\ \A k \in 1 .. Len(notes) : notes[k] = notes[i] => k = i

\* No session is forgotten: while the loop runs, a session waits for one of its
\* descriptors, or its resolver thread has yet to announce the answer, or the
\* announcement is queued.
NoneForgotten ==
    loop \in {"select", "notify", "check", "while"} =>
        \A s \in Sessions : Live(s) =>
            \/ interest[Client(s)] # {}
            \/ interest[Target(s)] # {}
            \/ state[s].stage = "RESOLVING" /\
                  (pc[s] \in {"resolve", "enqueue"} \/ \E i \in 1 .. Len(notes) : notes[i] = s)

\* Without a second signal the server leaves its loop only when no session is
\* left, also when connections are accepted between the signal and the check.
GracefulDropsNobody ==
    loop \in {"drain", "destroy", "report", "exit"} /\ ~force_shutdown =>
        \A s \in Sessions : ~Live(s)

\* A graceful shutdown never frees the selector under a thread that has yet to
\* queue its notification in it.
EnqueuesInLiveSelector ==
    ~force_shutdown => \A s \in Sessions : pc[s] = "enqueue" => selector = "live"

\* The threads that report to the selector do so while it exists, from the
\* moment they decide to notify it to their last access, the read of
\* s->selector_thread after the notification is queued.
ReportsToLiveSelector ==
    \A s \in Sessions : pc[s] \in {"enqueue", "signal"} => selector = "live"

\* The README's account of method selection (client_read's greeting branch):
\* username/password is negotiated when there are users configured, and with
\* none the proxy accepts NO AUTH from whoever offers it.  Meant for users that
\* do not change: otherwise the last one may go between greeting and password.
MethodFollowsUsers ==
    \A s \in Sessions : state[s].stage = "AUTH" => users # {}

\* A session whose target name is being resolved always leaves that stage.
ResolutionEnds ==
    \A s \in Sessions : state[s].stage = "RESOLVING" ~> state[s].stage # "RESOLVING"

\* The second signal ends the server, whatever the sessions do.
ForceStops == force_shutdown ~> loop = "exit"

\* The first signal closes the listening sockets, and the server ends once the
\* last session has ended.
GracefulStops ==
    /\ shutdown_requested ~> ~listening
    /\ (~listening /\ active = 0) ~> loop = "exit"

-----------------------------------------------------------------------------
(* Refinement *)

\* How far a session has come, in the terms of SocksService.
Standing(s) ==
    LET st == state[s].stage
    IN  CASE st = "UNBORN" -> "none"
          [] st \in {"GREETING", "AUTH"} -> "open"
          [] st \in {"REQUEST", "RESOLVING", "CONNECTING"} -> "cleared"
          [] st = "RELAY" -> IF state[s].relay_started THEN "granted" ELSE "linked"
          [] st = "CLOSING" -> "refused"
          [] st = "FREED" -> "gone"

Service == INSTANCE SocksService WITH
    Clients <- Sessions, NoUser <- "anonymous",
    standing <- [s \in Sessions |-> Standing(s)],
    user <- [s \in Sessions |-> state[s].user],
    message <- told,
    configured <- users

\* Every behaviour of the handlers, threads, loop and signals is, for each
\* client, a behaviour of the abstract service: authentication is enforced,
\* SUCCESS is told once and only to a linked client, refusals are final.
ImplementsService == Service!Spec

=============================================================================
