----------------------------- MODULE EventLoop -----------------------------
(***************************************************************************)
(* The selector and the descriptors it serves: the table of struct         *)
(* fdselector indexed by descriptor NUMBER, the sets given to pselect, the *)
(* snapshot that pselect returns and the loop of handle_iteration that     *)
(* serves it, while the handlers accept, connect and close descriptors     *)
(* whose numbers the kernel hands out again, lowest first.                 *)
(*                                                                         *)
(* A session is reduced to what it does with descriptors: it is accepted,  *)
(* asks for an address, connects, is answered, relays and closes.  The     *)
(* messages are in Handshake, the bytes in Relay, name resolution and the  *)
(* shutdown in Proxy.  A handler is one action, except accept_connection,  *)
(* whose loop accepts one connection per step.                             *)
(***************************************************************************)
EXTENDS Integers, Sequences, FiniteSets

CONSTANTS
    Sessions,            \* client connections that may arrive
    NULL,                \* no data
    FD_SETSIZE,          \* descriptors select(2) can handle
    Limits,              \* values RLIMIT_NOFILE may have
    MayStop              \* TRUE iff the server may be told to stop accepting

ASSUME LoopAssumption ==
    /\ NULL \notin Sessions
    /\ FD_SETSIZE \in Nat \ {0}
    /\ Limits \subseteq Nat \ {0}
    /\ MayStop \in BOOLEAN

VARIABLES
    sel,                 \* struct fdselector: table, max_fd and master sets
    slave,               \* slave_r and slave_w, as pselect left them
    phase,               \* "select" or "dispatch"
    last,                \* n of handle_iteration
    pos,                 \* place handle_iteration has reached
    limit,               \* RLIMIT_NOFILE
    open,                \* descriptors open in the process
    session,             \* session[s]: what matters here of client_state_t
    conn,                \* conn[s]: the connection to the target, in the kernel
    backlog,             \* connections nobody has accepted yet
    errno                \* "0" or "error"

vars == <<sel, slave, phase, last, pos, limit, open, session, conn, backlog, errno>>

server_fd == 0
NoFd == -1
Ops == {"R", "W"}
Index == 0 .. FD_SETSIZE
Unused == [handler |-> "none", interest |-> {}, data |-> NULL]

\* struct item; fd is FD_UNUSED when there is no handler.
Item == [handler : {"none", "accept", "client", "target"},
         interest : SUBSET Ops, data : Sessions \cup {NULL}]

-----------------------------------------------------------------------------
(* The selector's table *)

\* Powers of two above n that the platform can handle.
PowersAbove(n) == {p \in n + 1 .. FD_SETSIZE : \E b \in 0 .. p : p = 2 ^ b}

next_capacity(n) ==
    1 + IF PowersAbove(n) = {} THEN FD_SETSIZE
        ELSE CHOOSE p \in PowersAbove(n) : \A q \in PowersAbove(n) : p <= q

\* fd_size once ensure_capacity has succeeded for n <= FD_SETSIZE.
ensure_capacity(t, n) == IF n < t.fd_size THEN t.fd_size ELSE next_capacity(n)

Used(t) == {f \in Index : t.fds[f].handler # "none"}

items_max_fd(t) ==
    LET found == Used(t) \cap (0 .. t.max_fd)
    IN  IF found = {} THEN 0 ELSE CHOOSE m \in found : \A f \in found : f <= m

\* Mutant: what is no longer of interest stays in the master sets.
items_update_fdset_for_fdOnly(t, f, ops) ==
    [t EXCEPT !.master_r = IF "R" \in ops THEN @ \cup {f} ELSE @,
              !.master_w = IF "W" \in ops THEN @ \cup {f} ELSE @]

\* ops is the interest the item of f has been given.
items_update_fdset_for_fd(t, f, ops) ==
    [t EXCEPT !.master_r = IF "R" \in ops THEN @ \cup {f} ELSE @ \ {f},
              !.master_w = IF "W" \in ops THEN @ \cup {f} ELSE @ \ {f}]

\* selector_register succeeds: the descriptor is valid and its slot is free.
CanRegister(t, f) == f < FD_SETSIZE /\ t.fds[f].handler = "none"

selector_register(t, f, item) ==
    items_update_fdset_for_fd(
        [t EXCEPT !.fds[f] = item,
                  !.fd_size = IF f > @ THEN ensure_capacity(t, f) ELSE @,
                  !.max_fd = IF f > @ THEN f ELSE @], f, item.interest)

\* What selector_unregister_fd does to the table once handle_close has run.
selector_unregister_fd(t, f) ==
    LET cleared == items_update_fdset_for_fd([t EXCEPT !.fds[f] = Unused], f, {})
    IN  IF t.fds[f].handler = "none" THEN t
        ELSE [cleared EXCEPT !.max_fd = items_max_fd(cleared)]

selector_set_interest(t, f, ops) ==
    IF t.fds[f].handler = "none" THEN t
    ELSE items_update_fdset_for_fd([t EXCEPT !.fds[f].interest = ops], f, ops)

\* server_run calls selector_new(1024), and 1024 is FD_SETSIZE.
InitialElements == FD_SETSIZE

selector_new ==
    [fds |-> [f \in Index |-> Unused], fd_size |-> next_capacity(InitialElements),
     max_fd |-> 0, master_r |-> {}, master_w |-> {}]

-----------------------------------------------------------------------------
(* Sessions and their descriptors *)

Free(o) == (0 .. limit - 1) \ o

\* The descriptor that accept and socket return.
Lowest(o) == CHOOSE f \in Free(o) : \A g \in Free(o) : f <= g

Stages == {"UNBORN", "QUEUED", "REQUEST", "CONNECTING", "ANSWERED", "RELAY",
           "CLOSING", "FREED"}
NewSession ==
    [stage |-> "UNBORN", client |-> NoFd, target |-> NoFd,
     c2t |-> FALSE, t2c |-> FALSE,       \* bytes wait in c2t_buffer, t2c_buffer
     reply |-> "none"]                   \* the reply to the request

Init ==
    /\ sel = selector_register(selector_new, server_fd,
                [handler |-> "accept", interest |-> {"R"}, data |-> NULL])
    /\ slave = [r |-> {}, w |-> {}]
    /\ phase = "select"
    /\ last = 0
    /\ pos = 0
    /\ limit \in Limits
    /\ open = {server_fd}
    /\ session = [s \in Sessions |-> NewSession]
    /\ conn = [s \in Sessions |-> "none"]
    /\ backlog = <<>>
    /\ errno \in {"0", "error"}

\* The kernel: a client connects, a connection under way ends one way or another.
ClientConnects(s) ==
    /\ session[s].stage = "UNBORN"
    /\ server_fd \in open /\ sel.fds[server_fd].handler = "accept"
    /\ session' = [session EXCEPT ![s].stage = "QUEUED"]
    /\ backlog' = Append(backlog, s)
    /\ UNCHANGED <<sel, slave, phase, last, pos, limit, open, conn, errno>>

ConnectionEnds(s, how) ==
    /\ conn[s] = "inprogress"
    /\ conn' = [conn EXCEPT ![s] = how]
    /\ UNCHANGED <<sel, slave, phase, last, pos, limit, open, session, backlog, errno>>

-----------------------------------------------------------------------------
(* The loop *)

\* Descriptor f, in a master set, is ready: the listening socket while somebody
\* waits, a connecting one once its connection has ended; a peer may make any
\* other one ready at any time.
MustBeReady(f) ==
    LET i == sel.fds[f] IN
    \/ i.handler = "accept" /\ backlog # <<>>
    \/ /\ i.handler = "target" /\ session[i.data].stage = "CONNECTING"
       /\ conn[i.data] \in {"established", "refused"}

MayBeReady(f) ==
    LET i == sel.fds[f] IN
    \/ MustBeReady(f)
    \/ i.handler = "client"
    \/ i.handler = "target" /\ session[i.data].stage = "RELAY"

\* The sets pselect may turn the set m into.
ReadySets(m) ==
    {r \in SUBSET m : \A f \in m : (MustBeReady(f) => f \in r) /\ (f \in r => MayBeReady(f))}

\* Mutant: one less than the highest descriptor.
LastOfIterationLess == sel.max_fd - 1

\* Mutant: the loop counts descriptors instead of going up to the highest.
LastOfIterationCounted == Cardinality(Used(sel)) - 1

LastOfIteration == sel.max_fd

\* selector_select up to handle_iteration.  A timeout returns two empty sets.
Pselect ==
    /\ phase = "select"
    /\ \E r \in ReadySets(sel.master_r), w \in ReadySets(sel.master_w) :
         slave' = [r |-> r, w |-> w]
    /\ phase' = "dispatch"
    /\ last' = LastOfIteration
    /\ pos' = 0
    /\ UNCHANGED <<sel, limit, open, session, conn, backlog, errno>>

\* pselect returns EINTR: nothing is dispatched.
Interrupted ==
    /\ phase = "select"
    /\ errno' = "error"
    /\ UNCHANGED <<sel, slave, phase, last, pos, limit, open, session, conn, backlog>>

\* handle_iteration looks at descriptors in order, at each for reading first.
Place(f, op) == 2 * f + IF op = "R" THEN 0 ELSE 1

\* handle_iteration calls the handler of f for op when it gets there: readiness
\* comes from the snapshot, the item and its interest from the table.
Due(f, op) ==
    /\ f <= last
    /\ sel.fds[f].handler # "none"
    /\ f \in (IF op = "R" THEN slave.r ELSE slave.w)
    /\ op \in sel.fds[f].interest

Ahead == {x \in Index \X Ops : pos <= Place(x[1], x[2]) /\ Due(x[1], x[2])}

\* The next handler to be called is that of f for op.
Turn(f, op) ==
    /\ phase = "dispatch"
    /\ pos <= Place(f, op) /\ Due(f, op)
    /\ \A x \in Ahead : Place(f, op) <= Place(x[1], x[2])

Advance(f, op) ==
    /\ pos' = Place(f, op) + 1
    /\ UNCHANGED <<slave, phase, last, limit>>

IterationEnds ==
    /\ phase = "dispatch"
    /\ Ahead = {}
    /\ phase' = "select"
    /\ slave' = [r |-> {}, w |-> {}]
    /\ last' = 0
    /\ pos' = 0
    /\ UNCHANGED <<sel, limit, open, session, conn, backlog, errno>>

\* server_run stops accepting: the kernel resets whoever was waiting.
StopAccepting ==
    /\ MayStop
    /\ phase = "select"
    /\ sel.fds[server_fd].handler = "accept"
    /\ sel' = selector_unregister_fd(sel, server_fd)
    /\ open' = open \ {server_fd}
    /\ session' = [s \in Sessions |->
                      IF session[s].stage = "QUEUED"
                      THEN [session[s] EXCEPT !.stage = "FREED"] ELSE session[s]]
    /\ backlog' = <<>>
    /\ UNCHANGED <<slave, phase, last, pos, limit, conn, errno>>

-----------------------------------------------------------------------------
(* accept_connection *)

\* It is the turn of accept_connection.
Accepting == Turn(server_fd, "R") /\ sel.fds[server_fd].handler = "accept"

\* One connection of the loop.  One that cannot be set up or registered is
\* closed again.
Accept(s) ==
    /\ Accepting
    /\ backlog # <<>> /\ s = Head(backlog)
    /\ Free(open) # {}
    /\ backlog' = Tail(backlog)
    /\ LET f == Lowest(open) IN
       \/ /\ CanRegister(sel, f)
          /\ sel' = selector_register(sel, f,
                      [handler |-> "client", interest |-> {"R"}, data |-> s])
          /\ open' = open \cup {f}
          /\ session' = [session EXCEPT ![s].stage = "REQUEST", ![s].client = f]
       \/ /\ session' = [session EXCEPT ![s].stage = "FREED"]
          /\ UNCHANGED <<sel, open>>
    /\ UNCHANGED <<slave, phase, last, pos, limit, conn, errno>>

\* Mutant: the listening socket is given up when descriptors run out.
ListeningAfterGivenUp ==
    IF Free(open) = {} THEN selector_set_interest(sel, server_fd, {}) ELSE sel

\* The table when accept has failed: the listening socket stays registered.
ListeningAfter == sel

\* accept fails: nobody is waiting (EAGAIN), or no descriptor is left (EMFILE).
AcceptFails ==
    /\ Accepting
    /\ backlog = <<>> \/ Free(open) = {}
    /\ errno' = "error"
    /\ sel' = ListeningAfter
    /\ Advance(server_fd, "R")
    /\ UNCHANGED <<open, session, conn, backlog>>

-----------------------------------------------------------------------------
(* Handlers of the sessions *)

\* It is the turn of the handler of session s of this kind, in stage st.
Serves(s, kind, op, st) ==
    /\ session[s].stage = st
    /\ \E f \in Index :
        /\ sel.fds[f].handler = kind /\ sel.fds[f].data = s
        /\ Turn(f, op)
        /\ Advance(f, op)

\* Mutant: the target's descriptor is closed but stays in the table.
WithoutTargetKept(s) == sel

\* The table once client_close has unregistered the target's descriptor.
WithoutTarget(s) ==
    IF session[s].target = NoFd THEN sel ELSE selector_unregister_fd(sel, session[s].target)

\* selector_unregister_fd of the client's descriptor, and with it client_close.
client_close(s) ==
    /\ \E t \in {WithoutTarget(s)} : sel' = selector_unregister_fd(t, session[s].client)
    /\ open' = open \ {session[s].client, session[s].target}
    /\ session' = [session EXCEPT ![s] = [NewSession EXCEPT !.stage = "FREED"]]
    /\ conn' = [conn EXCEPT ![s] = "none"]

\* The request of session s fails with err: it is answered and will be closed.
\* t and o are the table and the open descriptors once the attempt is undone.
Refuse(s, t, o, err) ==
    /\ sel' = selector_set_interest(t, session[s].client, {"W"})
    /\ open' = o
    /\ conn' = [conn EXCEPT ![s] = "none"]
    /\ session' = [session EXCEPT ![s].stage = "CLOSING", ![s].target = NoFd,
                     ![s].reply = IF err = "0" THEN "SUCCESS" ELSE "FAILURE"]

\* Mutant: the error of a failed registration is not remembered.
RegisterErrorNone(e) == "0"

\* last_connect_error after a failed selector_register: it sets no errno, so
\* this is what the last system call that failed has left.
RegisterError(e) == e

\* Mutant: a failed attempt forgets to close its descriptor.
ClosedByHandNot(o, f) == o

\* The open descriptors once a failed attempt has closed its own, f, which the
\* table does not know (or no longer would): nobody else closes it.
ClosedByHand(o, f) == o \ {f}

\* What the attempts that fail at once leave of the descriptors o: socket found
\* none, or set_nonblocking or connect failed on the one it gave.
AfterFailed(o) ==
    {o} \cup {ClosedByHand(o \cup {f}, f) : f \in {g \in Free(o) : g = Lowest(o)}}

\* start_target_connection for the addresses that are left, with the table t and
\* the descriptors o of the moment: the first that does not fail at once is
\* registered, or the request is refused with the last error.
StartConnection(s, t, o) == \E q \in AfterFailed(o) :
    \/ errno' = "error" /\ Refuse(s, t, q, "error")
    \/ /\ Free(q) # {}
       /\ LET f == Lowest(q) IN
          \E c \in {"inprogress", "established"} :
            /\ errno' = IF c = "inprogress" THEN "error" ELSE errno
            /\ IF CanRegister(t, f)
               THEN /\ sel' = selector_set_interest(
                                selector_register(t, f, [handler |-> "target",
                                    interest |-> {"W"}, data |-> s]),
                                session[s].client, {})
                    /\ open' = q \cup {f}
                    /\ conn' = [conn EXCEPT ![s] = c]
                    /\ session' = [session EXCEPT ![s].stage = "CONNECTING", ![s].target = f]
               ELSE Refuse(s, t, ClosedByHand(q \cup {f}, f), RegisterError(errno'))

\* client_read before the relay: part of a message, end of file or an error, a
\* request that is refused, one for an address.
ReadsRequest(s) ==
    /\ Serves(s, "client", "R", "REQUEST")
    /\ \/ UNCHANGED <<sel, open, session, conn, errno>>
       \/ client_close(s) /\ UNCHANGED errno
       \/ Refuse(s, sel, open, "error") /\ UNCHANGED errno
       \/ StartConnection(s, sel, open)
    /\ UNCHANGED backlog

\* target_write while connecting.  SO_ERROR is 0 unless the connection failed.
ConnectionReady(s) ==
    /\ Serves(s, "target", "W", "CONNECTING")
    /\ IF conn[s] = "refused"
       THEN StartConnection(s, selector_unregister_fd(sel, session[s].target),
                            open \ {session[s].target})
       ELSE /\ sel' = selector_set_interest(
                        selector_set_interest(sel, session[s].target, {}),
                        session[s].client, {"W"})
            /\ session' = [session EXCEPT ![s].stage = "ANSWERED", ![s].reply = "SUCCESS"]
            /\ UNCHANGED <<open, conn, errno>>
    /\ UNCHANGED backlog

\* client_session_update_relay_interests, for the bytes that wait.
RelayInterests(s, c2t, t2c) ==
    \E t \in {selector_set_interest(sel, session[s].client,
                 (IF c2t THEN {} ELSE {"R"}) \cup (IF t2c THEN {"W"} ELSE {}))} :
        sel' = selector_set_interest(t, session[s].target,
                 (IF t2c THEN {} ELSE {"R"}) \cup (IF c2t THEN {"W"} ELSE {}))

\* client_write of the reply: part of it, an error, all of it.
SendsReply(s, st) ==
    /\ Serves(s, "client", "W", st)
    /\ \/ errno' = "error" /\ UNCHANGED <<sel, open, session, conn>>
       \/ client_close(s) /\ UNCHANGED errno
       \/ /\ st = "ANSWERED"
          /\ RelayInterests(s, FALSE, FALSE)
          /\ session' = [session EXCEPT ![s].stage = "RELAY"]
          /\ UNCHANGED <<open, conn, errno>>
    /\ UNCHANGED backlog

\* A handler of the relay: it moves bytes in one direction, or closes.
Relays(s, kind, op) ==
    /\ Serves(s, kind, op, "RELAY")
    /\ \/ client_close(s)
       \/ \E waits \in BOOLEAN :
            LET upstream == <<kind, op>> \in {<<"client", "R">>, <<"target", "W">>}
                c2t == IF upstream THEN waits ELSE session[s].c2t
                t2c == IF upstream THEN session[s].t2c ELSE waits
            IN  /\ RelayInterests(s, c2t, t2c)
                /\ session' = [session EXCEPT ![s].c2t = c2t, ![s].t2c = t2c]
                /\ UNCHANGED <<open, conn>>
    /\ UNCHANGED <<errno, backlog>>

Handlers(s) ==
    \/ Accept(s)
    \/ ReadsRequest(s)
    \/ ConnectionReady(s)
    \/ \E st \in {"ANSWERED", "CLOSING"} : SendsReply(s, st)
    \/ \E kind \in {"client", "target"}, op \in Ops : Relays(s, kind, op)

MainThread ==
    \/ Pselect \/ IterationEnds \/ AcceptFails
    \/ \E s \in Sessions : Handlers(s)

Next ==
    \/ MainThread \/ Interrupted \/ StopAccepting
    \/ \E s \in Sessions : ClientConnects(s)
    \/ \E s \in Sessions, how \in {"established", "refused"} : ConnectionEnds(s, how)

Spec == Init /\ [][Next]_vars

\* Fairness: the main thread never blocks for good, since pselect has a timeout
\* and every handler works on non-blocking descriptors.
FairSpec == Spec /\ WF_vars(MainThread)

-----------------------------------------------------------------------------
(* Properties *)

\* Every variable keeps to the values its declaration in the code allows.
TypeOK ==
    /\ sel \in [fds : [Index -> Item], fd_size : Nat, max_fd : Index,
                master_r : SUBSET Index, master_w : SUBSET Index]
    /\ slave \in [r : SUBSET Index, w : SUBSET Index]
    /\ phase \in {"select", "dispatch"}
    /\ last \in Index
    /\ pos \in Nat
    /\ limit \in Limits
    /\ open \subseteq 0 .. limit - 1
    /\ session \in [Sessions -> [stage : Stages,
                client : Index \cup {NoFd}, target : Index \cup {NoFd},
                c2t : BOOLEAN, t2c : BOOLEAN, reply : {"none", "SUCCESS", "FAILURE"}]]
    /\ conn \in [Sessions -> {"none", "inprogress", "established", "refused"}]
    /\ backlog \in Seq(Sessions)
    /\ errno \in {"0", "error"}

\* What selector.c derives from its table is right whatever was registered and
\* unregistered before: pselect is asked for exactly the interests in the
\* table, handle_iteration reaches every item, and no item lies outside the
\* memory of the table, which never grows and so never moves under the pointer
\* that handle_iteration keeps across a handler.
TableExact ==
    /\ sel.master_r = {f \in Used(sel) : "R" \in sel.fds[f].interest}
    /\ sel.master_w = {f \in Used(sel) : "W" \in sel.fds[f].interest}
    /\ \A f \in Used(sel) : f <= sel.max_fd /\ f < sel.fd_size
    /\ sel.max_fd \in Used(sel) \cup {0}
    /\ sel.fd_size = next_capacity(FD_SETSIZE)

\* The table holds exactly the descriptors the process has open, each with the
\* session that owns it, although numbers are reused at once: pselect is never
\* given a closed descriptor (EBADF), and no handler is given another's data.
TableMirrorsDescriptors ==
    /\ Used(sel) = open
    /\ \A s \in Sessions : \A kind \in {"client", "target"} : \A f \in Index :
         session[s][kind] = f <=> sel.fds[f].handler = kind /\ sel.fds[f].data = s

\* A client is told that its request succeeded only while it has a descriptor
\* to its target: a registration that fails, which sets no errno, is never
\* reported as success.
SuccessHasTarget ==
    \A s \in Sessions :
        session[s].reply = "SUCCESS" =>
            session[s].stage \in {"ANSWERED", "RELAY"} /\ session[s].target \in open

\* Reply 0x00 means that the connection to the target is established.
SuccessMeansConnected ==
    \A s \in Sessions : session[s].reply = "SUCCESS" => conn[s] = "established"

\* Whoever waits for its connection hears of its outcome once there is one: the
\* loop serves every descriptor, the one with the highest number too.
OutcomeIsNoticed ==
    \A s \in Sessions :
        session[s].stage = "CONNECTING" /\ conn[s] \in {"established", "refused"}
            ~> session[s].stage # "CONNECTING" \/ conn[s] = "inprogress"

\* Running out of descriptors does not stop accept_connection for good: if the
\* loop finds one free again and again, whoever waits is accepted or turned away.
NobodyWaitsForever ==
    []<>(phase = "select" /\ Free(open) # {})
        => \A s \in Sessions : session[s].stage = "QUEUED" ~> session[s].stage # "QUEUED"
=============================================================================
