# A SOCKS5 proxy in TLA+: models, checks and proofs

This directory is the verification project of the SOCKS5 proxy server in
`src/src/server`, its event loop in `src/src/utils/selector.c`, and its management
protocol with the client in `src/src/client`. It says what the program's concurrent and
event-driven parts do, checks it with TLC on small instances, and proves the central
invariants with TLAPS for every instance.

## 1. The system

The server is one process. A main thread runs an event loop over non-blocking
descriptors; every DNS resolution runs in a detached thread of its own; SIGTERM and
SIGINT interrupt at any point.

| part | state it keeps | operations | talks to |
|---|---|---|---|
| client session (`client_session.c`, `server.h`) | `client_state_t`: stage, reply being sent, relay buffers, user, destination; the count of active sessions | accept, read (greeting, password, request, relay), write (reply, relay), close | selector, target connection, auth, metrics |
| target connection (`target_connection.c`) | address list, last error, target descriptor | begin, try next address, outcome, target half of the relay | selector, session, access log, metrics |
| resolver thread (`target_connection.c`) | `resolver_job`, shared with the session under a mutex | resolve, publish, notify or free | selector's notification queue |
| selector (`selector.c`) | descriptor table, interests, notification queue under a mutex | register, unregister, set interest, select, dispatch, notify, destroy | handlers, threads |
| server (`server.c`) | listening sockets, two signal flags | loop, stop accepting, wait, force, destroy | all |
| metrics, access log | counters; a file | count, append | - |
| users, auth (`users.c`, `auth.c`) | table of at most 10 users | add, remove, check | management, session |
| SOCKS5 codec (`socks5.c`) | - | parse requests, prepare replies | session |
| management (`management.c`) | a line buffer and an answer per connection | accept, read a line, STATS, USERS, ADDUSER, DELUSER, ..., send the answer, close | users, metrics, selector |
| management client (`client.c`) | a command line and its answer | join the arguments, connect, send, print | management |
| buffer, stm, parser, netutils, args | course libraries that neither program uses, command line | | |

What is hard in it:

* **Shared jobs.** A resolver job belongs to its session and to its thread. Who frees
  it is decided under its mutex by two flags, while the session may be closing.
* **Notifications by descriptor number.** A thread announces its answer by a number
  that might be closed and reused when the announcement is read.
* **A waiting session watches nothing.** During resolution the session has no interest
  in any descriptor: only the notification moves it on.
* **Interests as program counters.** What a handler does next is decided by the
  interest another handler left, sometimes several events earlier: EAGAIN returns and
  address fallback are early returns that rely on it.
* **Nested closing.** Closing the client closes the target from within a close handler,
  also from within `selector_destroy`; the session count is unsigned and unguarded.
* **Numbers that come back.** The selector's table is indexed by descriptor number, the
  kernel hands out the lowest free one at once, and one iteration serves a snapshot of
  readiness by number while its handlers close and open descriptors.
* **Limits.** The table ends at `FD_SETSIZE`, the process at `RLIMIT_NOFILE`; what a failed
  registration reports is the `errno` some other call has left.
* **Lines in pieces.** A management command arrives in pieces of any size, in a buffer as
  large as the client's, while the table of users is changed by other connections; the client
  may die, and the server stop, at any point.
* **Two-step shutdown.** The first signal stops accepting and waits for the count of
  sessions to reach zero; the second one ends the loop whatever is going on. Detached
  threads are not waited for.

`PROJECT.json` lists these as hazards, each at its line, with the properties that would
catch it going wrong.

## 2. The modules

| module | what it is |
|---|---|
| `Relay` | the data plane of one session: the four relay handlers, two buffers, interests, and the peers |
| `BytePipe` | abstract: two byte pipes; implemented by `Relay` |
| `Relay_proofs` | proofs about `Relay` |
| `Proxy` | the control plane: all sessions, their resolver threads, the loop, signals, shutdown, users |
| `SocksService` | abstract: what each client is promised; implemented by `Proxy` |
| `Socks5` | the parsers and replies of `socks5.c` and `auth.c` as operators on byte buffers |
| `Handshake` | one session byte by byte, from accept to the request, with a client that uses `Socks5`'s protocol |
| `MCHandshake` | small messages for `Handshake` |
| `Handshake_proofs` | the codec, the handshake, and that messages are judged as they were sent, proved |
| `MCProxy` | instances of `Proxy` for TLC |
| `Proxy_proofs` | counters, descriptors, interests and jobs, proved |
| `Shutdown_proofs` | notifications and graceful shutdown, proved |
| `Outcome_proofs` | the access log and the metrics of requests, and that `Proxy` implements `SocksService`, proved |
| `EventLoop` | the selector's table, the snapshot and the order of one iteration, with numbered descriptors |
| `MCEventLoop` | symmetry for `EventLoop` |
| `EventLoop_proofs` | the table and its agreement with the descriptors, proved |
| `Management` | the table of users, the management connections and the client program |
| `UserDirectory` | abstract: one directory of users; implemented by `Management` |
| `MCManagement` | commands for `Management` |
| `Management_proofs` | the table and the line protocol, and that `Management` implements `UserDirectory`, proved |
| `NumberLemmas` | a bounded set of naturals has a least and a greatest element |

### Relay

The state is that of `client_state_t` (`len`, `off` for both directions), the selector's
`interest` in both descriptors, and the peers (`sent`, `eof`, `broken`). Bytes are counted
and not named: each buffer is filled by one `recv` at offset 0 and emptied upwards, so the
counts determine the bytes. A handler is one action. `client_read` and `target_read` include
the nested call of the other side's write handler, with its three ways out (all sent; EAGAIN
after some bytes; an error after some bytes, which closes). A session that closes gives up its
descriptors and whatever its buffers hold, as `client_close` does. `recv` and `send` returning
EAGAIN at once, with nothing done, is a stuttering step.

### Proxy

`state[s]` is the `client_state_t` of session `s`, with the buffers abstracted to the reply
that is being sent; `job[s]` and `pc[s]` are its `resolver_job` and the position of its thread;
`notes` is the selector's queue; `registered`, `interest` and `open` are the descriptors, named
`<<s, "client">>` and `<<s, "target">>`; `loop` is the position of the main thread in
`server_run` and `selector_select`.

* The main thread runs one handler at a time, so a handler is one action: accepting, each
  message of the negotiation, the request, the outcome of a connection, the end of a reply, and
  every reason to close. Messages are complete: an incomplete one only grows `read_buffer`.
* The thread's actions are cut where it synchronises: publishing under the job's mutex,
  queueing under the selector's mutex (not while the main thread handles notifications, which
  holds it), waking the main thread, freeing the job. `getaddrinfo` returns any error or any
  list of addresses with at least one of a known family (`AnswersAssumption`).
* `Attempts` gives all outcomes of `start_next_target_connection`: addresses of other families
  are skipped, any number of attempts may fail at once, the first that is under way stops it. When
  all have failed, the last one got no descriptor or has closed the one it got by hand (`Undone`).
* The loop goes through dispatch, notifications, the shutdown check and the loop condition, then
  through `selector_destroy`, one descriptor at a time in any order. `pselect` failing with EBADF, upon
  which `selector_select` skips the notifications (`selector.c:554-568`), is left out: it takes a
  registered descriptor that is closed, and the proved `DescriptorsExact` and
  `TableMirrorsDescriptors` say that there is none.
* A memory failure in `selector_notify_block` is possible when `AllocMayFail` is set.

A session is never reused and descriptors are named after it; `EventLoop` gives them numbers. Once its
relay runs, a session of `Proxy` only ends; `Relay` says what happens meanwhile and why it ends.

### EventLoop

`sel` is `struct fdselector`: the items by descriptor number, `fd_size`, `max_fd` and the two master
sets, changed by operators named after the functions of `selector.c`. `slave` is the snapshot of
`pselect`, and `last` and `pos` are where `handle_iteration` stands: `Due` takes readiness from the
snapshot but item and interest from the table of the moment, and `Turn` picks the next due place. `open`
is what the process has open; `accept` and `socket` return the lowest free number below
`RLIMIT_NOFILE` (`limit`). The process's other descriptors (standard streams, access log, the management
socket) are left out: they would only shift the numbers.

A session is reduced to what it does with descriptors. `accept_connection` takes one connection of the
`backlog` per step, until `accept` fails; `StartConnection` tries the addresses that are left. A failing
attempt has a descriptor that is open and, outside the table, nobody else's to close: it closes it by
hand (`ClosedByHand`, `target_connection.c:382`, `:404`, `:416`). A failed registration is answered
according to `errno`, which is whatever the last failing call left. `pselect` must report a listening socket with somebody waiting and a connection that
has ended; of other descriptors it may report any. An idle `pselect` is a pass with two empty sets.

### Management

`managed_users` is the slot table of `users.c`; `conn[a]` is a `management_state_t`, `client[a]` the
process at the other end, `up[a]` what is on the wire, `told[a]` what the client has received. Bytes are
counted in words: a word with its separator is one unit, and so are the end of line and a line of an
answer. `management_read` takes any number of units that have arrived and fit; it carries the command
out when there is an end of line or the buffer is full. `management_write` sends the answer in pieces
and closes. The list of USERS has the lines that fit and, if there is room for a part of it, the next one
cut in the name (`Cut`): what is left of a name is `Fragment` of it, which may be the name of another user.
While the process has no descriptor left (`free`, which the environment changes at any time) `accept`
fails and a connection stays queued.

The other end is `client.c`, without arguments (STATS), with blank ones (an empty line), or with words that
fit, fit without the end of line, or do not fit, or any other program with a stream of its own. It may be killed at any point, with part of its line sent.
The server may stop accepting, after which open connections are served until it is gone.
`UserDirectory` knows nothing of slots, buffers and connections: commands take effect one at a time, on
a set of name and password pairs; a list gives as many names of it as there is room for and, if not all
are given and there is room for a part, a part of one more.

### Socks5 and Handshake

A buffer is a function from offsets to bytes, a parser an operator on a buffer and the number of
bytes received. `MaxByte` is 255 in the program; the length bytes, and with them the sizes of names,
passwords and domains, scale with it. A domain becomes a C string: it ends at its first NUL
(`CString`), and `destination` is what `remember_request_destination` and the connection get.

`Handshake` keeps `read_buffer` with everything earlier messages left in it, `read_len`, the reply and
its offset, the interest and the stage. A call of `client_read` takes any number of the bytes on the
wire, within the room left, and then waits, answers or hands the request over; the last includes the
failures of `target_connection_begin`, and what comes after it is `Proxy`'s. `client_write` sends the
reply in pieces. The client encodes its messages (`EncodeGreeting`, `EncodeLogin`, `EncodeRequest`,
from RFC 1928 and 1929) and waits for each answer; it may add bytes of `Ahead`, and leave. The table
of users does not change here; `Proxy` has that.

`JudgedAsSent` compares what the server says with `Deserved`, which is written on the client's message
before it was encoded, so it covers encoding, cutting, reassembling and parsing together. It is about
clients that wait. `OnlyUsersRequest` is about all of them: with users configured, a step takes a session to its
request only if the message that this step completes is a login whose bytes are the name and the password of one
user (`Presented`, written on the bytes and not with the parser).

## 3. What the runs check

| run | instance | distinct states | shows |
|---|---|---|---|
| `relay` | buffers of 2 bytes, 4 bytes each way, fair handlers | 36,847 | `TypeOK`, `Conservation`, `InterestExact`, `NeverWedged`, `EofDrained`, `PendingIsFlushed`, `EofEndsSession`, `ImplementsPipe` |
| `proxy` | 2 sessions (symmetric), 1 user with ADDUSER/DELUSER, three kinds of address lists, both signals, notifications may be lost | 649,930 | `TypeOK`, `CountersExact`, `OneOutcome`, `DescriptorsExact`, `InterestFollowsStage`, `JobSafe`, `NotesFresh`, `GracefulDropsNobody`, `EnqueuesInLiveSelector`, `ImplementsService` |
| `proxy_live` | 2 sessions, fair loop and threads, no notification lost | 142,270 | `NoneForgotten`, `ResolutionEnds`, `ForceStops`, `GracefulStops` |
| `handshake` | 29 requests, 12 logins, 10 greetings, right and wrong in each field, no users or two; in any pieces | 11,476 | `JudgedAsSent`, `NeverWaitsInVain`, `EveryMessageAnswered` |
| `handshake_ahead` | a few messages, each possibly followed by a login sent too early | 98,785 | `RoomLeft`, `OnlyUsersRequest` |
| `event_loop` | 2 sessions, `FD_SETSIZE` 4, 3 or 5 descriptors for the process, the server may stop accepting | 61,838 | `TypeOK`, `TableExact`, `TableMirrorsDescriptors`, `SuccessHasTarget`, `OutcomeIsNoticed`, `NobodyWaitsForever` |
| `management` | 2 connections (symmetric), 2 slots, 3 initial users (one name twice), a buffer of 5 units | 265,496 | `TypeOK`, `NamesDistinct`, `AnsweredAsAsked`, `CommandMovesOn`, `ImplementsDirectory` |
| `management_live` | the same with fewer commands, fair loop and clients, descriptors that run out | 14,830 | `ClientEnds` |
| `stale_readiness` | 3 sessions, `FD_SETSIZE` 8 | violation | section 5 |
| `method_selection` | 1 session, no users | violation | section 5 |
| `late_report` | 1 session, one signal | violation | section 5 |
| `lost_notification` | 1 session, notifications may be lost | violation | section 5 |

Each property has a mutant of the code (an operator named after what it changes, next to the one
it replaces) under which TLC finds it violated: a dropped reset, a forgotten decrement, a job
freed on the wrong side, a list emptied too early, and so on.

**Bounds.** `BufferSize = 2` is the least size with a partial send, and `MaxSent = 4` fills a
buffer twice, so an offset or a length that survives a refill shows. Two sessions are the least
number with two threads, two notifications in the queue, and one session that holds up a shutdown
while another one comes and goes. The address lists are one address, one to skip before one to
use, and one that needs a fallback. `MaxSignals = 2` is all the two flags can tell apart. One user
is enough for the table to be empty or not; its limit, `USERS_MAX`, is in the guard but out of this
instance's reach. One errno and one resolver error: the handlers only pass them on to a table.

In the handshake `MaxByte = 9` is the least that holds the reply codes and a separate 0xFF, and
`BufferSize = 22` is exactly the longest message, so one byte too many waited for fills the buffer.
The two users' names and passwords are the two ways to cut the same three bytes; the domains are empty,
short, with a NUL, and long.

In the event loop one session holds at most two descriptors, besides the listening socket. A limit of 3
makes `accept` and `socket` fail with EMFILE; a limit of 5 hands out number 4, which is beyond
`FD_SETSIZE` and cannot be registered, while it is within the table's memory: the off-by-one between the
test of the capacity and the last index is there. Two sessions suffice for a number to be
reused; stale readiness takes a third one, hence the larger instance of `stale_readiness`, with no
limit in reach.

In the management run a buffer of 5 units is the least that holds the longest command, ADDUSER with
two arguments, with its end of line and the final NUL. One argument list leaves no room for the
end of line and one is longer than that; another program sends a line that fills the server's buffer. Two
slots have a hole once the first user is removed; a third name, for which there is no slot, is left to the
proof of `ImplementsDirectory`. `NameSize = 2` leaves room for one name,
so of two users in the list of USERS the second is cut in its name. `management_live` has no symmetry, which
is not sound for liveness, and a few commands of each kind. Two connections are the least that change the table under each other.

**Deadlock** is checked in `event_loop` and `management`, which never stop, and in no other run: in the
others the process may stop (`exit`), a relay ends, and so does a handshake.

**Fairness.** In `Proxy`: the main thread always takes its next step (`pselect` has a timeout and
no handler blocks), every thread takes its next step (the operating system schedules it and
`getaddrinfo` gives up after its own timeouts), and a thread gets `resolution_mutex` in the end
(strong fairness: the main thread takes and releases it in every iteration and does not hold it
while it sleeps). In `Handshake`: what a session can read or write it will. In
`EventLoop`: the main thread takes its next step, as in `Proxy`; nothing is assumed of the kernel, so a
connection may stay under way for ever, and `NobodyWaitsForever` has its own premise, that a descriptor
is free again and again when the loop selects. In `Management`: the loop serves each connection that is ready, and a
client that lives takes its steps; `ClientEnds` has its own premise, that the process is not for ever
running out of descriptors, without which `accept` leaves its client in the queue. Under it a run of
`client.c` ends, and the connection of a client that died is closed. Nothing is assumed of clients, targets, signals or management. In `Relay`: a
handler that stays enabled is called, as `handle_iteration` serves every ready descriptor; that a
write makes progress assumes that the peer reads. Without that assumption a direction may of course
wait for ever, which is why `NeverWedged` and `InterestExact` say, without any fairness, that the
proxy is always listening for the right event.

## 4. What is proved

For every value of the constants that the named assumptions allow.

| theorem | module | statement |
|---|---|---|
| `TypeCorrect`, `Conserves`, `InterestsAreExact`, `Wakeable`, `Drains` | `Relay_proofs` | the relay's `TypeOK`, `Conservation`, `InterestExact`, `NeverWedged`, `EofDrained` |
| `RelayImplementsPipe` | `Relay_proofs` | `Spec => ImplementsPipe` |
| `TypeCorrect`, `CountersAreExact`, `DescriptorsAreExact`, `InterestsFollow`, `JobsAreSafe` | `Proxy_proofs` | the proxy's `TypeOK`, `CountersExact`, `DescriptorsExact`, `InterestFollowsStage`, `JobSafe` |
| `NotificationsAreFresh`, `ShutdownIsGraceful`, `NotifiesALiveSelector` | `Shutdown_proofs` | `NotesFresh`, `GracefulDropsNobody`, `EnqueuesInLiveSelector` |
| `NobodyIsForgotten` | `Shutdown_proofs` | `NoneForgotten`, assuming `~AllocMayFail` |
| `OutcomesAreSingle` | `Outcome_proofs` | `OneOutcome` |
| `ProxyImplementsService` | `Outcome_proofs` | `Spec => ImplementsService` |
| `VerdictIsStable`, `StaleBytesAreIgnored` | `Handshake_proofs` | a complete message keeps its verdict when more bytes follow it; two buffers with the same received bytes are judged alike |
| `TypeCorrect`, `AlwaysRoom`, `UsersOnly` | `Handshake_proofs` | the handshake's `TypeOK`, `RoomLeft`, `OnlyUsersRequest` |
| `MessagesJudgedAsSent`, `NobodyWaitsInVain` | `Handshake_proofs` | the handshake's `JudgedAsSent`, `NeverWaitsInVain` |
| `TypeCorrect`, `TableIsExact`, `DescriptorsAreMirrored`, `SuccessIsBacked` | `EventLoop_proofs` | the event loop's `TypeOK`, `TableExact`, `TableMirrorsDescriptors`, `SuccessHasTarget` |
| `TypeCorrect`, `NamesAreDistinct`, `AnswersMatch`, `CommandsMoveOn` | `Management_proofs` | the management's `TypeOK`, `NamesDistinct`, `AnsweredAsAsked`, `CommandMovesOn` |
| `ManagementImplementsDirectory` | `Management_proofs` | `Spec => ImplementsDirectory` |

**Relay.** The inductive invariant adds to the properties that a buffer is either empty with offset 0
or strictly ahead of its offset, and that the interests are those of the buffers in every live state.
The second part is what makes an EAGAIN return, which sets no interest, safe.

**Proxy.** Type correctness is not inductive alone: that the unsigned `active` never wraps is the
claim that it equals the number of live sessions, and a session is closed only while live because its
client descriptor is registered exactly as long. So `IInv` is types, counters and, for each session,
descriptors with their interests (`DescriptorInv`) and the agreement of session and thread over the
job (`JobInv`: who waits, whether it is done, who holds it). One lemma per handler; those that leave
the session alive go through `SessionStep`, those that close it through `CloseKeeps`. Counting uses
the library's theorems on cardinality, hence the assumption that `Sessions` is finite.

**Shutdown.** A session that waits for a name watches no descriptor, so no handler of its own can run
(`ServeFrame`); hence a thread that has decided to notify still finds its session waiting
(`AnnouncersAwaited`), and queued notifications name distinct waiting sessions (`QueueInv`). Such a
session is live, and by the exactness of the counter the loop is not left without a second signal while
there is one. Both properties of graceful shutdown follow. `NobodyIsForgotten` needs the converse: a
session that waits has a thread still at work or a notification in the queue (`Announced`). That is true
only as long as no notification is lost, hence its assumption; `lost_notification` shows that it cannot be dropped.

**Outcomes.** A request is counted and logged in the step that takes its session out of the stages before
the outcome (`Undecided`), and no step leads back. A success without a line in the log would be a
session without a destination that connects; `OInv` rules it out, since only a name can be empty and an
empty one is never resolved. The sums of the metrics are cardinalities of the sets of sessions decided
(`Decided`), won and lost.

**The service.** That every step of `Proxy` is a step of `SocksService` or leaves it alone needs to know
what a session's pending reply means to its client (`ServiceInv`): the reply belongs to the stage it is sent
in, and so does the user; and a list of addresses a thread has found always holds one the loop can try,
so when the list is used up an error is remembered, and no failure is answered with the code of a success.

**EventLoop.** `TableOK` is the exactness of the table, kept by each operator of `selector.c`; in
particular `max_fd` is recomputed only on removal, and the capacity is `FD_SETSIZE + 1` from the start,
so the table never moves. `Linked` ties the table, the open descriptors and the sessions: an item
with data names the session that holds its number. It is inductive although nothing is assumed of
which free number comes next. `StageOK` says which descriptors a stage has and that a success is only
reported with a target; that a failed registration never reports `errno` 0 rests on `ErrnoOK`: `accept_connection` leaves
its loop only through a failing call, so no handler of a session runs with a zero `errno`. `BacklogOK`: who
waits has no descriptor yet.

**Management.** `UsersOK` is the table. For each connection, `SideOK` relates client, wire, buffer and answer:
what is in the buffer followed by what is on the wire is the client's line (`OnTheWay`), whose length is
below the size of the server's buffer. So the buffer of such a connection never fills up before the end of
line is there, `Complete` is true exactly when the line is whole, and its words are the client's arguments;
also when the client has been killed, since a part of its line has no end of line.
`CommandsMoveOn` adds that a connection that still reads has received no end of line (`Unfinished`): its
client's line ends with one, so some of the line is still on the wire.

**The directory.** The pairs of the directory are those of the slots in use. The names being distinct,
slots and pairs correspond one to one, so the count is the cardinality of the set, a table without a free
slot is a full directory, and removing the slot of a name removes one pair. The names that USERS lists are
the first ones in slot order that fit, which is a set of the size the directory asks for (`Ranks`), and the
name of the cut line is the next one's, so it is not among them.
A connection that is not being answered carries no answer (`Quiet`), so an answer appears in the step that
carries the command out and in no other.

**Handshake.** The two theorems on the codec say why fragmentation is harmless: each parser depends only
on bytes that have arrived, and its answer, once given, no longer changes. They hold for every buffer;
`BufferSizeAssumption` (the longest login and an IPv6 request fit: 513 of 4096 bytes) is what
`AlwaysRoom` needs (`IncompleteLeavesRoom`), with the fact that a session that is writing has dropped
what it read (`Replying`). `UsersOnly` needs no assumption on the client: it holds for bytes sent ahead
and read as something else. A step to the request is one of `Greeting` without users or one of `Login`, and a
login that passes holds, at the offsets RFC 1929 gives, the name and the password of one user (`PresentsLogin`).

**Messages.** `MessagesJudgedAsSent` has three parts. The layout: at which offset each encoding puts which
byte. The verdict: a buffer that holds the first bytes of an encoded message, and is judged complete, gets the
verdict `Deserved` gives that message (`GreetingJudged`, `LoginJudged`, `RequestJudged`), whatever earlier
messages left behind these bytes. And the conversation, which is inductive (`Conversation`): while the session
listens, the bytes received followed by those on the wire are the message; while it answers, what has been sent
followed by what is to be sent is one reply. A message refused for its first bytes may leave the rest of it on
the wire, so the wire is known to be empty only in the stages that go on. `NobodyWaitsInVain` adds the converse
of the verdicts, that a whole message is never judged incomplete (`WholeGreeting`, `WholeLogin`,
`WholeRequest`), and that all of a message of a client that has not left is in the buffer or on the wire (`Whole`).

**Only model-checked:** liveness, since fairness is out of the prover's reach: `PendingIsFlushed`,
`EofEndsSession`, `ResolutionEnds`, `ForceStops`, `GracefulStops`, `EveryMessageAnswered`, `OutcomeIsNoticed`,
`NobodyWaitsForever`, `ClientEnds`. The part of it that needs no fairness, that whoever waits waits for something
that can still come, is proved: `NeverWedged` of the relay, `NoneForgotten` of the proxy, `NeverWaitsInVain` of
the handshake, `CommandMovesOn` of the management. Every other property of a passing run is a theorem. The
types of the handshake are proved and no run checks them.

## 5. Disagreements found

* `method_selection`: with no user configured, a client that offers username/password is asked for
  a password that no user has, although the README says NO AUTH is the method then
  (`client_session.c:259`).
* `late_report`: after queueing its notification a thread still reads `s->selector_thread`
  (`selector.c:530`); after a single signal the main thread may have freed the selector by then.
  The proved `EnqueuesInLiveSelector` shows that this read is the only such access.
* `lost_notification`: the failure of `selector_notify_block` is ignored (`target_connection.c:179`);
  the session is then stuck, and so is a graceful shutdown. The safety properties of `proxy` hold also
  then, and the proved `JobSafe` says that no memory is misused.
* `stale_readiness`: `handle_iteration` tests the snapshot by descriptor number (`selector.c:471`). When
  earlier handlers of the same iteration have closed a writable descriptor and opened the same number for
  a new target, its `target_write` runs before the connection is established; `SO_ERROR` is 0 until then
  (`target_connection.c:281-298`), and the client is told 0x00, documented as success (`README.md:116` of
  the repository). The proved `SuccessHasTarget` bounds the damage: the descriptor is the session's own.

Not disagreements with the letter of a document, but worth knowing. The list of USERS ends at 1024 bytes
while its count is complete (`users.c:146-165`): users are left out without a mark, and the last line may be
cut in the name and read as another user; `ImplementsDirectory` says what remains true of such a list. And
bytes that arrive together with the end of a message are dropped with it (`client_session.c:285`, `:304`,
`:358`), while the same bytes arriving later are kept. A client that sends data right behind its request loses it or not depending on timing.

## 6. Not modelled, and why

* `buffer`, `stm` and `parser`: libraries of the course that neither the server nor the client calls, so
  they have no state in the running programs. `netutils`: formatting of addresses, and a blocking write
  that nobody uses.
* The command line: straight-line parsing of `argv` before anything runs. Creating and configuring the
  listening sockets: straight-line set-up, and `Init` is the state it leaves.
* Formatting of log lines, lists and statistics, and printing: pure output. The byte counters of the
  metrics follow `Relay`'s `out`.
* A bound on waiting for a client: the code has none, so a client that stops in the middle of a message
  keeps its session, and a graceful shutdown, for as long as it likes (`client_session.c:236`). There is
  nothing to check; the second signal is the way out (`ForceStops`).

## 7. What could follow

`Handshake` shown to implement the negotiation of `Proxy`, one session at a time.
