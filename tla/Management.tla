----------------------------- MODULE Management -----------------------------
(***************************************************************************)
(* The management protocol: the table of users (users.c), the connections  *)
(* that read one command, answer it and close (management.c), and the      *)
(* client that sends a command and prints the answer (client.c).           *)
(*                                                                         *)
(* The main thread of the server runs one handler at a time.  Bytes are    *)
(* counted in words: a word with the separator before it is one unit of a  *)
(* buffer, and so are the end of line and a line of an answer; a line that *)
(* holds a user's name is NameSize units long.                             *)
(***************************************************************************)
EXTENDS Naturals, Sequences, FiniteSets

CONSTANTS
    Admins,              \* management connections open at one time
    Words,               \* words of a command
    TooLong,             \* words longer than USERS_FIELD_MAX
    ArgLists,            \* arguments the client may be run with, cut at blanks
    Streams,             \* what another program may send instead
    InitialUsers,        \* users given with -u
    USERS_MAX,           \* slots of the table
    BUFFER_SIZE,         \* MANAGEMENT_BUFFER_SIZE and CLIENT_BUFFER_SIZE
    NameSize,            \* units of a line with a user's name
    Fragment             \* Fragment[w]: what a line that is cut short shows of w

EOL == "EOL"
NoWord == "no word"

ASSUME ManagementAssumption ==
    /\ {EOL, NoWord} \cap Words = {}
    /\ "STATS" \in Words
    /\ TooLong \subseteq Words
    /\ ArgLists \subseteq Seq(Words)
    /\ Streams \subseteq Seq(Words \cup {EOL})
    /\ InitialUsers \in Seq(Words \X Words)
    /\ USERS_MAX \in Nat \ {0} /\ NameSize \in Nat \ {0}
    /\ BUFFER_SIZE \in Nat /\ BUFFER_SIZE > 3
    /\ Fragment \in [Words -> Words]

VARIABLES
    managed_users,       \* the table of users.c
    configured,          \* users of InitialUsers added so far
    server,              \* "running", "closing" (not accepting) or "gone"
    client,              \* client[a]: the process at the other end of a
    up,                  \* up[a]: what it has sent and the server not received
    conn,                \* conn[a]: management_state_t and what is open
    told,                \* told[a]: what its client has received so far
    free                 \* the process has a descriptor left for a connection

vars == <<managed_users, configured, server, client, up, conn, told, free>>

-----------------------------------------------------------------------------
(* users.c *)

Slots == 0 .. USERS_MAX - 1
NoUser == [in_use |-> FALSE, username |-> NoWord, password |-> NoWord]

field_is_valid(w) == w \notin TooLong

\* The slots in use that hold this name: find_user_index.
Found(t, u) == {i \in Slots : t[i].in_use /\ t[i].username = u}

Lowest(indices) == CHOOSE i \in indices : \A j \in indices : i <= j
InUse(t) == {i \in Slots : t[i].in_use}
users_count(t) == Cardinality(InUse(t))

\* The pairs that users_credentials_are_valid accepts.
Credentials(t) == {<<t[i].username, t[i].password>> : i \in InUse(t)}

AddResult(t, u, p) ==
    IF ~field_is_valid(u) \/ ~field_is_valid(p) THEN "invalid"
    ELSE IF Found(t, u) # {} THEN "exists"
    ELSE IF InUse(t) = Slots THEN "full" ELSE "ok"

\* Mutant: a name that is there already is added again.
users_addTwice(t, u, p) ==
    IF AddResult(t, u, p) \in {"ok", "exists"} /\ InUse(t) # Slots
    THEN [t EXCEPT ![Lowest(Slots \ InUse(t))] =
             [in_use |-> TRUE, username |-> u, password |-> p]]
    ELSE t

users_add(t, u, p) ==
    IF AddResult(t, u, p) = "ok"
    THEN [t EXCEPT ![Lowest(Slots \ InUse(t))] =
             [in_use |-> TRUE, username |-> u, password |-> p]]
    ELSE t

RemoveResult(t, u) ==
    IF ~field_is_valid(u) THEN "invalid"
    ELSE IF Found(t, u) = {} THEN "not_found" ELSE "ok"

users_remove(t, u) ==
    IF RemoveResult(t, u) = "ok"
    THEN [t EXCEPT ![Lowest(Found(t, u))] = NoUser]
    ELSE t

\* Names users_format_list has room for after the line with the count, and
\* whether there is room for a part of the next one.
Shown == (BUFFER_SIZE - 2) \div NameSize
RoomForPart == (BUFFER_SIZE - 2) % NameSize > 0

\* The slots in use before slot j.
Rank(t, j) == Cardinality({k \in InUse(t) : k < j})

\* The names of the first slots in use, as many as there is room for.
Listed(t) == {t[i].username : i \in {j \in InUse(t) : Rank(t, j) < Shown}}

\* The line that snprintf cuts is sent as well: what is left of the next name.
Cut(t) ==
    LET next == {j \in InUse(t) : Rank(t, j) = Shown}
    IN  IF RoomForPart /\ next # {} THEN Fragment[t[Lowest(next)].username] ELSE NoWord

-----------------------------------------------------------------------------
(* management_prepare_response *)

\* The words before the first end of line.
FirstLine(buffer) ==
    LET ends == {i \in 1 .. Len(buffer) : buffer[i] = EOL}
    IN  IF ends = {} THEN buffer
        ELSE SubSeq(buffer, 1, (CHOOSE i \in ends : \A j \in ends : i <= j) - 1)

Plain(kind) ==
    [kind |-> kind, result |-> "none", count |-> 0, names |-> {}, cut |-> NoWord]

Keywords == [STATS |-> "stats", METRICS |-> "stats", USERS |-> "users", ADDUSER |-> "adduser",
             DELUSER |-> "deluser", QUIT |-> "bye", HELP |-> "help"]

\* What the words of a line ask for; the wrong number of arguments is answered
\* with the usage.
Kind(words) ==
    IF words = <<>> THEN "empty"
    ELSE IF Head(words) \notin DOMAIN Keywords THEN "unknown"
    ELSE LET kind == Keywords[Head(words)] IN
         IF \/ kind = "adduser" /\ Len(words) # 3
            \/ kind = "deluser" /\ Len(words) # 2
         THEN "usage" ELSE kind

\* The table after the command.
Executed(t, words) ==
    CASE Kind(words) = "adduser" -> users_add(t, words[2], words[3])
      [] Kind(words) = "deluser" -> users_remove(t, words[2])
      [] OTHER -> t

\* Mutant: the users are counted before the command is carried out.
CountedBefore(t, words) == users_count(t)

\* The number of users an answer gives, counted after the command.
Counted(t, words) == users_count(Executed(t, words))

Answer(t, words) ==
    LET kind == Kind(words)
        count == Counted(t, words)
    IN  CASE kind = "adduser" ->
               [Plain(kind) EXCEPT !.result = AddResult(t, words[2], words[3]), !.count = count]
          [] kind = "deluser" ->
               [Plain(kind) EXCEPT !.result = RemoveResult(t, words[2]), !.count = count]
          [] kind = "users" ->
               [Plain(kind) EXCEPT !.count = count, !.names = Listed(t), !.cut = Cut(t)]
          [] OTHER -> Plain(kind)

\* Lines of an answer, the unit in which it is sent.
Lines(answer) ==
    CASE answer.kind = "users" ->
           1 + Cardinality(answer.names) + (IF answer.cut = NoWord THEN 0 ELSE 1)
      [] answer.kind \in {"adduser", "deluser"} -> 2
      [] OTHER -> 1

-----------------------------------------------------------------------------
(* The state *)

NoConn == [at |-> "none", read_buffer |-> <<>>, words |-> <<>>, answer |-> Plain("none"),
           write_len |-> 0, write_off |-> 0]
NoClient == [at |-> "idle", ours |-> FALSE, args |-> <<>>, left |-> <<>>]
NothingTold == [words |-> <<>>, answer |-> Plain("none"), lines |-> 0]

Init ==
    /\ managed_users = [i \in Slots |-> NoUser]
    /\ configured = 0
    /\ server = "running"
    /\ client = [a \in Admins |-> NoClient]
    /\ up = [a \in Admins |-> <<>>]
    /\ conn = [a \in Admins |-> NoConn]
    /\ told = [a \in Admins |-> NothingTold]
    /\ free = TRUE

\* users_init_from_args, one user a step; the server starts when it is done.
InitialCount == IF Len(InitialUsers) < USERS_MAX THEN Len(InitialUsers) ELSE USERS_MAX
Started == configured = InitialCount

users_init_from_args ==
    /\ ~Started
    /\ configured' = configured + 1
    /\ LET u == InitialUsers[configured']
       IN managed_users' = users_add(managed_users, u[1], u[2])
    /\ UNCHANGED <<server, client, up, conn, told, free>>

-----------------------------------------------------------------------------
(* client.c *)

\* A process can be started at the other end of a.
Unused(a) ==
    /\ Started
    /\ client[a].at \in {"idle", "dead"}
    /\ conn[a].at = "none"

\* build_command: STATS if no argument was given, and otherwise the words of the
\* arguments, which blank arguments have none of.
build_command(given, args) == IF given THEN args ELSE <<"STATS">>

\* snprintf's result, the final NUL not counted, is below the size.
FitsClient(text) == Len(text) < BUFFER_SIZE

\* The client is run, with arguments or without: it ends at once if they are too
\* long or nobody listens, and after connecting if they leave no room for the end
\* of line.
RunClient(a, given, args) ==
    /\ Unused(a)
    /\ given \/ args = <<>>
    /\ LET command == build_command(given, args)
           line == command \o <<EOL>>
       IN
       IF FitsClient(command) /\ server = "running"
       THEN /\ client' = [client EXCEPT ![a] =
                   IF FitsClient(line)
                   THEN [at |-> "sending", ours |-> TRUE, args |-> command, left |-> line]
                   ELSE [NoClient EXCEPT !.at = "dead"]]
            /\ conn' = [conn EXCEPT ![a] = [NoConn EXCEPT !.at = "queued"]]
       ELSE /\ client' = [client EXCEPT ![a] = NoClient]
            /\ UNCHANGED conn
    /\ UNCHANGED <<managed_users, configured, server, up, told, free>>

\* Another program connects; it sends a stream of words and reads the answer.
RunOther(a, stream) ==
    /\ Unused(a) /\ server = "running"
    /\ client' = [client EXCEPT ![a] =
           [at |-> "sending", ours |-> FALSE, args |-> <<>>, left |-> stream]]
    /\ conn' = [conn EXCEPT ![a] = [NoConn EXCEPT !.at = "queued"]]
    /\ UNCHANGED <<managed_users, configured, server, up, told, free>>

\* send_command: the whole line leaves, and the server receives it in pieces of
\* any size.  A connection the server has closed ends the client.
Sends(a) ==
    /\ client[a].at = "sending"
    /\ IF conn[a].at = "none"
       THEN /\ client' = [client EXCEPT ![a] = NoClient]
            /\ UNCHANGED up
       ELSE /\ up' = [up EXCEPT ![a] = client[a].left]
            /\ client' = [client EXCEPT ![a].left = <<>>, ![a].at = "printing"]
    /\ UNCHANGED <<managed_users, configured, server, conn, told, free>>

\* print_response sees the end of the answer.
EndsPrinting(a) ==
    /\ client[a].at = "printing"
    /\ conn[a].at = "none"
    /\ client' = [client EXCEPT ![a] = NoClient]
    /\ told' = [told EXCEPT ![a] = NothingTold]
    /\ UNCHANGED <<managed_users, configured, server, up, conn, free>>

\* The client is killed when it has sent k units: they still arrive, unless the
\* server has closed the connection.
Dies(a, k) ==
    /\ client[a].at \in {"sending", "printing"}
    /\ client' = [client EXCEPT ![a].at = "dead", ![a].left = <<>>]
    /\ up' = IF conn[a].at = "none" THEN up
             ELSE [up EXCEPT ![a] = @ \o SubSeq(client[a].left, 1, k)]
    /\ told' = [told EXCEPT ![a] = NothingTold]
    /\ UNCHANGED <<managed_users, configured, server, conn, free>>

-----------------------------------------------------------------------------
(* management.c *)

\* selector_unregister_fd, and with it management_close; what was not received
\* is lost.
management_close(a) ==
    /\ conn' = [conn EXCEPT ![a] = NoConn]
    /\ up' = [up EXCEPT ![a] = <<>>]

\* The sessions of the process take its last descriptor, or give one back.
DescriptorsChange ==
    /\ server # "gone"
    /\ free' = ~free
    /\ UNCHANGED <<managed_users, configured, server, client, up, conn, told>>

\* accept_management_connection, for one connection of its loop: it is closed
\* again at once if it cannot be set up.  Without a descriptor accept fails, the
\* handler returns, and the connection stays in the queue.
accept_management_connection(a) ==
    /\ conn[a].at = "queued"
    /\ free
    /\ \/ conn' = [conn EXCEPT ![a].at = "reading"] /\ UNCHANGED up
       \/ management_close(a)
    /\ UNCHANGED <<managed_users, configured, server, client, told, free>>

\* Mutant: the line is complete only with the buffer full.
CompleteWhenFull(buffer) == Len(buffer) = BUFFER_SIZE - 1

\* Mutant: a full buffer is not enough.
CompleteWithEol(buffer) == \E i \in 1 .. Len(buffer) : buffer[i] = EOL

\* Mutant: whatever arrives is taken for a line.
CompleteAtOnce(buffer) == TRUE

\* A command is carried out once its end of line is there or the buffer is full.
Complete(buffer) ==
    (\E i \in 1 .. Len(buffer) : buffer[i] = EOL) \/ Len(buffer) = BUFFER_SIZE - 1

\* The connection after management_prepare_response.
Prepared(c, buffer, words, answer) ==
    [c EXCEPT !.at = "writing", !.read_buffer = buffer, !.words = words,
              !.answer = answer, !.write_len = Lines(answer), !.write_off = 0]

\* management_read receives k units.
management_read(a, k) ==
    /\ conn[a].at = "reading"
    /\ k <= Len(up[a])
    /\ k <= BUFFER_SIZE - Len(conn[a].read_buffer) - 1
    /\ up' = [up EXCEPT ![a] = SubSeq(@, k + 1, Len(@))]
    /\ \E buffer \in {conn[a].read_buffer \o SubSeq(up[a], 1, k)} :
       IF Complete(buffer)
       THEN \E words \in {FirstLine(buffer)} : \E answer \in {Answer(managed_users, words)} :
              /\ conn' = [conn EXCEPT ![a] = Prepared(@, buffer, words, answer)]
              /\ managed_users' = Executed(managed_users, words)
       ELSE /\ conn' = [conn EXCEPT ![a].read_buffer = buffer]
            /\ UNCHANGED managed_users
    /\ UNCHANGED <<configured, server, client, told, free>>

\* Mutant: the end of the stream after a part of a line is taken for a pause.
ReadEndsBefore(a) ==
    /\ conn[a].at = "reading" /\ conn[a].read_buffer = <<>>
    /\ up[a] = <<>> /\ client[a].at = "dead"
    /\ management_close(a)
    /\ UNCHANGED <<managed_users, configured, server, client, told, free>>

\* management_read sees the end of the stream, or an error.
ReadEnds(a) ==
    /\ conn[a].at = "reading"
    /\ up[a] = <<>> /\ client[a].at = "dead"
    /\ management_close(a)
    /\ UNCHANGED <<managed_users, configured, server, client, told, free>>

\* management_write sends k lines, and closes after the last.
management_write(a, k) ==
    /\ conn[a].at = "writing"
    /\ k <= conn[a].write_len - conn[a].write_off
    /\ told' = IF client[a].at = "dead" THEN told
               ELSE [told EXCEPT ![a] = [words |-> conn[a].words, answer |-> conn[a].answer,
                                         lines |-> @.lines + k]]
    /\ IF conn[a].write_off + k = conn[a].write_len
       THEN management_close(a)
       ELSE conn' = [conn EXCEPT ![a].write_off = @ + k] /\ UNCHANGED up
    /\ UNCHANGED <<managed_users, configured, server, client, free>>

\* management_write fails: the client is gone.
WriteFails(a) ==
    /\ conn[a].at = "writing"
    /\ client[a].at = "dead"
    /\ management_close(a)
    /\ UNCHANGED <<managed_users, configured, server, client, told, free>>

\* server_run closes the listening socket, and with it those nobody has accepted;
\* whoever was accepted is still served.
StopAccepting ==
    /\ Started /\ server = "running"
    /\ server' = "closing"
    /\ conn' = [a \in Admins |-> IF conn[a].at = "queued" THEN NoConn ELSE conn[a]]
    /\ up' = [a \in Admins |-> IF conn[a].at = "queued" THEN <<>> ELSE up[a]]
    /\ UNCHANGED <<managed_users, configured, client, told, free>>

\* server_run ends, waiting for no management connection: selector_destroy
\* closes each as it is.
Destroy ==
    /\ server = "closing"
    /\ server' = "gone"
    /\ conn' = [a \in Admins |-> NoConn]
    /\ up' = [a \in Admins |-> <<>>]
    /\ UNCHANGED <<managed_users, configured, client, told, free>>

-----------------------------------------------------------------------------

Units == 1 .. BUFFER_SIZE - 1

ClientStep(a) == Sends(a) \/ EndsPrinting(a)

ServerStep(a) ==
    \/ accept_management_connection(a)
    \/ \E k \in Units : management_read(a, k)
    \/ ReadEnds(a)
    \/ \E k \in 1 .. conn[a].write_len : management_write(a, k)
    \/ WriteFails(a)

Next ==
    \/ users_init_from_args
    \/ \E a \in Admins :
         \/ \E args \in ArgLists, given \in BOOLEAN : RunClient(a, given, args)
         \/ \E stream \in Streams : RunOther(a, stream)
         \/ ClientStep(a) \/ ServerStep(a)
         \/ \E k \in 0 .. Len(client[a].left) : Dies(a, k)
    \/ StopAccepting \/ Destroy \/ DescriptorsChange

Spec == Init /\ [][Next]_vars

\* Fairness: the loop serves every connection that is ready, and a client that
\* lives sends and reads.
FairSpec ==
    /\ Spec
    /\ \A a \in Admins : WF_vars(ClientStep(a)) /\ WF_vars(ServerStep(a))

-----------------------------------------------------------------------------
(* Properties *)

Symbols == Words \cup {EOL}
Kinds == {"none", "empty", "unknown", "usage", "stats", "users", "adduser", "deluser",
          "bye", "help"}
Results == {"none", "ok", "exists", "not_found", "full", "invalid"}
Answers == [kind : Kinds, result : Results, count : Nat, names : SUBSET Words,
            cut : Words \cup {NoWord}]

\* Every variable keeps to the values its declaration in the code allows; a
\* buffer being read always has room for one more unit and the final NUL.
TypeOK ==
    /\ managed_users \in [Slots -> [in_use : BOOLEAN, username : Words \cup {NoWord},
                                    password : Words \cup {NoWord}]]
    /\ configured \in 0 .. InitialCount
    /\ server \in {"running", "closing", "gone"}
    /\ client \in [Admins -> [at : {"idle", "sending", "printing", "dead"},
                               ours : BOOLEAN, args : Seq(Words), left : Seq(Symbols)]]
    /\ up \in [Admins -> Seq(Symbols)]
    /\ conn \in [Admins -> [at : {"none", "queued", "reading", "writing"},
                             read_buffer : Seq(Symbols), words : Seq(Words),
                             answer : Answers, write_len : Nat, write_off : Nat]]
    /\ told \in [Admins -> [words : Seq(Words), answer : Answers, lines : Nat]]
    /\ free \in BOOLEAN
    /\ \A a \in Admins : conn[a].at = "reading" => Len(conn[a].read_buffer) < BUFFER_SIZE - 1

\* No name is in the table twice, and what is in use is a user that could be
\* added, so that removing a user and counting users mean what they say however
\* the commands of several connections and the initial users follow each other.
NamesDistinct ==
    /\ \A i, j \in InUse(managed_users) :
         managed_users[i].username = managed_users[j].username => i = j
    /\ \A i \in InUse(managed_users) :
         field_is_valid(managed_users[i].username) /\ field_is_valid(managed_users[i].password)

\* A run of client.c gets done what it was given, or nothing of it: what
\* management_prepare_response carries out is the whole command, also when the
\* client is killed with a part of it sent; and what is printed is the answer to
\* it, however it was cut on its way.  A command that send_command lets through
\* never reaches the server's limit, and once the connection is closed the client
\* has got the whole answer or, if it was dropped, nothing; only the end of the
\* server cuts an answer short.
AnsweredAsAsked ==
    \A a \in Admins :
        client[a].ours =>
            /\ conn[a].at = "writing" => conn[a].words = client[a].args
            /\ told[a].lines > 0 =>
                 /\ told[a].words = client[a].args
                 /\ conn[a].at = "none" /\ server # "gone" =>
                      told[a].lines = Lines(told[a].answer)

\* A client that waits for its answer and the server that is to give it never
\* wait for each other: of a command that is not answered a part has still to be
\* received, and of an answer that is not closed a part has still to be sent.
\* So the server waits for no unit that client.c does not send.
CommandMovesOn ==
    \A a \in Admins :
        client[a].at = "printing" /\ client[a].ours =>
            /\ conn[a].at \in {"queued", "reading"} => up[a] # <<>>
            /\ conn[a].at = "writing" => conn[a].write_off < conn[a].write_len

\* Unless the process is for ever running out of descriptors, with which accept
\* leaves the connection in the queue, a run of client.c comes to its end, and no
\* connection outlives the client that was killed: management_read waits for
\* nothing that the client does not send and sees its end, and a connection that
\* has been answered is closed.
ClientEnds ==
    <>[]free =>
        \A a \in Admins :
            /\ client[a].at = "sending" /\ client[a].ours
                  ~> client[a].at \notin {"sending", "printing"}
            /\ client[a].at = "dead" ~> conn[a].at = "none"

\* The table and the connections implement one directory: what the handshake
\* accepts as credentials changes as if each command took effect at one moment,
\* and each answer tells what its command did at that moment: a list shows as many
\* of the users as there is room for, and what is left of one more if it is cut.
Fields == Words \ TooLong
Directory == INSTANCE UserDirectory WITH
    Names <- Fields, Passwords <- Fields, Capacity <- USERS_MAX,
    dir <- Credentials(managed_users),
    answer <- [a \in Admins |-> conn[a].answer]
ImplementsDirectory == Directory!Spec
=============================================================================
