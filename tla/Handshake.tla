----------------------------- MODULE Handshake -----------------------------
(***************************************************************************)
(* One session from accept to the moment its request is handed over, byte  *)
(* by byte: the part of client_read and client_write that comes before the *)
(* relay (client_session.c), with the codec of Socks5.  Module Proxy       *)
(* treats each message as a whole; here it arrives in pieces of any size,  *)
(* in a buffer that still holds the bytes of the messages before it.       *)
(*                                                                         *)
(* The client sends well-formed messages, of any content, and waits for    *)
(* the answer to one before it sends the next.  It may also add bytes it   *)
(* should have held back (ahead), and leave at any point.                  *)
(***************************************************************************)
EXTENDS Socks5

CONSTANTS
    BufferSize,          \* SERVER_BUFFER_SIZE
    UserTables,          \* the tables of users considered: sets of <<name, password>>
    Greetings,           \* messages a client may send: [ver, methods]
    Logins,              \*   [ver, user, pass]
    Requests,            \*   [ver, cmd, rsv, atyp, host, port]
    Ahead                \* bytes a client may add to a message

\* Names and passwords are not empty (field_is_valid), and a message states
\* its lengths in one byte.
Text == {s \in Seq(Byte) : Len(s) <= MaxByte}
ASSUME UserTablesAssumption ==
    \A t \in UserTables : \A u \in t :
        u \in Text \X Text /\ u[1] # <<>> /\ u[2] # <<>>
ASSUME GreetingsAssumption ==
    \A m \in Greetings : m.ver \in Byte /\ m.methods \in Text
ASSUME LoginsAssumption ==
    \A m \in Logins : m.ver \in Byte /\ m.user \in Text /\ m.pass \in Text
ASSUME RequestsAssumption ==
    \A m \in Requests :
        /\ m.ver \in Byte /\ m.cmd \in Byte /\ m.rsv \in Byte /\ m.atyp \in Byte
        /\ m.host \in Seq(Byte) /\ m.port \in Byte \X Byte
        /\ m.atyp = DOMAIN_NAME => m.host \in Text
        /\ m.atyp = IPV4 => Len(m.host) = 4
        /\ m.atyp = IPV6 => Len(m.host) = 16
ASSUME AheadAssumption == Ahead \subseteq Seq(Byte)

\* The longest message, two texts or an IPv6 request, fits in the buffer.
ASSUME BufferSizeAssumption ==
    /\ BufferSize \in Nat
    /\ BufferSize >= IPV6_REQUEST_SIZE
    /\ BufferSize >= 2 * MaxByte + 3

VARIABLES
    users,               \* the table of users
    stage, open, interest,
    read_buffer, read_len,
    write_buffer,        \* its first write_len bytes
    write_off,
    username, destination,
    wire,                \* sent by the client, not yet received
    said,                \* the last message the client sent
    seen,                \* what has been sent to it since
    ahead,               \* it has sent bytes it should have held back
    gone                 \* it has left

vars == <<users, stage, open, interest, read_buffer, read_len, write_buffer, write_off,
          username, destination, wire, said, seen, ahead, gone>>
clientVars == <<said, seen, ahead, gone>>
readVars == <<read_buffer, read_len>>
writeVars == <<write_buffer, write_off>>

Anonymous == <<>>
Nowhere == [atyp |-> 0, host |-> <<>>, port |-> 0]
Nothing == [kind |-> "nothing"]

\* accept_connection: the state comes from calloc.
Init ==
    /\ users \in UserTables
    /\ stage = "GREETING" /\ open = TRUE /\ interest = "READ"
    /\ read_buffer = [i \in 0 .. BufferSize - 1 |-> 0] /\ read_len = 0
    /\ write_buffer = <<>> /\ write_off = 0
    /\ username = Anonymous /\ destination = Nowhere
    /\ wire = <<>> /\ said = Nothing /\ seen = <<>> /\ ahead = FALSE /\ gone = FALSE

-----------------------------------------------------------------------------
(* The client *)

EncodeGreeting(m) == <<m.ver, Len(m.methods)>> \o m.methods
EncodeLogin(m) == <<m.ver, Len(m.user)>> \o m.user \o <<Len(m.pass)>> \o m.pass
EncodeRequest(m) ==
    <<m.ver, m.cmd, m.rsv, m.atyp>>
        \o (IF m.atyp = DOMAIN_NAME THEN <<Len(m.host)>> ELSE <<>>) \o m.host \o m.port

Says(kind, m, bytes) ==
    /\ open /\ ~ gone
    /\ said' = [kind |-> kind, msg |-> m]
    /\ seen' = <<>>
    /\ \E a \in Ahead : wire' = wire \o bytes \o a /\ ahead' = (ahead \/ a # <<>>)
    /\ UNCHANGED <<users, stage, open, interest, readVars, writeVars, username, destination, gone>>

ClientGreets ==
    /\ said = Nothing
    /\ \E m \in Greetings : Says("greeting", m, EncodeGreeting(m))

ClientLogsIn ==
    /\ said.kind = "greeting" /\ seen = GreetingResponse(USERNAME_PASSWORD)
    /\ \E m \in Logins : Says("login", m, EncodeLogin(m))

ClientRequests ==
    /\ \/ said.kind = "greeting" /\ seen = GreetingResponse(NO_AUTH)
       \/ said.kind = "login" /\ seen = AuthResponse(AUTH_SUCCESS)
    /\ \E m \in Requests : Says("request", m, EncodeRequest(m))

\* The client shuts its side down, or is reset: then what has not been received
\* never will be.
ClientLeaves ==
    /\ open /\ ~ gone
    /\ gone' = TRUE /\ wire' \in {wire, <<>>}
    /\ UNCHANGED <<users, stage, open, interest, readVars, writeVars, username, destination,
                   said, seen, ahead>>

-----------------------------------------------------------------------------
(* client_read *)

\* A reply is prepared and the message it answers is dropped, with everything
\* that was received after it.
Prepare(reply, next) ==
    /\ write_buffer' = reply /\ write_off' = 0 /\ read_len' = 0
    /\ stage' = next /\ interest' = "WRITE"
    /\ UNCHANGED open

\* selector_unregister_fd -> client_close.
Close ==
    /\ open' = FALSE
    /\ UNCHANGED <<stage, interest, writeVars>>

\* The message is not complete yet.
IsIncomplete(b, len) ==
    \/ stage = "GREETING" /\ GreetingIsIncomplete(b, len)
    \/ stage = "AUTH" /\ AuthIsIncomplete(b, len)
    \/ stage = "REQUEST" /\ socks5_request_is_incomplete(b, len)

\* Mutant: what was received before is counted twice.
KeepReadingTwice(b, len) ==
    /\ IsIncomplete(b, len)
    /\ read_len' = read_len + len
    /\ UNCHANGED <<stage, open, interest, writeVars, username, destination>>

\* The handler returns to wait for the rest.
KeepReading(b, len) ==
    /\ IsIncomplete(b, len)
    /\ read_len' = len
    /\ UNCHANGED <<stage, open, interest, writeVars, username, destination>>

Greeting(b, len) ==
    /\ stage = "GREETING" /\ ~ GreetingIsIncomplete(b, len)
    /\ IF b[0] # VERSION
       THEN Close /\ read_len' = len
       ELSE IF ClientOffers(b, USERNAME_PASSWORD)
       THEN Prepare(GreetingResponse(USERNAME_PASSWORD), "AUTH")
       ELSE IF users = {} /\ ClientOffers(b, NO_AUTH)
       THEN Prepare(GreetingResponse(NO_AUTH), "REQUEST")
       ELSE Prepare(GreetingResponse(NO_ACCEPTABLE), "CLOSING")
    /\ UNCHANGED <<username, destination>>

Login(b, len) ==
    /\ stage = "AUTH" /\ ~ AuthIsIncomplete(b, len)
    /\ IF Authenticated(b, users)
       THEN username' = Username(b) /\ Prepare(AuthResponse(AUTH_SUCCESS), "REQUEST")
       ELSE UNCHANGED username /\ Prepare(AuthResponse(AUTH_FAILURE), "CLOSING")
    /\ UNCHANGED destination

\* An unsupported, malformed or empty request.
RejectRequest(b, len) ==
    /\ stage = "REQUEST" /\ ~ socks5_request_is_incomplete(b, len)
    /\ ~ IsConnectRequest(b, len)
    /\ LET reply == socks5_request_reply_for(b, len) IN
       Prepare(RequestResponse(IF reply = SUCCESS THEN GENERAL_FAILURE ELSE reply), "CLOSING")
    /\ UNCHANGED <<username, destination>>

\* socks5_reply_for_errno, of an error.
ConnectFailures == {1, 3, 4, 5, 6}

\* target_connection_begin: name resolution or a connection is started, or the
\* request fails at once (a failed start of the resolution is a general
\* failure).  What follows is module Proxy's.
target_connection_begin(b, len) ==
    /\ stage = "REQUEST" /\ ~ socks5_request_is_incomplete(b, len)
    /\ IsConnectRequest(b, len)
    /\ destination' = Destination(b)
    /\ \/ /\ stage' = (IF b[3] = DOMAIN_NAME THEN "RESOLVING" ELSE "CONNECTING")
          /\ interest' = "NOOP" /\ read_len' = 0
          /\ UNCHANGED <<open, writeVars>>
       \/ \E r \in IF b[3] = DOMAIN_NAME THEN {GENERAL_FAILURE} ELSE ConnectFailures :
             Prepare(RequestResponse(r), "CLOSING")
    /\ UNCHANGED username

\* recv of n bytes at read_buffer + read_len.
Received(n) ==
    [i \in 0 .. BufferSize - 1 |->
        IF i >= read_len /\ i < read_len + n THEN wire[i - read_len + 1] ELSE read_buffer[i]]

client_read ==
    /\ open /\ interest = "READ"
    /\ \E n \in 1 .. Len(wire) :
          /\ n <= BufferSize - read_len
          /\ wire' = SubSeq(wire, n + 1, Len(wire))
          /\ read_buffer' = Received(n)
          /\ \/ KeepReading(Received(n), read_len + n)
             \/ Greeting(Received(n), read_len + n)
             \/ Login(Received(n), read_len + n)
             \/ RejectRequest(Received(n), read_len + n)
             \/ target_connection_begin(Received(n), read_len + n)
    /\ UNCHANGED <<users, clientVars>>

\* recv returns 0 or fails: the client has left, or no room is left for recv to
\* fill, which looks the same.
ReadEnds ==
    /\ open /\ interest = "READ"
    /\ (gone /\ wire = <<>>) \/ read_len = BufferSize
    /\ Close
    /\ UNCHANGED <<users, readVars, username, destination, wire, clientVars>>

-----------------------------------------------------------------------------
(* client_write, until the relay has started *)

\* The calls of send take the next n bytes.
Sends(n) ==
    /\ seen' = seen \o SubSeq(write_buffer, write_off + 1, write_off + n)
    /\ UNCHANGED <<users, readVars, username, destination, wire, said, ahead, gone>>

\* The socket takes only part of the reply.
WriteSome ==
    /\ open /\ interest = "WRITE"
    /\ \E n \in 1 .. Len(write_buffer) - write_off - 1 :
          Sends(n) /\ write_off' = write_off + n
    /\ UNCHANGED <<stage, open, interest, write_buffer>>

\* It takes the rest.
WriteAll ==
    /\ open /\ interest = "WRITE"
    /\ Sends(Len(write_buffer) - write_off)
    /\ write_buffer' = <<>> /\ write_off' = 0
    /\ IF stage = "CLOSING" THEN open' = FALSE /\ UNCHANGED interest
                            ELSE interest' = "READ" /\ UNCHANGED open
    /\ UNCHANGED stage

\* send fails.
WriteFails ==
    /\ open /\ interest = "WRITE" /\ gone
    /\ Close
    /\ UNCHANGED <<users, readVars, username, destination, wire, clientVars>>

client_write == WriteSome \/ WriteAll \/ WriteFails

-----------------------------------------------------------------------------

Next ==
    \/ ClientGreets \/ ClientLogsIn \/ ClientRequests \/ ClientLeaves
    \/ client_read \/ ReadEnds \/ client_write

\* pselect reports a ready descriptor in every iteration, and the loop never
\* ends: what a session can read or write it will.
Fairness == WF_vars(client_read \/ ReadEnds) /\ WF_vars(client_write)

Spec == Init /\ [][Next]_vars /\ Fairness

-----------------------------------------------------------------------------
(* Properties *)

Stages == {"GREETING", "AUTH", "REQUEST", "RESOLVING", "CONNECTING", "CLOSING"}
Handed == {"RESOLVING", "CONNECTING"}
Messages == {Nothing}
              \cup [kind : {"greeting"}, msg : Greetings]
              \cup [kind : {"login"}, msg : Logins]
              \cup [kind : {"request"}, msg : Requests]

TypeOK ==
    /\ users \in UserTables /\ stage \in Stages /\ open \in BOOLEAN
    /\ interest \in {"READ", "WRITE", "NOOP"}
    /\ read_buffer \in [0 .. BufferSize - 1 -> Byte] /\ read_len \in 0 .. BufferSize
    /\ write_buffer \in Seq(Byte) /\ write_off \in Nat
    /\ username \in Seq(Byte) /\ wire \in Seq(Byte) /\ seen \in Seq(Byte)
    /\ said \in Messages /\ ahead \in BOOLEAN /\ gone \in BOOLEAN

\* A session that goes on reading has room to read into, whatever the client
\* sent and however it arrived: recv is never offered an empty buffer, whose
\* result 0 client_read would take for the client having left.
RoomLeft == open /\ interest = "READ" => read_len < BufferSize

\* The bytes received for this message, the ones of this step included, begin
\* with the login of u: its name and its password.
Presented(u) ==
    LET login == EncodeLogin([ver |-> AUTH_VERSION, user |-> u[1], pass |-> u[2]])
        received == read_len + (Len(wire) - Len(wire'))
    IN  /\ Len(login) <= received
        /\ \A i \in 1 .. Len(login) : read_buffer'[i - 1] = login[i]

\* With users configured, a session gets to make a request only in the step in
\* which the name and the password of one of them have been received, and it is
\* that user's name it carries into the access log; only such a login changes the
\* name.  Bytes that an earlier message left in the buffer are no part of it, and
\* all this holds too for a client that does not wait for answers.
MayRequest == {"REQUEST"} \cup Handed
OnlyUsersRequest ==
    [][(users # {} /\ stage \notin MayRequest /\ stage' \in MayRequest) \/ username' # username
            => \E u \in users : username' = u[1] /\ Presented(u)]_vars

\* What a whole message deserves, read off the message and not off its bytes.
Method(m) ==
    CASE \E i \in 1 .. Len(m.methods) : m.methods[i] = USERNAME_PASSWORD -> USERNAME_PASSWORD
      [] (\A i \in 1 .. Len(m.methods) : m.methods[i] # USERNAME_PASSWORD)
         /\ users = {} /\ (\E i \in 1 .. Len(m.methods) : m.methods[i] = NO_AUTH) -> NO_AUTH
      [] OTHER -> NO_ACCEPTABLE
Welcome(m) == m.ver = AUTH_VERSION /\ <<m.user, m.pass>> \in users
Fault(m) ==
    IF m.ver # VERSION \/ m.rsv # 0 \/ (m.atyp = DOMAIN_NAME /\ m.cmd = CMD_CONNECT /\ m.host = <<>>)
    THEN {GENERAL_FAILURE}
    ELSE IF m.cmd # CMD_CONNECT THEN {COMMAND_NOT_SUPPORTED}
    ELSE IF m.atyp \notin {IPV4, IPV6, DOMAIN_NAME} THEN {ADDRESS_TYPE_NOT_SUPPORTED}
    ELSE {}
Asked(m) ==
    [atyp |-> m.atyp, port |-> (MaxByte + 1) * m.port[1] + m.port[2],
     host |-> IF m.atyp = DOMAIN_NAME THEN CString(m.host) ELSE m.host]

\* The replies the last message may get, each with the stage that comes next.
Deserved ==
    CASE said.kind = "nothing" -> {}
      [] said.kind = "greeting" ->
            IF said.msg.ver # VERSION THEN {}
            ELSE LET m == Method(said.msg) IN
                 {<<GreetingResponse(m), CASE m = USERNAME_PASSWORD -> "AUTH"
                                           [] m = NO_AUTH -> "REQUEST"
                                           [] OTHER -> "CLOSING">>}
      [] said.kind = "login" ->
            {IF Welcome(said.msg) THEN <<AuthResponse(AUTH_SUCCESS), "REQUEST">>
                                  ELSE <<AuthResponse(AUTH_FAILURE), "CLOSING">>}
      [] said.kind = "request" ->
            {<<RequestResponse(r), "CLOSING">> :
                r \in IF Fault(said.msg) # {} THEN Fault(said.msg) ELSE ConnectFailures}

\* However a message is cut into pieces, and whatever earlier messages left in
\* the buffer, client_read judges it as the message the client sent: all it
\* answers, sent or still to be sent, is one reply that message deserves,
\* complete and in the right stage, and a request that is served is served with
\* the address and the port the client named.
JudgedAsSent ==
    ~ ahead =>
        LET reply == seen \o SubSeq(write_buffer, write_off + 1, Len(write_buffer)) IN
        /\ reply # <<>> => <<reply, stage>> \in Deserved
        /\ stage \in Handed \/ destination # Nowhere =>
              /\ said.kind = "request" /\ Fault(said.msg) = {}
              /\ destination = Asked(said.msg)

\* Session and client never wait for each other: when a session waits for bytes
\* and none is on its way, its client has still to speak, or has in hand a whole
\* answer to its last message that invites it to go on.  So no length is computed
\* one too large, and no answer is held back.
NeverWaitsInVain ==
    ~ ahead /\ ~ gone /\ open /\ interest = "READ" =>
        \/ wire # <<>> \/ said = Nothing
        \/ seen # <<>> /\ <<seen, stage>> \in Deserved

\* Every message of a client that waits for its answers and does not leave is
\* answered in full, or its request is served; only a greeting of another
\* version is answered by closing the session.  No length is computed so that
\* the server waits for a byte that is not part of the message.
Answered ==
    \/ gone \/ ahead \/ stage \in Handed
    \/ ~ open /\ Deserved = {}
    \/ \E d \in Deserved : seen = d[1]
EveryMessageAnswered == [](said # Nothing => <>Answered)
=============================================================================
