-------------------------- MODULE Handshake_proofs --------------------------
(***************************************************************************)
(* Proofs about the handshake, for every byte size, buffer size, table of  *)
(* users and set of messages, and for clients that do not wait.            *)
(*                                                                         *)
(* First the codec: what is received after a message, and what was in the  *)
(* buffer before it, do not change how it is judged.  Then the session:    *)
(* RoomLeft is inductive once a session that writes is known to have       *)
(* dropped what it has read.  Last the conversation with a client that     *)
(* waits: the buffer and the wire together repeat the message it sent      *)
(* until the message is complete, so the verdict on the buffer is the      *)
(* verdict on the message (Conversation, JudgedAsSent), and all of it is   *)
(* enough for a verdict (Whole, NeverWaitsInVain).                         *)
(***************************************************************************)
EXTENDS Handshake, TLAPS

Buffers == [0 .. BufferSize - 1 -> Byte]

\* The first len bytes of two buffers are the same.
SameBytes(b, c, len) == \A i \in 0 .. len - 1 : b[i] = c[i]

\* Once a message is complete, bytes that arrive after it change neither that
\* nor the verdict: socks5_request_is_incomplete and socks5_request_reply_for
\* give the same answer however many bytes one recv returned.
THEOREM VerdictIsStable ==
    ASSUME NEW b \in Buffers, NEW len \in 0 .. BufferSize, NEW more \in len .. BufferSize
    PROVE  /\ ~ GreetingIsIncomplete(b, len) => ~ GreetingIsIncomplete(b, more)
           /\ ~ AuthIsIncomplete(b, len) => ~ AuthIsIncomplete(b, more)
           /\ ~ socks5_request_is_incomplete(b, len) =>
                 /\ ~ socks5_request_is_incomplete(b, more)
                 /\ socks5_request_reply_for(b, more) = socks5_request_reply_for(b, len)
                 /\ IsConnectRequest(b, more) = IsConnectRequest(b, len)
<1> USE MaxByteAssumption, BufferSizeAssumption
<1> USE DEF Byte, Buffers, VERSION, AUTH_VERSION, IPV4, IPV6, DOMAIN_NAME, IPV4_REQUEST_SIZE,
            IPV6_REQUEST_SIZE
<1>1. ~ GreetingIsIncomplete(b, len) => ~ GreetingIsIncomplete(b, more)
  BY DEF GreetingIsIncomplete
<1>2. ~ AuthIsIncomplete(b, len) => ~ AuthIsIncomplete(b, more)
  <2> SUFFICES ASSUME ~ AuthIsIncomplete(b, len), b[0] = AUTH_VERSION
               PROVE  ~ (more < PasswordLenIndex(b) + 1 \/ more < ExpectedLen(b))
    BY DEF AuthIsIncomplete
  <2>1. b[1] \in Byte /\ 2 + b[1] + 1 =< len
    BY DEF AuthIsIncomplete, PasswordLenIndex
  <2>2. b[2 + b[1]] \in Byte
    BY <2>1
  <2>3. QED BY <2>1, <2>2 DEF AuthIsIncomplete, PasswordLenIndex, ExpectedLen
<1>3. ASSUME ~ socks5_request_is_incomplete(b, len)
      PROVE  /\ ~ socks5_request_is_incomplete(b, more)
             /\ socks5_request_reply_for(b, more) = socks5_request_reply_for(b, len)
  <2>1. ~ socks5_request_is_incomplete(b, more) /\ len >= 4 /\ more >= 4
    BY <1>3 DEF socks5_request_is_incomplete
  <2>2. QED BY <1>3, <2>1 DEF socks5_request_reply_for
<1>4. QED BY <1>1, <1>2, <1>3 DEF IsConnectRequest

\* Buffers with the same bytes have the same slices.
LEMMA SameSlice ==
    ASSUME NEW b, NEW c, NEW len \in Nat, SameBytes(b, c, len),
           NEW i \in Nat, NEW n \in Nat, i + n =< len
    PROVE  Bytes(b, i, n) = Bytes(c, i, n)
<1>1. \A k \in 1 .. n : i + k - 1 \in 0 .. len - 1
  OBVIOUS
<1>2. \A k \in 1 .. n : b[i + k - 1] = c[i + k - 1]
  BY <1>1 DEF SameBytes
<1>3. QED BY <1>2 DEF Bytes

\* As SameSlice, for a port.
LEMMA SamePort ==
    ASSUME NEW b, NEW c, NEW len \in Nat, SameBytes(b, c, len), NEW i \in Nat, i + 2 =< len
    PROVE  Port(b, i) = Port(c, i)
<1>1. i \in 0 .. len - 1 /\ i + 1 \in 0 .. len - 1
  OBVIOUS
<1>2. QED BY <1>1 DEF SameBytes, Port

\* The parsers look at no byte that has not been received: two buffers that
\* agree on the first len bytes are judged alike, whatever is left in them from
\* earlier messages.
THEOREM StaleBytesAreIgnored ==
    ASSUME NEW b \in Buffers, NEW c \in Buffers, NEW len \in 0 .. BufferSize,
           SameBytes(b, c, len), NEW table
    PROVE  /\ GreetingIsIncomplete(b, len) = GreetingIsIncomplete(c, len)
           /\ ~ GreetingIsIncomplete(b, len) /\ b[0] = VERSION =>
                 \A m : ClientOffers(b, m) = ClientOffers(c, m)
           /\ AuthIsIncomplete(b, len) = AuthIsIncomplete(c, len)
           /\ ~ AuthIsIncomplete(b, len) =>
                 Authenticated(b, table) = Authenticated(c, table)
           /\ socks5_request_is_incomplete(b, len) = socks5_request_is_incomplete(c, len)
           /\ socks5_request_reply_for(b, len) = socks5_request_reply_for(c, len)
           /\ IsConnectRequest(b, len) = IsConnectRequest(c, len)
           /\ IsConnectRequest(b, len) => Destination(b) = Destination(c)
<1>0. ASSUME NEW i \in Nat, NEW n \in Nat, i + n =< len
      PROVE  Bytes(b, i, n) = Bytes(c, i, n)
  <2>1. len \in Nat
    BY BufferSizeAssumption
  <2>2. QED BY <1>0, <2>1, SameSlice
<1>a. ASSUME NEW i \in Nat, i + 2 =< len
      PROVE  Port(b, i) = Port(c, i)
  <2>1. len \in Nat
    BY BufferSizeAssumption
  <2>2. QED BY <1>a, <2>1, SamePort
<1> USE MaxByteAssumption, BufferSizeAssumption
<1> USE DEF Byte, Buffers, SameBytes, VERSION, AUTH_VERSION, CMD_CONNECT, IPV4, IPV6, DOMAIN_NAME,
            IPV4_REQUEST_SIZE, IPV6_REQUEST_SIZE
<1>1. GreetingIsIncomplete(b, len) = GreetingIsIncomplete(c, len)
  BY DEF GreetingIsIncomplete
<1>2. ASSUME ~ GreetingIsIncomplete(b, len), b[0] = VERSION, NEW m
      PROVE  ClientOffers(b, m) = ClientOffers(c, m)
  <2>1. b[1] = c[1] /\ b[1] \in Byte /\ 2 + b[1] =< len
    BY <1>2 DEF GreetingIsIncomplete
  <2>2. \A i \in 1 .. b[1] : 1 + i \in 0 .. len - 1
    BY <2>1
  <2>3. \A i \in 1 .. b[1] : b[1 + i] = c[1 + i]
    BY <2>2
  <2>4. QED BY <2>1, <2>3 DEF ClientOffers
<1>3. AuthIsIncomplete(b, len) = AuthIsIncomplete(c, len)
  <2> SUFFICES ASSUME len >= 2
               PROVE  len < PasswordLenIndex(b) + 1 \/ len < ExpectedLen(b)
                      <=> len < PasswordLenIndex(c) + 1 \/ len < ExpectedLen(c)
    BY DEF AuthIsIncomplete
  <2>1. b[1] = c[1] /\ b[1] \in Byte
    OBVIOUS
  <2>2. 2 + b[1] < len => b[2 + b[1]] = c[2 + b[1]]
    BY <2>1
  <2>3. QED BY <2>1, <2>2 DEF PasswordLenIndex, ExpectedLen
<1>4. ASSUME ~ AuthIsIncomplete(b, len)
      PROVE  Authenticated(b, table) = Authenticated(c, table)
  <2>1. b[0] = c[0]
    BY <1>4 DEF AuthIsIncomplete
  <2>2. CASE b[0] # AUTH_VERSION
    BY <2>1, <2>2 DEF Authenticated
  <2>3. CASE b[0] = AUTH_VERSION
    <3>1. b[1] = c[1] /\ b[1] \in Byte /\ 2 + b[1] + 1 =< len
      BY <1>4, <2>3 DEF AuthIsIncomplete, PasswordLenIndex
    <3>2. 2 + b[1] \in 0 .. len - 1 /\ 2 + b[1] \in 0 .. BufferSize - 1
      BY <3>1
    <3>3. b[2 + b[1]] = c[2 + b[1]] /\ b[2 + b[1]] \in Byte
      BY <3>2
    <3>4. 2 + b[1] + 1 + b[2 + b[1]] =< len
      BY <1>4, <2>3, <3>1, <3>3 DEF AuthIsIncomplete, PasswordLenIndex, ExpectedLen
    <3>5. Username(b) = Username(c)
      BY <3>1, <1>0 DEF Username
    <3>6. Password(b) = Password(c)
      <4>1. Bytes(b, 2 + b[1] + 1, b[2 + b[1]]) = Bytes(c, 2 + b[1] + 1, b[2 + b[1]])
        BY <3>1, <3>3, <3>4, <1>0
      <4>2. QED BY <3>1, <3>3, <4>1 DEF Password, PasswordLenIndex
    <3>7. QED BY <2>1, <3>5, <3>6 DEF Authenticated
  <2>4. QED BY <2>2, <2>3
<1>5. socks5_request_is_incomplete(b, len) = socks5_request_is_incomplete(c, len)
  BY DEF socks5_request_is_incomplete
<1>6. socks5_request_reply_for(b, len) = socks5_request_reply_for(c, len)
  BY <1>5 DEF socks5_request_reply_for
<1>7. IsConnectRequest(b, len) = IsConnectRequest(c, len)
  <2>1. ASSUME socks5_request_reply_for(b, len) = SUCCESS, b[3] = DOMAIN_NAME \/ c[3] = DOMAIN_NAME
        PROVE  b[3] = c[3] /\ b[4] = c[4]
    BY <2>1 DEF socks5_request_reply_for, socks5_request_is_incomplete, SUCCESS, GENERAL_FAILURE,
                COMMAND_NOT_SUPPORTED, ADDRESS_TYPE_NOT_SUPPORTED
  <2>2. QED BY <1>6, <2>1 DEF IsConnectRequest
<1>8. ASSUME IsConnectRequest(b, len)
      PROVE  Destination(b) = Destination(c)
  <2>1. /\ ~ socks5_request_is_incomplete(b, len)
        /\ b[3] \in {IPV4, DOMAIN_NAME, IPV6}
    BY <1>8 DEF IsConnectRequest, socks5_request_reply_for, SUCCESS, GENERAL_FAILURE,
                COMMAND_NOT_SUPPORTED, ADDRESS_TYPE_NOT_SUPPORTED
  <2>2. b[3] = c[3]
    BY <2>1 DEF socks5_request_is_incomplete
  <2>3. CASE b[3] = IPV4
    <3>1. Bytes(b, 4, 4) = Bytes(c, 4, 4) /\ Port(b, 8) = Port(c, 8)
      BY <2>1, <2>3, <1>0 DEF socks5_request_is_incomplete, Port
    <3>2. QED BY <2>2, <2>3, <3>1 DEF Destination
  <2>4. CASE b[3] = IPV6
    <3>1. Bytes(b, 4, 16) = Bytes(c, 4, 16) /\ Port(b, 20) = Port(c, 20)
      BY <2>1, <2>4, <1>0 DEF socks5_request_is_incomplete, Port
    <3>2. QED BY <2>2, <2>4, <3>1 DEF Destination
  <2>5. CASE b[3] = DOMAIN_NAME
    <3>1. b[4] = c[4] /\ b[4] \in Byte /\ 5 + b[4] + 2 =< len
      BY <2>1, <2>5 DEF socks5_request_is_incomplete
    <3>2. Bytes(b, 5, b[4]) = Bytes(c, 5, c[4])
      BY <3>1, <1>0
    <3>3. Port(b, 5 + b[4]) = Port(c, 5 + c[4])
      <4>1. PICK n \in Nat : n = b[4]
        BY <3>1
      <4>2. 5 + n \in Nat /\ 5 + n + 2 =< len
        BY <3>1, <4>1
      <4>3. Port(b, 5 + n) = Port(c, 5 + n)
        BY <4>2, <1>a
      <4>4. QED BY <3>1, <4>1, <4>3
    <3>4. QED BY <2>2, <2>5, <3>2, <3>3 DEF Destination
  <2>6. QED BY <2>1, <2>3, <2>4, <2>5
<1>9. QED BY <1>1, <1>2, <1>3, <1>4, <1>5, <1>6, <1>7, <1>8

-----------------------------------------------------------------------------
(* The session *)

\* A session that has a reply to send has dropped what it had read, and has not
\* sent more than the reply.
Replying ==
    /\ interest = "WRITE" => read_len = 0
    /\ write_off =< Len(write_buffer)

IInv == TypeOK /\ RoomLeft /\ Replying

\* Two texts, their lengths and a version are shorter than the buffer.
LEMMA TwoTextsFit ==
    ASSUME NEW m \in Nat, NEW size \in Nat, size >= 2 * m + 3,
           NEW n \in 0 .. m, NEW k \in 0 .. m,
           NEW len \in Nat, len < 2 \/ len < 2 + n + 1 \/ len < 2 + n + 1 + k
    PROVE  len < size
OBVIOUS

\* An incomplete message leaves room in the buffer: none is longer than the
\* two texts of a login or an IPv6 request.
LEMMA IncompleteLeavesRoom ==
    ASSUME NEW b \in Buffers, NEW len \in 0 .. BufferSize, IsIncomplete(b, len)
    PROVE  len < BufferSize
<1> USE MaxByteAssumption, BufferSizeAssumption
    DEF Byte, Buffers, VERSION, AUTH_VERSION, IPV4, IPV6, DOMAIN_NAME, IPV4_REQUEST_SIZE,
        IPV6_REQUEST_SIZE
<1>1. b[1] \in Byte /\ b[4] \in Byte
  OBVIOUS
<1>2. CASE GreetingIsIncomplete(b, len)
  BY <1>1, <1>2 DEF GreetingIsIncomplete
<1>3. CASE AuthIsIncomplete(b, len)
  <2>1. 2 + b[1] \in 0 .. BufferSize - 1
    BY <1>1
  <2>2. b[2 + b[1]] \in Byte
    BY <2>1
  <2>3. PICK n \in 0 .. MaxByte, k \in 0 .. MaxByte : n = b[1] /\ k = b[2 + b[1]]
    BY <1>1, <2>2
  <2>4. len < 2 \/ len < 2 + n + 1 \/ len < 2 + n + 1 + k
    BY <1>3, <2>3 DEF AuthIsIncomplete, PasswordLenIndex, ExpectedLen
  <2>5. len \in Nat
    OBVIOUS
  <2>6. QED BY <2>3, <2>4, <2>5, TwoTextsFit
<1>4. CASE socks5_request_is_incomplete(b, len)
  BY <1>1, <1>4 DEF socks5_request_is_incomplete
<1>5. QED BY <1>2, <1>3, <1>4 DEF IsIncomplete

\* recv fills the buffer with bytes and leaves bytes on the wire.
LEMMA ReceivedIsBuffer ==
    ASSUME TypeOK, NEW n \in 1 .. Len(wire), n =< BufferSize - read_len
    PROVE  /\ Received(n) \in Buffers
           /\ read_len + n \in 0 .. BufferSize
           /\ SubSeq(wire, n + 1, Len(wire)) \in Seq(Byte)
<1> USE BufferSizeAssumption DEF TypeOK, Buffers
<1>1. ASSUME NEW i \in 0 .. BufferSize - 1
      PROVE  Received(n)[i] \in Byte
  <2>1. CASE i >= read_len /\ i < read_len + n
    <3>1. i - read_len + 1 \in 1 .. Len(wire)
      BY <2>1
    <3>2. QED BY <2>1, <3>1 DEF Received
  <2>2. CASE ~ (i >= read_len /\ i < read_len + n)
    BY <2>2 DEF Received
  <2>3. QED BY <2>1, <2>2
<1>2. Received(n) \in Buffers
  BY <1>1 DEF Received
<1>3. QED BY <1>2

\* What the client sends are bytes.
LEMMA MessagesAreBytes ==
    /\ \A m \in Greetings : EncodeGreeting(m) \in Seq(Byte)
    /\ \A m \in Logins : EncodeLogin(m) \in Seq(Byte)
    /\ \A m \in Requests : EncodeRequest(m) \in Seq(Byte)
<1> USE MaxByteAssumption DEF Byte, Text
<1>1. ASSUME NEW m \in Greetings PROVE EncodeGreeting(m) \in Seq(Byte)
  BY GreetingsAssumption DEF EncodeGreeting
<1>2. ASSUME NEW m \in Logins PROVE EncodeLogin(m) \in Seq(Byte)
  BY LoginsAssumption DEF EncodeLogin
<1>3. ASSUME NEW m \in Requests PROVE EncodeRequest(m) \in Seq(Byte)
  <2>1. /\ <<m.ver, m.cmd, m.rsv, m.atyp>> \in Seq(Byte)
        /\ m.host \in Seq(Byte)
    BY RequestsAssumption
  <2>2. m.port \in Seq(Byte)
    <3>1. PICK hi \in Byte, lo \in Byte : m.port = <<hi, lo>>
      BY RequestsAssumption
    <3>2. QED BY <3>1
  <2>3. (IF m.atyp = DOMAIN_NAME THEN <<Len(m.host)>> ELSE <<>>) \in Seq(Byte)
    <3>1. CASE m.atyp = DOMAIN_NAME
      <4>1. m.host \in Text
        BY <3>1, RequestsAssumption
      <4>2. Len(m.host) \in Byte
        BY <4>1
      <4>3. QED BY <3>1, <4>2
    <3>2. CASE m.atyp # DOMAIN_NAME
      BY <3>2
    <3>3. QED BY <3>1, <3>2
  <2>4. QED BY <2>1, <2>2, <2>3 DEF EncodeRequest
<1>4. QED BY <1>1, <1>2, <1>3

\* As MessagesAreBytes, for the replies.
LEMMA RepliesAreBytes ==
    ASSUME NEW x \in Byte
    PROVE  /\ GreetingResponse(x) \in Seq(Byte)
           /\ AuthResponse(x) \in Seq(Byte)
           /\ RequestResponse(x) \in Seq(Byte)
BY MaxByteAssumption DEF Byte, GreetingResponse, AuthResponse, RequestResponse, VERSION,
   AUTH_VERSION, IPV4

\* Preparing a reply, in a stage whose session may be in, preserves the invariant.
LEMMA PrepareStep ==
    ASSUME IInv, NEW reply \in Seq(Byte), NEW next \in Stages, Prepare(reply, next),
           wire' \in Seq(Byte), read_buffer' \in Buffers,
           UNCHANGED <<users, clientVars>>,
           username' \in Seq(Byte)
    PROVE  IInv'
<1> USE BufferSizeAssumption DEF IInv, Prepare, clientVars
<1>1. TypeOK'
  BY DEF TypeOK, Buffers
<1>2. RoomLeft' /\ Replying'
  BY DEF RoomLeft, Replying
<1>3. QED BY <1>1, <1>2

\* Bytes that do not complete a message preserve it.
LEMMA KeepReadingStep ==
    ASSUME IInv, NEW b \in Buffers, NEW len \in 0 .. BufferSize, KeepReading(b, len),
           interest = "READ", wire' \in Seq(Byte), read_buffer' = b,
           UNCHANGED <<users, clientVars>>
    PROVE  IInv'
<1> USE DEF IInv, KeepReading, clientVars, writeVars
<1>1. len < BufferSize
  BY IncompleteLeavesRoom
<1>2. TypeOK'
  BY DEF TypeOK, Buffers
<1>3. RoomLeft' /\ Replying'
  BY <1>1 DEF RoomLeft, Replying
<1>4. QED BY <1>2, <1>3

\* A greeting is answered, or closes the session.
LEMMA GreetingStep ==
    ASSUME IInv, NEW b \in Buffers, NEW len \in 0 .. BufferSize, Greeting(b, len),
           interest = "READ", wire' \in Seq(Byte), read_buffer' = b,
           UNCHANGED <<users, clientVars>>
    PROVE  IInv'
<1> USE DEF IInv, clientVars, writeVars
<1>1. CASE Close /\ read_len' = len
  <2>1. UNCHANGED <<username, destination>>
    BY DEF Greeting
  <2>2. TypeOK'
    BY <1>1, <2>1 DEF Close, TypeOK, Buffers
  <2>3. RoomLeft' /\ Replying'
    BY <1>1, <2>1 DEF Close, RoomLeft, Replying
  <2>4. QED BY <2>2, <2>3
<1>2. CASE \E x \in Byte, next \in {"AUTH", "REQUEST", "CLOSING"} :
              Prepare(GreetingResponse(x), next)
  <2>1. PICK x \in Byte, next \in {"AUTH", "REQUEST", "CLOSING"} :
           Prepare(GreetingResponse(x), next)
    BY <1>2
  <2>2. username' \in Seq(Byte)
    BY DEF Greeting, TypeOK
  <2>3. GreetingResponse(x) \in Seq(Byte)
    BY RepliesAreBytes
  <2>4. next \in Stages
    BY <2>1 DEF Stages
  <2>5. QED BY <2>1, <2>2, <2>3, <2>4, PrepareStep
<1>3. USERNAME_PASSWORD \in Byte /\ NO_AUTH \in Byte /\ NO_ACCEPTABLE \in Byte
  BY MaxByteAssumption DEF Byte, USERNAME_PASSWORD, NO_AUTH, NO_ACCEPTABLE
<1>4. QED BY <1>1, <1>2, <1>3 DEF Greeting

\* A login that is accepted is a user's.
LEMMA LoginStep ==
    ASSUME IInv, NEW b \in Buffers, NEW len \in 0 .. BufferSize, Login(b, len),
           wire' \in Seq(Byte), read_buffer' = b,
           UNCHANGED <<users, clientVars>>
    PROVE  IInv'
<1> USE DEF IInv
<1>1. AUTH_SUCCESS \in Byte /\ AUTH_FAILURE \in Byte
  BY MaxByteAssumption DEF Byte, AUTH_SUCCESS, AUTH_FAILURE
<1>2. CASE Authenticated(b, users)
  <2>1. username' = Username(b) /\ Prepare(AuthResponse(AUTH_SUCCESS), "REQUEST")
    BY <1>2 DEF Login
  <2>2. <<Username(b), Password(b)>> \in users
    BY <1>2 DEF Authenticated
  <2>3. \E u \in users : u[1] = username'
    BY <2>1, <2>2
  <2>4. username' \in Seq(Byte)
    BY <2>3, UserTablesAssumption DEF TypeOK, Text
  <2>5. AuthResponse(AUTH_SUCCESS) \in Seq(Byte) /\ "REQUEST" \in Stages
    BY <1>1, RepliesAreBytes DEF Stages
  <2>6. QED BY <2>1, <2>4, <2>5, PrepareStep
<1>3. CASE ~ Authenticated(b, users)
  <2>1. username' = username /\ Prepare(AuthResponse(AUTH_FAILURE), "CLOSING")
    BY <1>3 DEF Login
  <2>2. username' \in Seq(Byte)
    BY <2>1 DEF TypeOK
  <2>3. AuthResponse(AUTH_FAILURE) \in Seq(Byte) /\ "CLOSING" \in Stages
    BY <1>1, RepliesAreBytes DEF Stages
  <2>4. QED BY <2>1, <2>2, <2>3, PrepareStep
<1>4. QED BY <1>2, <1>3

\* A request is refused, or handed over by a session that may make one.
LEMMA RequestStep ==
    ASSUME IInv, NEW b \in Buffers, NEW len \in 0 .. BufferSize,
           RejectRequest(b, len) \/ target_connection_begin(b, len),
           wire' \in Seq(Byte), read_buffer' = b,
           UNCHANGED <<users, clientVars>>
    PROVE  IInv'
<1> USE DEF IInv
<1>1. username' = username /\ stage = "REQUEST"
  BY DEF RejectRequest, target_connection_begin
<1>2. CASE \E r \in Byte : Prepare(RequestResponse(r), "CLOSING")
  <2>1. PICK r \in Byte : Prepare(RequestResponse(r), "CLOSING")
    BY <1>2
  <2>2. username' \in Seq(Byte)
    BY <1>1 DEF TypeOK
  <2>3. RequestResponse(r) \in Seq(Byte) /\ "CLOSING" \in Stages
    BY RepliesAreBytes DEF Stages
  <2>4. QED BY <2>1, <2>2, <2>3, PrepareStep
<1>3. CASE /\ stage' \in Handed /\ interest' = "NOOP" /\ read_len' = 0
           /\ UNCHANGED <<open, writeVars>>
  <2> USE BufferSizeAssumption DEF clientVars, writeVars
  <2>1. TypeOK'
    BY <1>1, <1>3 DEF TypeOK, Buffers, Handed, Stages
  <2>2. RoomLeft' /\ Replying'
    BY <1>3 DEF RoomLeft, Replying
  <2>3. QED BY <2>1, <2>2
<1>4. CASE RejectRequest(b, len)
  <2>1. {GENERAL_FAILURE, COMMAND_NOT_SUPPORTED, ADDRESS_TYPE_NOT_SUPPORTED, SUCCESS} \subseteq Byte
    BY MaxByteAssumption DEF Byte, GENERAL_FAILURE, COMMAND_NOT_SUPPORTED,
                             ADDRESS_TYPE_NOT_SUPPORTED, SUCCESS
  <2>2. socks5_request_reply_for(b, len) \in Byte
    BY <2>1 DEF socks5_request_reply_for
  <2>3. QED BY <1>2, <1>4, <2>1, <2>2 DEF RejectRequest
<1>5. CASE target_connection_begin(b, len)
  <2>1. ConnectFailures \subseteq Byte /\ GENERAL_FAILURE \in Byte
    BY MaxByteAssumption DEF ConnectFailures, Byte, GENERAL_FAILURE
  <2>2. {"RESOLVING", "CONNECTING"} \subseteq Handed
    BY DEF Handed
  <2>3. QED BY <1>2, <1>3, <1>5, <2>1, <2>2 DEF target_connection_begin
<1>6. QED BY <1>4, <1>5

\* The client's steps.
LEMMA ClientStep ==
    ASSUME IInv, ClientGreets \/ ClientLogsIn \/ ClientRequests \/ ClientLeaves
    PROVE  IInv'
<1> USE DEF IInv, readVars, writeVars
<1>1. ASSUME NEW kind, NEW m, NEW bytes \in Seq(Byte), Says(kind, m, bytes),
             [kind |-> kind, msg |-> m] \in Messages
      PROVE  IInv'
  <2>1. PICK a \in Ahead : wire' = wire \o bytes \o a /\ ahead' = (ahead \/ a # <<>>)
    BY <1>1 DEF Says
  <2>2. wire' \in Seq(Byte)
    BY <2>1, AheadAssumption DEF TypeOK
  <2>3. ahead' \in BOOLEAN
    BY <2>1
  <2>4. TypeOK'
    BY <1>1, <2>2, <2>3 DEF Says, TypeOK
  <2>5. RoomLeft' /\ Replying'
    BY <1>1 DEF Says, RoomLeft, Replying
  <2>6. QED BY <2>4, <2>5
<1>2. CASE ClientGreets
  BY <1>1, <1>2, MessagesAreBytes DEF ClientGreets, Messages
<1>3. CASE ClientLogsIn
  BY <1>1, <1>3, MessagesAreBytes DEF ClientLogsIn, Messages
<1>4. CASE ClientRequests
  BY <1>1, <1>4, MessagesAreBytes DEF ClientRequests, Messages
<1>5. CASE ClientLeaves
  <2>1. wire' \in Seq(Byte)
    <3>1. wire' = wire \/ wire' = <<>>
      BY <1>5 DEF ClientLeaves
    <3>2. wire \in Seq(Byte) /\ <<>> \in Seq(Byte)
      BY DEF TypeOK
    <3>3. QED BY <3>1, <3>2
  <2>2. gone' \in BOOLEAN
    BY <1>5 DEF ClientLeaves
  <2>3. TypeOK'
    BY <1>5, <2>1, <2>2 DEF ClientLeaves, TypeOK
  <2>4. RoomLeft' /\ Replying'
    BY <1>5 DEF ClientLeaves, RoomLeft, Replying
  <2>5. QED BY <2>3, <2>4
<1>6. QED BY <1>2, <1>3, <1>4, <1>5

\* The write handler's steps.
LEMMA WriteStep ==
    ASSUME IInv, client_write
    PROVE  IInv'
<1> USE DEF IInv, readVars, writeVars
<1>1. ASSUME NEW n \in Nat, n =< Len(write_buffer) - write_off, Sends(n)
      PROVE  seen' \in Seq(Byte)
  <2>1. SubSeq(write_buffer, write_off + 1, write_off + n) \in Seq(Byte)
    BY <1>1 DEF TypeOK, Replying
  <2>2. QED BY <1>1, <2>1 DEF Sends, TypeOK
<1>2. CASE WriteSome
  <2>1. PICK n \in 1 .. Len(write_buffer) - write_off - 1 :
           Sends(n) /\ write_off' = write_off + n
    BY <1>2 DEF WriteSome
  <2>2. n \in Nat /\ n =< Len(write_buffer) - write_off
    BY <2>1 DEF TypeOK
  <2>3. seen' \in Seq(Byte)
    BY <1>1, <2>1, <2>2
  <2>4. write_off' \in Nat /\ write_off' =< Len(write_buffer)
    BY <2>1, <2>2 DEF TypeOK
  <2>5. TypeOK'
    BY <1>2, <2>1, <2>3, <2>4 DEF WriteSome, Sends, TypeOK
  <2>6. RoomLeft' /\ Replying'
    BY <1>2, <2>1, <2>4 DEF WriteSome, Sends, RoomLeft, Replying
  <2>7. QED BY <2>5, <2>6
<1>3. CASE WriteAll
  <2>1. Len(write_buffer) - write_off \in Nat
    BY DEF TypeOK, Replying
  <2>2. Sends(Len(write_buffer) - write_off)
    BY <1>3 DEF WriteAll
  <2>3. seen' \in Seq(Byte)
    BY <1>1, <2>1, <2>2
  <2>4. TypeOK'
    <3>1. write_buffer' \in Seq(Byte) /\ write_off' \in Nat
      BY <1>3 DEF WriteAll
    <3>2. open' \in BOOLEAN /\ interest' \in {"READ", "WRITE", "NOOP"}
      BY <1>3 DEF WriteAll, TypeOK
    <3>3. QED BY <1>3, <2>2, <2>3, <3>1, <3>2 DEF WriteAll, Sends, TypeOK
  <2>5. RoomLeft' /\ Replying'
    BY <1>3, <2>2, BufferSizeAssumption, MaxByteAssumption
       DEF WriteAll, Sends, TypeOK, RoomLeft, Replying, IPV6_REQUEST_SIZE
  <2>6. QED BY <2>4, <2>5
<1>4. CASE WriteFails
  BY <1>4 DEF WriteFails, Close, clientVars, TypeOK, RoomLeft, Replying
<1>5. QED BY <1>2, <1>3, <1>4 DEF client_write

\* IInv holds in every state the session can reach.
THEOREM Inductive == Spec => []IInv
<1>1. Init => IInv
  <2> SUFFICES ASSUME Init PROVE IInv
    OBVIOUS
  <2> USE BufferSizeAssumption, MaxByteAssumption DEF Init, IPV6_REQUEST_SIZE
  <2>1. TypeOK
    <3>1. 0 \in Byte /\ read_buffer \in [0 .. BufferSize - 1 -> Byte] /\ read_len \in 0 .. BufferSize
      BY DEF Byte
    <3>2. /\ write_buffer \in Seq(Byte) /\ username \in Seq(Byte)
          /\ wire \in Seq(Byte) /\ seen \in Seq(Byte)
      BY DEF Anonymous
    <3>3. said \in Messages
      BY DEF Messages
    <3>4. open \in BOOLEAN /\ ahead \in BOOLEAN /\ gone \in BOOLEAN
      OBVIOUS
    <3>5. QED BY <3>1, <3>2, <3>3, <3>4 DEF TypeOK, Stages
  <2>2. RoomLeft /\ Replying
    BY DEF RoomLeft, Replying
  <2>3. QED BY <2>1, <2>2 DEF IInv
<1>2. IInv /\ [Next]_vars => IInv'
  <2> SUFFICES ASSUME IInv, [Next]_vars PROVE IInv'
    OBVIOUS
  <2>1. CASE ClientGreets \/ ClientLogsIn \/ ClientRequests \/ ClientLeaves
    BY <2>1, ClientStep
  <2>2. CASE client_read
    <3>1. PICK n \in 1 .. Len(wire) :
             /\ n =< BufferSize - read_len
             /\ wire' = SubSeq(wire, n + 1, Len(wire))
             /\ read_buffer' = Received(n)
             /\ \/ KeepReading(Received(n), read_len + n)
                \/ Greeting(Received(n), read_len + n)
                \/ Login(Received(n), read_len + n)
                \/ RejectRequest(Received(n), read_len + n)
                \/ target_connection_begin(Received(n), read_len + n)
      BY <2>2 DEF client_read
    <3>2. interest = "READ" /\ UNCHANGED <<users, clientVars>>
      BY <2>2 DEF client_read
    <3>3. /\ Received(n) \in Buffers
          /\ read_len + n \in 0 .. BufferSize
          /\ wire' \in Seq(Byte)
      BY <3>1, ReceivedIsBuffer DEF IInv
    <3>4. QED BY <3>1, <3>2, <3>3, KeepReadingStep, GreetingStep, LoginStep, RequestStep
  <2>3. CASE ReadEnds
    BY <2>3 DEF ReadEnds, Close, readVars, writeVars, clientVars, IInv, TypeOK, RoomLeft, Replying
  <2>4. CASE client_write
    BY <2>4, WriteStep
  <2>5. CASE UNCHANGED vars
    BY <2>5 DEF vars, IInv, TypeOK, RoomLeft, Replying
  <2>6. QED BY <2>1, <2>2, <2>3, <2>4, <2>5 DEF Next
<1>3. QED BY <1>1, <1>2, PTL DEF Spec

\* Lengths, buffers and stages keep their type.
THEOREM TypeCorrect == Spec => []TypeOK
<1>1. IInv => TypeOK
  BY DEF IInv
<1>2. QED BY <1>1, Inductive, PTL

\* client_read never offers recv an empty buffer.
THEOREM AlwaysRoom == Spec => []RoomLeft
<1>1. IInv => RoomLeft
  BY DEF IInv
<1>2. QED BY <1>1, Inductive, PTL

-----------------------------------------------------------------------------
(* What the parsers make of a message, wherever the buffer begins to repeat it. *)

\* The first len bytes of the buffer are the first of the message.
Holds(b, len, bytes) == len =< Len(bytes) /\ \A i \in 0 .. len - 1 : b[i] = bytes[i + 1]

\* c is a, of n bytes, followed by b, of k.
Places(c, a, b, n, k) ==
    /\ c \in Seq(Byte) /\ Len(c) = n + k
    /\ \A i \in 1 .. n : c[i] = a[i]
    /\ \A i \in 1 .. k : c[n + i] = b[i]

\* Where the bytes of two parts end up when they are joined.
LEMMA Joined ==
    ASSUME NEW a \in Seq(Byte), NEW b \in Seq(Byte),
           NEW n \in Nat, NEW k \in Nat, Len(a) = n, Len(b) = k
    PROVE  Places(a \o b, a, b, n, k)
<1> DEFINE d == a \o b
<1>1. /\ d \in Seq(Byte) /\ Len(d) = Len(a) + Len(b)
      /\ \A i \in 1 .. Len(a) : d[i] = a[i]
      /\ \A i \in 1 .. Len(b) : d[Len(a) + i] = b[i]
  OBVIOUS
<1> HIDE DEF d
<1>2. Places(d, a, b, n, k)
  BY <1>1 DEF Places
<1>3. QED BY <1>2 DEF d

\* The bytes of a greeting, by their place in it.
LEMMA GreetingBytes ==
    ASSUME NEW m \in Greetings
    PROVE  /\ EncodeGreeting(m) \in Seq(Byte) /\ Len(EncodeGreeting(m)) = 2 + Len(m.methods)
           /\ EncodeGreeting(m)[1] = m.ver /\ EncodeGreeting(m)[2] = Len(m.methods)
           /\ \A i \in 1 .. Len(m.methods) : EncodeGreeting(m)[2 + i] = m.methods[i]
<1>1. m.methods \in Seq(Byte)
  BY GreetingsAssumption DEF Text
<1>2. QED BY <1>1, MessagesAreBytes DEF EncodeGreeting

\* The same for a login: the version is v, the name u has n bytes, the password
\* w has k.
IsLogin(e, v, u, n, w, k) ==
    /\ e \in Seq(Byte) /\ Len(e) = 3 + n + k
    /\ e[1] = v /\ e[2] = n /\ e[3 + n] = k
    /\ \A i \in 1 .. n : e[2 + i] = u[i]
    /\ \A i \in 1 .. k : e[3 + n + i] = w[i]

LEMMA LoginLayout ==
    ASSUME NEW v \in Byte, NEW n \in Nat, n \in Byte, NEW k \in Nat, k \in Byte,
           NEW u \in Seq(Byte), NEW w \in Seq(Byte), Len(u) = n, Len(w) = k
    PROVE  IsLogin(<<v, n>> \o u \o <<k>> \o w, v, u, n, w, k)
<1> DEFINE h == <<v, n>>
           t == <<k>>
           p == h \o u
           q == p \o t
           e == q \o w
<1>1. h \in Seq(Byte) /\ Len(h) = 2 /\ h[1] = v /\ h[2] = n
  OBVIOUS
<1>2. t \in Seq(Byte) /\ Len(t) = 1 /\ t[1] = k
  OBVIOUS
<1>3. 1 \in Nat /\ 2 \in Nat /\ 2 + n \in Nat /\ 3 + n \in Nat /\ 2 + n + 1 = 3 + n
  OBVIOUS
<1> HIDE DEF h, t
<1>4. Places(p, h, u, 2, n)
  BY <1>1, <1>3, Joined
<1> HIDE DEF p
<1>5. p \in Seq(Byte) /\ Len(p) = 2 + n
  BY <1>4 DEF Places
<1>6. Places(q, p, t, 2 + n, 1)
  BY <1>2, <1>3, <1>5, Joined
<1> HIDE DEF q
<1>7. q \in Seq(Byte) /\ Len(q) = 3 + n
  BY <1>3, <1>6 DEF Places
<1>8. Places(e, q, w, 3 + n, k)
  BY <1>3, <1>7, Joined
<1> HIDE DEF e
<1>9. IsLogin(e, v, u, n, w, k)
  BY <1>1, <1>2, <1>4, <1>6, <1>8 DEF Places, IsLogin
<1>10. QED BY <1>9 DEF e, q, p, t, h

LEMMA LoginBytes ==
    ASSUME NEW m \in Logins
    PROVE  IsLogin(EncodeLogin(m), m.ver, m.user, Len(m.user), m.pass, Len(m.pass))
<1>1. /\ m.ver \in Byte /\ m.user \in Seq(Byte) /\ m.pass \in Seq(Byte)
      /\ Len(m.user) \in Nat /\ Len(m.user) \in Byte
      /\ Len(m.pass) \in Nat /\ Len(m.pass) \in Byte
  BY LoginsAssumption DEF Text, Byte
<1>2. QED BY <1>1, LoginLayout DEF EncodeLogin

\* A login that auth_parse_request accepts is, byte for byte, the login of a user.
LEMMA PresentsLogin ==
    ASSUME NEW b \in Buffers, NEW len \in 0 .. BufferSize, ~ AuthIsIncomplete(b, len),
           Authenticated(b, users), read_buffer' = b,
           len = read_len + (Len(wire) - Len(wire'))
    PROVE  \E u \in users : Username(b) = u[1] /\ Presented(u)
<1> DEFINE n == b[1]
           k == b[2 + n]
           name == Username(b)
           pass == Password(b)
           u == <<name, pass>>
           e == <<AUTH_VERSION, n>> \o name \o <<k>> \o pass
<1> USE BufferSizeAssumption, MaxByteAssumption
<1>1. len >= 2 /\ len \in Nat /\ BufferSize \in Nat
  BY DEF AuthIsIncomplete
<1>2. b[0] = AUTH_VERSION /\ u \in users
  BY DEF Authenticated
<1>3. n \in Nat /\ n \in Byte
  <2>1. 1 \in 0 .. BufferSize - 1
    BY <1>1
  <2>2. QED BY <2>1 DEF Buffers, Byte
<1>4. len >= 3 + n
  BY <1>1, <1>2, <1>3 DEF AuthIsIncomplete, PasswordLenIndex
<1>5. k \in Nat /\ k \in Byte
  <2>1. 2 + n \in 0 .. BufferSize - 1
    BY <1>1, <1>3, <1>4
  <2>2. QED BY <2>1 DEF Buffers, Byte
<1>6. len >= 3 + n + k
  BY <1>1, <1>2, <1>3, <1>5 DEF AuthIsIncomplete, PasswordLenIndex, ExpectedLen
<1>7. \A i \in 0 .. 2 + n + k : b[i] \in Byte
  <2>1. \A i \in 0 .. 2 + n + k : i \in 0 .. BufferSize - 1
    BY <1>1, <1>3, <1>5, <1>6
  <2>2. QED BY <2>1 DEF Buffers
<1>8. name = [i \in 1 .. n |-> b[2 + i - 1]] /\ pass = [i \in 1 .. k |-> b[3 + n + i - 1]]
  <2>1. PasswordLenIndex(b) + 1 = 3 + n /\ PasswordLenIndex(b) = 2 + n
    BY <1>3 DEF PasswordLenIndex
  <2>2. QED BY <2>1 DEF Username, Password, Bytes
<1> HIDE DEF n, k, name, pass
<1>9. name \in Seq(Byte) /\ Len(name) = n /\ \A i \in 1 .. n : name[i] = b[2 + i - 1]
  <2>1. \A i \in 1 .. n : b[2 + i - 1] \in Byte
    BY <1>3, <1>5, <1>7
  <2>2. QED BY <1>3, <1>8, <2>1
<1>10. pass \in Seq(Byte) /\ Len(pass) = k /\ \A i \in 1 .. k : pass[i] = b[3 + n + i - 1]
  <2>1. \A i \in 1 .. k : b[3 + n + i - 1] \in Byte
    BY <1>3, <1>5, <1>7
  <2>2. QED BY <1>5, <1>8, <2>1
<1>11. AUTH_VERSION \in Byte
  BY DEF AUTH_VERSION, Byte
<1>12. IsLogin(e, AUTH_VERSION, name, n, pass, k)
  BY <1>3, <1>5, <1>9, <1>10, <1>11, LoginLayout
<1>13. EncodeLogin([ver |-> AUTH_VERSION, user |-> u[1], pass |-> u[2]]) = e
  BY <1>9, <1>10 DEF EncodeLogin
<1> HIDE DEF e
<1>14. Len(e) = 3 + n + k
  BY <1>12 DEF IsLogin
<1>15. ASSUME NEW i \in 1 .. 3 + n + k PROVE b[i - 1] = e[i]
  <2>1. CASE i = 1
    BY <1>2, <1>12, <2>1 DEF IsLogin
  <2>2. CASE i = 2
    BY <1>12, <2>2 DEF IsLogin, n
  <2>3. CASE i = 3 + n
    <3>1. i - 1 = 2 + n
      BY <1>3, <2>3
    <3>2. QED BY <1>12, <2>3, <3>1 DEF IsLogin, k
  <2>4. CASE i > 2 /\ i < 3 + n
    <3>1. i - 2 \in 1 .. n /\ 2 + (i - 2) = i /\ 2 + (i - 2) - 1 = i - 1
      BY <1>3, <1>5, <2>4
    <3>2. QED BY <1>9, <1>12, <3>1 DEF IsLogin
  <2>5. CASE i > 3 + n
    <3> DEFINE j == i - (3 + n)
    <3>1. j \in 1 .. k /\ 3 + n + j = i /\ 3 + n + j - 1 = i - 1
      BY <1>3, <1>5, <2>5
    <3> HIDE DEF j
    <3>2. e[3 + n + j] = pass[j] /\ pass[j] = b[3 + n + j - 1]
      BY <1>10, <1>12, <3>1 DEF IsLogin
    <3>3. QED BY <3>1, <3>2
  <2>6. QED BY <1>3, <1>5, <2>1, <2>2, <2>3, <2>4, <2>5
<1>16. Presented(u)
  <2>1. Len(e) =< read_len + (Len(wire) - Len(wire'))
    BY <1>6, <1>14
  <2>2. \A i \in 1 .. Len(e) : read_buffer'[i - 1] = e[i]
    BY <1>14, <1>15
  <2> HIDE DEF u
  <2>3. QED BY <1>13, <2>1, <2>2 DEF Presented
<1>17. Username(b) = u[1]
  BY DEF name
<1>18. QED BY <1>2, <1>16, <1>17

\* With users configured, client_read lets a session make requests only with the
\* login of one of them in what it has received for this message, the password
\* included; whatever the client sends and however it arrives.
THEOREM UsersOnly == Spec => OnlyUsersRequest
<1> DEFINE Gets == (users # {} /\ stage \notin MayRequest /\ stage' \in MayRequest)
                       \/ username' # username
           Given == \E u \in users : username' = u[1] /\ Presented(u)
<1>1. IInv /\ [Next]_vars => [Gets => Given]_vars
  <2> SUFFICES ASSUME IInv, Next, Gets PROVE Given
    OBVIOUS
  <2>1. CASE UNCHANGED <<stage, username>>
    BY <2>1
  <2>2. CASE client_read
    <3>1. PICK n \in 1 .. Len(wire) :
             /\ n =< BufferSize - read_len
             /\ wire' = SubSeq(wire, n + 1, Len(wire))
             /\ read_buffer' = Received(n)
             /\ \/ KeepReading(Received(n), read_len + n)
                \/ Greeting(Received(n), read_len + n)
                \/ Login(Received(n), read_len + n)
                \/ RejectRequest(Received(n), read_len + n)
                \/ target_connection_begin(Received(n), read_len + n)
      BY <2>2 DEF client_read
    <3> DEFINE b == Received(n)
               len == read_len + n
    <3>2. b \in Buffers /\ len \in 0 .. BufferSize
      BY <3>1, ReceivedIsBuffer DEF IInv
    <3>3. len = read_len + (Len(wire) - Len(wire'))
      <4>1. wire \in Seq(Byte) /\ Len(wire) \in Nat /\ read_len \in Nat /\ n \in 1 .. Len(wire)
        BY <3>1 DEF IInv, TypeOK
      <4>2. Len(wire') = Len(wire) - n
        BY <3>1, <4>1
      <4>3. QED BY <4>1, <4>2
    <3> HIDE DEF b, len
    <3>4. CASE KeepReading(b, len)
      BY <2>1, <3>4 DEF KeepReading
    <3>5. CASE Greeting(b, len)
      <4>1. username' = username
        BY <3>5 DEF Greeting
      <4>2. stage' = stage \/ stage' \in {"AUTH", "CLOSING"} \/ users = {}
        BY <3>5 DEF Greeting, Close, Prepare
      <4>3. QED BY <4>1, <4>2 DEF MayRequest, Handed
    <3>6. CASE Login(b, len)
      <4>1. CASE Authenticated(b, users)
        <5>1. username' = Username(b) /\ ~ AuthIsIncomplete(b, len)
          BY <3>6, <4>1 DEF Login
        <5>2. read_buffer' = b
          BY <3>1 DEF b
        <5>3. \E u \in users : Username(b) = u[1] /\ Presented(u)
          BY <3>2, <3>3, <4>1, <5>1, <5>2, PresentsLogin
        <5>4. QED BY <5>1, <5>3
      <4>2. CASE ~ Authenticated(b, users)
        <5>1. username' = username /\ stage' = "CLOSING"
          BY <3>6, <4>2 DEF Login, Prepare
        <5>2. QED BY <5>1 DEF MayRequest, Handed
      <4>3. QED BY <4>1, <4>2
    <3>7. CASE RejectRequest(b, len) \/ target_connection_begin(b, len)
      BY <3>7 DEF RejectRequest, target_connection_begin, MayRequest
    <3>8. QED BY <3>1, <3>4, <3>5, <3>6, <3>7 DEF b, len
  <2>3. CASE ClientGreets \/ ClientLogsIn \/ ClientRequests \/ ClientLeaves
    BY <2>1, <2>3 DEF ClientGreets, ClientLogsIn, ClientRequests, ClientLeaves, Says
  <2>4. CASE ReadEnds \/ client_write
    BY <2>1, <2>4 DEF ReadEnds, Close, client_write, WriteSome, WriteAll, WriteFails, Sends
  <2>5. QED BY <2>2, <2>3, <2>4 DEF Next
<1>2. QED BY <1>1, Inductive, PTL DEF Spec, OnlyUsersRequest

\* The same for a request: t is empty, or the length of a name.
IsRequest(e, v, c, r, y, t, d, u, n, w) ==
    /\ e \in Seq(Byte) /\ Len(e) = 4 + d + n + 2
    /\ e[1] = v /\ e[2] = c /\ e[3] = r /\ e[4] = y
    /\ \A i \in 1 .. d : e[4 + i] = t[i]
    /\ \A i \in 1 .. n : e[4 + d + i] = u[i]
    /\ e[4 + d + n + 1] = w[1] /\ e[4 + d + n + 2] = w[2]

LEMMA RequestLayout ==
    ASSUME NEW v \in Byte, NEW c \in Byte, NEW r \in Byte, NEW y \in Byte,
           NEW d \in Nat, NEW t \in Seq(Byte), Len(t) = d,
           NEW u \in Seq(Byte), NEW n \in Nat, Len(u) = n,
           NEW w \in Seq(Byte), Len(w) = 2
    PROVE  IsRequest(<<v, c, r, y>> \o t \o u \o w, v, c, r, y, t, d, u, n, w)
<1> DEFINE h == <<v, c, r, y>>
           p == h \o t
           q == p \o u
           e == q \o w
<1>1. h \in Seq(Byte) /\ Len(h) = 4 /\ h[1] = v /\ h[2] = c /\ h[3] = r /\ h[4] = y
  OBVIOUS
<1>2. 2 \in Nat /\ 4 \in Nat /\ 4 + d \in Nat /\ 4 + d + n \in Nat
  OBVIOUS
<1> HIDE DEF h
<1>3. Places(p, h, t, 4, d)
  BY <1>1, <1>2, Joined
<1> HIDE DEF p
<1>4. p \in Seq(Byte) /\ Len(p) = 4 + d
  BY <1>3 DEF Places
<1>5. Places(q, p, u, 4 + d, n)
  BY <1>2, <1>4, Joined
<1> HIDE DEF q
<1>6. q \in Seq(Byte) /\ Len(q) = 4 + d + n
  BY <1>5 DEF Places
<1>7. Places(e, q, w, 4 + d + n, 2)
  BY <1>2, <1>6, Joined
<1> HIDE DEF e
<1>8. /\ e \in Seq(Byte) /\ Len(e) = 4 + d + n + 2
      /\ \A i \in 1 .. 4 : e[i] = h[i]
      /\ \A i \in 1 .. d : e[4 + i] = t[i]
      /\ \A i \in 1 .. n : e[4 + d + i] = u[i]
      /\ e[4 + d + n + 1] = w[1] /\ e[4 + d + n + 2] = w[2]
  <2>1. e \in Seq(Byte) /\ Len(e) = 4 + d + n + 2
    BY <1>7 DEF Places
  <2>2. \A i \in 1 .. 4 + d : e[i] = p[i]
    BY <1>5, <1>7 DEF Places
  <2>3. \A i \in 1 .. n : e[4 + d + i] = u[i]
    BY <1>5, <1>7 DEF Places
  <2>4. e[4 + d + n + 1] = w[1] /\ e[4 + d + n + 2] = w[2]
    BY <1>7 DEF Places
  <2>5. /\ \A i \in 1 .. 4 : e[i] = h[i]
        /\ \A i \in 1 .. d : e[4 + i] = t[i]
    <3>1. /\ \A i \in 1 .. 4 : i \in 1 .. 4 + d
          /\ \A i \in 1 .. d : 4 + i \in 1 .. 4 + d
      OBVIOUS
    <3>2. /\ \A i \in 1 .. 4 : p[i] = h[i]
          /\ \A i \in 1 .. d : p[4 + i] = t[i]
      BY <1>3 DEF Places
    <3>3. QED BY <2>2, <3>1, <3>2
  <2>6. QED BY <2>1, <2>3, <2>4, <2>5
<1>9. IsRequest(e, v, c, r, y, t, d, u, n, w)
  BY <1>1, <1>8 DEF IsRequest
<1>10. QED BY <1>9 DEF e, q, p, h

LEMMA RequestBytes ==
    ASSUME NEW m \in Requests
    PROVE  LET e == EncodeRequest(m)
               d == IF m.atyp = DOMAIN_NAME THEN 5 ELSE 4
               n == Len(m.host) IN
           /\ e \in Seq(Byte) /\ n \in Nat /\ Len(e) = d + n + 2
           /\ e[1] = m.ver /\ e[2] = m.cmd /\ e[3] = m.rsv /\ e[4] = m.atyp
           /\ m.atyp = DOMAIN_NAME => e[5] = n
           /\ \A i \in 1 .. n : e[d + i] = m.host[i]
           /\ e[d + n + 1] = m.port[1] /\ e[d + n + 2] = m.port[2]
<1>1. /\ m.ver \in Byte /\ m.cmd \in Byte /\ m.rsv \in Byte /\ m.atyp \in Byte
      /\ m.host \in Seq(Byte) /\ Len(m.host) \in Nat
  BY RequestsAssumption
<1>2. m.port \in Seq(Byte) /\ Len(m.port) = 2
  <2>1. PICK hi \in Byte, lo \in Byte : m.port = <<hi, lo>>
    BY RequestsAssumption
  <2>2. QED BY <2>1
<1> DEFINE v == m.ver
           c == m.cmd
           r == m.rsv
           y == m.atyp
           u == m.host
           w == m.port
           n == Len(u)
           t == IF y = DOMAIN_NAME THEN <<n>> ELSE <<>>
           d == IF y = DOMAIN_NAME THEN 1 ELSE 0
           e == <<v, c, r, y>> \o t \o u \o w
<1>3. EncodeRequest(m) = e
  BY DEF EncodeRequest
<1>4. t \in Seq(Byte) /\ Len(t) = d /\ (y = DOMAIN_NAME => t[1] = n)
  <2>1. CASE y = DOMAIN_NAME
    <3>1. m.host \in Text
      BY <2>1, RequestsAssumption
    <3>2. n \in Byte
      BY <3>1 DEF Text, Byte
    <3>3. QED BY <2>1, <3>2
  <2>2. CASE y # DOMAIN_NAME
    BY <2>2
  <2>3. QED BY <2>1, <2>2
<1>5. /\ d \in Nat /\ v \in Byte /\ c \in Byte /\ r \in Byte /\ y \in Byte
      /\ u \in Seq(Byte) /\ n \in Nat /\ Len(u) = n /\ w \in Seq(Byte) /\ Len(w) = 2
  BY <1>1, <1>2
<1>6. (y = DOMAIN_NAME => d = 1) /\ 4 + d = IF y = DOMAIN_NAME THEN 5 ELSE 4
  OBVIOUS
<1> HIDE DEF v, c, r, y, u, w, n, t, d
<1>7. IsRequest(e, v, c, r, y, t, d, u, n, w)
  BY <1>4, <1>5, RequestLayout
<1> HIDE DEF e
<1>8. y = DOMAIN_NAME => e[5] = n
  BY <1>4, <1>6, <1>7 DEF IsRequest
<1>9. QED BY <1>3, <1>5, <1>6, <1>7, <1>8 DEF IsRequest, v, c, r, y, u, w, n

\* A greeting that is complete in the buffer was received in full, unless it is
\* of another version, and offers what the client put in it.
LEMMA GreetingJudged ==
    ASSUME NEW m \in Greetings, NEW b \in Buffers, NEW len \in 0 .. BufferSize,
           Holds(b, len, EncodeGreeting(m)), ~ GreetingIsIncomplete(b, len)
    PROVE  /\ b[0] = m.ver
           /\ m.ver = VERSION =>
                 /\ len = Len(EncodeGreeting(m))
                 /\ \A x : ClientOffers(b, x) <=> \E i \in 1 .. Len(m.methods) : m.methods[i] = x
<1> DEFINE e == EncodeGreeting(m)
           n == Len(m.methods)
<1>1. /\ Len(e) = 2 + n /\ e[1] = m.ver /\ e[2] = n
      /\ \A i \in 1 .. n : e[2 + i] = m.methods[i]
  BY GreetingBytes
<1>2. n \in Nat /\ len \in Nat
  BY GreetingsAssumption, BufferSizeAssumption DEF Text
<1>3. len >= 2
  BY <1>2 DEF GreetingIsIncomplete
<1>4. len =< Len(e) /\ \A i \in 0 .. len - 1 : b[i] = e[i + 1]
  BY DEF Holds
<1> HIDE DEF e, n
<1>5. b[0] = m.ver /\ b[1] = n
  BY <1>1, <1>2, <1>3, <1>4
<1>6. ASSUME m.ver = VERSION
      PROVE  /\ len = Len(e)
             /\ \A x : ClientOffers(b, x) <=> \E i \in 1 .. n : m.methods[i] = x
  <2>1. len >= 2 + n
    BY <1>2, <1>5, <1>6 DEF GreetingIsIncomplete
  <2>2. len = Len(e)
    BY <1>1, <1>2, <1>4, <2>1
  <2>3. \A i \in 1 .. n : 1 + i \in 0 .. len - 1 /\ 1 + i + 1 = 2 + i
    BY <1>2, <2>1
  <2>4. \A i \in 1 .. n : b[1 + i] = m.methods[i]
    BY <1>1, <1>4, <2>3
  <2>5. QED BY <1>5, <2>2, <2>4 DEF ClientOffers
<1>7. QED BY <1>5, <1>6 DEF e, n

\* The slice of a buffer that repeats a text.
LEMMA SliceIsText ==
    ASSUME NEW s \in Seq(Byte), NEW n \in Nat, Len(s) = n, NEW b, NEW i \in Nat,
           \A k \in 1 .. n : b[i + k - 1] = s[k]
    PROVE  Bytes(b, i, n) = s
<1>1. s = [k \in 1 .. n |-> s[k]]
  OBVIOUS
<1>2. QED BY <1>1 DEF Bytes

\* As GreetingJudged, for a login: it carries the name and the password the
\* client put in it.
LEMMA LoginJudged ==
    ASSUME NEW m \in Logins, NEW b \in Buffers, NEW len \in 0 .. BufferSize, NEW table,
           Holds(b, len, EncodeLogin(m)), ~ AuthIsIncomplete(b, len)
    PROVE  /\ Authenticated(b, table) <=> m.ver = AUTH_VERSION /\ <<m.user, m.pass>> \in table
           /\ m.ver = AUTH_VERSION => len = Len(EncodeLogin(m))
<1> DEFINE e == EncodeLogin(m)
           n == Len(m.user)
           k == Len(m.pass)
<1>1. IsLogin(e, m.ver, m.user, n, m.pass, k)
  BY LoginBytes
<1>2. n \in Nat /\ k \in Nat /\ len \in Nat /\ m.user \in Seq(Byte) /\ m.pass \in Seq(Byte)
      /\ Len(m.user) = n /\ Len(m.pass) = k
  BY LoginsAssumption, BufferSizeAssumption DEF Text
<1>3. len >= 2
  BY <1>2 DEF AuthIsIncomplete
<1>4. len =< Len(e) /\ \A i \in 0 .. len - 1 : b[i] = e[i + 1]
  BY DEF Holds
<1> HIDE DEF e, n, k
<1>5. b[0] = m.ver /\ b[1] = n
  BY <1>1, <1>2, <1>3, <1>4 DEF IsLogin
<1>6. CASE m.ver # AUTH_VERSION
  BY <1>5, <1>6 DEF Authenticated
<1>7. CASE m.ver = AUTH_VERSION
  <2>1. PasswordLenIndex(b) = 2 + n
    BY <1>5 DEF PasswordLenIndex
  <2>2. len >= 2 + n + 1
    BY <1>2, <1>5, <1>7, <2>1 DEF AuthIsIncomplete
  <2>3. 2 + n \in 0 .. len - 1 /\ 2 + n + 1 = 3 + n
    BY <1>2, <2>2
  <2>4. b[2 + n] = k
    BY <1>1, <1>4, <2>3 DEF IsLogin
  <2>5. len >= 3 + n + k
    BY <1>2, <1>5, <1>7, <2>1, <2>2, <2>4 DEF AuthIsIncomplete, ExpectedLen
  <2>6. len = Len(e)
    BY <1>1, <1>2, <1>4, <2>5 DEF IsLogin
  <2>7. Username(b) = m.user
    <3>1. \A i \in 1 .. n : 2 + i - 1 \in 0 .. len - 1 /\ 2 + i - 1 + 1 = 2 + i
      BY <1>2, <2>5
    <3>2. \A i \in 1 .. n : b[2 + i - 1] = m.user[i]
      BY <1>1, <1>4, <3>1 DEF IsLogin
    <3>3. Bytes(b, 2, n) = m.user
      BY <1>2, <3>2, 2 \in Nat, SliceIsText
    <3>4. QED BY <1>5, <3>3 DEF Username
  <2>8. Password(b) = m.pass
    <3>1. \A i \in 1 .. k : 3 + n + i - 1 \in 0 .. len - 1 /\ 3 + n + i - 1 + 1 = 3 + n + i
      BY <1>2, <2>5
    <3>2. \A i \in 1 .. k : b[3 + n + i - 1] = m.pass[i]
      BY <1>1, <1>4, <3>1 DEF IsLogin
    <3>3. 3 + n \in Nat
      BY <1>2
    <3>4. PICK j \in Nat : j = 3 + n
      BY <3>3
    <3>5. \A i \in 1 .. k : b[j + i - 1] = m.pass[i]
      BY <3>2, <3>4
    <3>6. Bytes(b, j, k) = m.pass
      BY <1>2, <3>5, SliceIsText
    <3>7. QED BY <2>1, <2>3, <2>4, <3>4, <3>6 DEF Password
  <2>9. QED BY <1>5, <1>7, <2>6, <2>7, <2>8 DEF Authenticated, e
<1>8. QED BY <1>6, <1>7

\* As GreetingJudged, for a request: it is accepted just when nothing is wrong
\* with it, refused for what is wrong with it, and leads where the client asked.
LEMMA RequestJudged ==
    ASSUME NEW m \in Requests, NEW b \in Buffers, NEW len \in 0 .. BufferSize,
           Holds(b, len, EncodeRequest(m)), ~ socks5_request_is_incomplete(b, len)
    PROVE  LET reply == socks5_request_reply_for(b, len) IN
           /\ IsConnectRequest(b, len) => Fault(m) = {} /\ Destination(b) = Asked(m)
           /\ ~ IsConnectRequest(b, len) =>
                 Fault(m) = {IF reply = SUCCESS THEN GENERAL_FAILURE ELSE reply}
<1> DEFINE e == EncodeRequest(m)
           n == Len(m.host)
           d == IF m.atyp = DOMAIN_NAME THEN 5 ELSE 4
           reply == socks5_request_reply_for(b, len)
<1>1. /\ Len(e) = d + n + 2
      /\ e[1] = m.ver /\ e[2] = m.cmd /\ e[3] = m.rsv /\ e[4] = m.atyp
      /\ m.atyp = DOMAIN_NAME => e[5] = n
      /\ \A i \in 1 .. n : e[d + i] = m.host[i]
      /\ e[d + n + 1] = m.port[1] /\ e[d + n + 2] = m.port[2]
  BY RequestBytes
<1>2. n \in Nat /\ len \in Nat /\ m.host \in Seq(Byte) /\ Len(m.host) = n
  BY RequestsAssumption, BufferSizeAssumption
<1>3. len >= 4
  BY <1>2 DEF socks5_request_is_incomplete
<1>4. len =< Len(e) /\ \A i \in 0 .. len - 1 : b[i] = e[i + 1]
  BY DEF Holds
<1>5. d = IF m.atyp = DOMAIN_NAME THEN 5 ELSE 4
  OBVIOUS
<1> HIDE DEF e, n, d
<1>6. b[0] = m.ver /\ b[1] = m.cmd /\ b[2] = m.rsv /\ b[3] = m.atyp
  <2>1. \A i \in 0 .. 3 : i \in 0 .. len - 1
    BY <1>2, <1>3
  <2>2. \A i \in 0 .. 3 : b[i] = e[i + 1]
    BY <1>4, <2>1
  <2>3. b[0] = e[1] /\ b[1] = e[2] /\ b[2] = e[3] /\ b[3] = e[4]
    BY <2>2
  <2>4. QED BY <1>1, <2>3
<1>7. m.atyp = DOMAIN_NAME => len >= 5 /\ b[4] = n
  <2>1. m.atyp = DOMAIN_NAME => len >= 5
    BY <1>2, <1>6 DEF socks5_request_is_incomplete
  <2>2. QED BY <1>1, <1>2, <1>4, <2>1
<1>8. n = 0 <=> m.host = <<>>
  BY <1>2
<1>9. ASSUME m.atyp \in {IPV4, IPV6, DOMAIN_NAME}
      PROVE  len >= d + n + 2
  <2>1. CASE m.atyp = IPV4
    <3>1. n = 4 /\ d = 4 /\ len >= 10
      BY <1>2, <1>5, <1>6, <2>1, RequestsAssumption
         DEF socks5_request_is_incomplete, IPV4, DOMAIN_NAME, IPV4_REQUEST_SIZE, n
    <3>2. QED BY <3>1
  <2>2. CASE m.atyp = IPV6
    <3>1. n = 16 /\ d = 4 /\ len >= 22
      BY <1>2, <1>5, <1>6, <2>2, RequestsAssumption
         DEF socks5_request_is_incomplete, IPV6, DOMAIN_NAME, IPV6_REQUEST_SIZE, n
    <3>2. QED BY <3>1
  <2>3. CASE m.atyp = DOMAIN_NAME
    BY <1>2, <1>5, <1>6, <1>7, <2>3 DEF socks5_request_is_incomplete
  <2>4. QED BY <1>9, <2>1, <2>2, <2>3
<1>10. ASSUME m.atyp \in {IPV4, IPV6, DOMAIN_NAME}
       PROVE  /\ Bytes(b, d, n) = m.host
              /\ Port(b, d + n) = (MaxByte + 1) * m.port[1] + m.port[2]
  <2>1. len >= d + n + 2 /\ d \in Nat
    BY <1>5, <1>9, <1>10
  <2>2. \A i \in 1 .. n : d + i - 1 \in 0 .. len - 1 /\ d + i - 1 + 1 = d + i
    BY <1>2, <2>1
  <2>3. \A i \in 1 .. n : b[d + i - 1] = m.host[i]
    BY <1>1, <1>4, <2>2
  <2>4. Bytes(b, d, n) = m.host
    BY <1>2, <2>1, <2>3, SliceIsText
  <2>5. d + n \in 0 .. len - 1 /\ d + n + 1 \in 0 .. len - 1 /\ d + n + 1 + 1 = d + n + 2
    BY <1>2, <2>1
  <2>6. b[d + n] = m.port[1] /\ b[d + n + 1] = m.port[2]
    BY <1>1, <1>4, <2>5
  <2>7. QED BY <2>4, <2>6 DEF Port
<1>11. ASSUME IsConnectRequest(b, len)
       PROVE  Fault(m) = {} /\ Destination(b) = Asked(m)
  <2>1. /\ m.ver = VERSION /\ m.rsv = 0 /\ m.cmd = CMD_CONNECT
        /\ m.atyp \in {IPV4, IPV6, DOMAIN_NAME}
        /\ m.atyp = DOMAIN_NAME => n # 0
    BY <1>6, <1>7, <1>11 DEF IsConnectRequest, socks5_request_reply_for, SUCCESS, GENERAL_FAILURE,
                             COMMAND_NOT_SUPPORTED, ADDRESS_TYPE_NOT_SUPPORTED
  <2>2. Fault(m) = {}
    BY <1>8, <2>1 DEF Fault
  <2>3. CASE m.atyp = IPV4
    <3>1. n = 4 /\ d = 4
      BY <1>5, <2>3, RequestsAssumption DEF IPV4, DOMAIN_NAME, n
    <3>2. d + n = 8
      BY <3>1
    <3>3. Bytes(b, 4, 4) = m.host /\ Port(b, 8) = (MaxByte + 1) * m.port[1] + m.port[2]
      BY <1>10, <2>1, <3>1, <3>2
    <3>4. b[3] = IPV4 /\ m.atyp # DOMAIN_NAME /\ b[3] # IPV6
      BY <1>6, <2>3 DEF IPV4, IPV6, DOMAIN_NAME
    <3>5. QED BY <2>2, <2>3, <3>3, <3>4 DEF Destination, Asked
  <2>4. CASE m.atyp = IPV6
    <3>1. n = 16 /\ d = 4
      BY <1>5, <2>4, RequestsAssumption DEF IPV6, DOMAIN_NAME, n
    <3>2. d + n = 20
      BY <3>1
    <3>3. Bytes(b, 4, 16) = m.host /\ Port(b, 20) = (MaxByte + 1) * m.port[1] + m.port[2]
      BY <1>10, <2>1, <3>1, <3>2
    <3>4. b[3] = IPV6 /\ m.atyp # DOMAIN_NAME /\ b[3] # IPV4
      BY <1>6, <2>4 DEF IPV4, IPV6, DOMAIN_NAME
    <3>5. QED BY <2>2, <2>4, <3>3, <3>4 DEF Destination, Asked
  <2>5. CASE m.atyp = DOMAIN_NAME
    <3>1. d = 5 /\ b[4] = n
      BY <1>5, <1>7, <2>5
    <3>2. Bytes(b, 5, b[4]) = m.host
          /\ Port(b, 5 + b[4]) = (MaxByte + 1) * m.port[1] + m.port[2]
      BY <1>10, <2>1, <3>1
    <3>3. b[3] = DOMAIN_NAME /\ b[3] # IPV4 /\ b[3] # IPV6
      BY <1>6, <2>5 DEF IPV4, IPV6, DOMAIN_NAME
    <3>4. QED BY <2>2, <2>5, <3>2, <3>3 DEF Destination, Asked
  <2>6. QED BY <2>1, <2>3, <2>4, <2>5
<1>12. ASSUME ~ IsConnectRequest(b, len)
       PROVE  Fault(m) = {IF reply = SUCCESS THEN GENERAL_FAILURE ELSE reply}
  <2>1. ~ len < 4
    BY <1>2, <1>3
  <2>2. CASE m.ver # VERSION \/ m.rsv # 0
    BY <1>6, <2>1, <2>2 DEF Fault, socks5_request_reply_for, SUCCESS, GENERAL_FAILURE
  <2>3. CASE m.ver = VERSION /\ m.rsv = 0 /\ m.cmd # CMD_CONNECT
    BY <1>6, <2>1, <2>3 DEF Fault, socks5_request_reply_for, SUCCESS, COMMAND_NOT_SUPPORTED
  <2>4. CASE /\ m.ver = VERSION /\ m.rsv = 0 /\ m.cmd = CMD_CONNECT
             /\ m.atyp \notin {IPV4, IPV6, DOMAIN_NAME}
    BY <1>6, <2>1, <2>4 DEF Fault, socks5_request_reply_for, SUCCESS, ADDRESS_TYPE_NOT_SUPPORTED
  <2>5. CASE /\ m.ver = VERSION /\ m.rsv = 0 /\ m.cmd = CMD_CONNECT
             /\ m.atyp \in {IPV4, IPV6, DOMAIN_NAME}
    <3>1. reply = SUCCESS
      BY <1>6, <2>1, <2>5 DEF socks5_request_reply_for
    <3>2. m.atyp = DOMAIN_NAME /\ n = 0
      BY <1>6, <1>7, <1>12, <3>1 DEF IsConnectRequest
    <3>3. QED BY <1>8, <2>5, <3>1, <3>2 DEF Fault
  <2>6. QED BY <2>2, <2>3, <2>4, <2>5
<1>13. QED BY <1>11, <1>12

-----------------------------------------------------------------------------
(* The conversation *)

\* The message the client has sent, and the stage that reads one of its kind.
Sent ==
    CASE said.kind = "greeting" -> EncodeGreeting(said.msg)
      [] said.kind = "login" -> EncodeLogin(said.msg)
      [] said.kind = "request" -> EncodeRequest(said.msg)
      [] OTHER -> <<>>
StageOf(kind) ==
    CASE kind = "greeting" -> "GREETING" [] kind = "login" -> "AUTH" [] OTHER -> "REQUEST"

\* What has been read, and after it what is on the wire, is the message from its
\* first byte on.
Receiving ==
    /\ read_len + Len(wire) =< Len(Sent)
    /\ \A i \in 0 .. read_len - 1 : read_buffer[i] = Sent[i + 1]
    /\ \A i \in 1 .. Len(wire) : wire[i] = Sent[read_len + i]

\* A session that reads waits for the client to say something, or is receiving
\* what it said.
Quiet == read_len = 0 /\ wire = <<>>
Listening ==
    \/ Quiet /\ stage = "GREETING" /\ said = Nothing
    \/ Quiet /\ stage # "CLOSING" /\ seen # <<>>
    \/ Receiving /\ seen = <<>> /\ said # Nothing /\ stage = StageOf(said.kind)

\* There is something to send exactly while the session writes.
Sending ==
    /\ open /\ interest = "WRITE" => write_off < Len(write_buffer)
    /\ interest # "WRITE" => write_buffer = <<>> /\ write_off = 0

\* JudgedAsSent, with what it takes to be preserved.
Conversation ==
    ~ ahead =>
        /\ JudgedAsSent /\ Sending
        /\ interest = "NOOP" <=> stage \in Handed
        /\ destination # Nowhere => stage \in Handed \cup {"CLOSING"}
        /\ open /\ interest = "READ" => Listening
        /\ open /\ interest = "WRITE" /\ stage # "CLOSING" => wire = <<>>

\* What is still to be sent, and all the session answers.
Unsent == SubSeq(write_buffer, write_off + 1, Len(write_buffer))
Reply == seen \o Unsent

\* The kinds of message there are.
LEMMA Kinds ==
    ASSUME said \in Messages
    PROVE  /\ said.kind \in {"nothing", "greeting", "login", "request"}
           /\ said.kind = "nothing" <=> said = Nothing
           /\ said.kind = "greeting" => said.msg \in Greetings
           /\ said.kind = "login" => said.msg \in Logins
           /\ said.kind = "request" => said.msg \in Requests
BY DEF Messages, Nothing

\* The answer is empty when nothing was sent and nothing is to be sent.
LEMMA ReplyParts ==
    ASSUME IInv
    PROVE  /\ Unsent \in Seq(Byte) /\ Len(Unsent) = Len(write_buffer) - write_off
           /\ Reply \in Seq(Byte) /\ Len(Reply) = Len(seen) + Len(write_buffer) - write_off
           /\ Len(seen) \in Nat /\ Len(write_buffer) - write_off \in Nat
           /\ (write_buffer = <<>> /\ write_off = 0) => Reply = seen
<1>1. write_buffer \in Seq(Byte) /\ write_off \in Nat /\ write_off =< Len(write_buffer)
      /\ seen \in Seq(Byte)
  BY DEF IInv, TypeOK, Replying
<1>2. Unsent \in Seq(Byte) /\ Len(Unsent) = Len(write_buffer) - write_off
  BY <1>1 DEF Unsent
<1>3. Reply \in Seq(Byte) /\ Len(Reply) = Len(seen) + Len(Unsent)
  BY <1>1, <1>2 DEF Reply
<1>4. Len(seen) \in Nat /\ Len(write_buffer) - write_off \in Nat
  BY <1>1
<1>5. ASSUME write_buffer = <<>>, write_off = 0
      PROVE  Reply = seen
  <2>1. Unsent = <<>>
    BY <1>5 DEF Unsent
  <2>2. QED BY <1>1, <2>1 DEF Reply
<1>6. QED BY <1>2, <1>3, <1>4, <1>5

\* A greeting and a login are answered with two bytes, nothing with none.
LEMMA DeservedLengths ==
    ASSUME said \in Messages, NEW d \in Deserved
    PROVE  /\ said.kind # "nothing"
           /\ said.kind \in {"greeting", "login"} => Len(d[1]) = 2
<1>1. said.kind # "nothing"
  BY DEF Deserved
<1>2. CASE said.kind = "greeting"
  BY <1>2 DEF Deserved, GreetingResponse
<1>3. CASE said.kind = "login"
  BY <1>3 DEF Deserved, AuthResponse
<1>4. QED BY <1>1, <1>2, <1>3

\* A session whose client has nothing to wait for is waiting for the client, in
\* the stage its last answer announced.
LEMMA ClientsTurn ==
    ASSUME IInv, Conversation, ~ ahead, open,
           \/ said = Nothing
           \/ said.kind \in {"greeting", "login"} /\ Len(seen) = 2
    PROVE  /\ interest = "READ" /\ Quiet /\ write_buffer = <<>> /\ write_off = 0
           /\ destination = Nowhere
           /\ said = Nothing => stage = "GREETING"
           /\ said # Nothing => <<seen, stage>> \in Deserved
<1>1. said \in Messages /\ said.kind # "request"
  BY Kinds DEF IInv, TypeOK, Nothing
<1>2. stage \notin Handed
  BY <1>1 DEF Conversation, JudgedAsSent
<1>3. Reply # <<>> => <<Reply, stage>> \in Deserved
  BY DEF Conversation, JudgedAsSent, Reply, Unsent
<1>4. interest # "WRITE"
  <2> SUFFICES ASSUME interest = "WRITE" PROVE FALSE
    OBVIOUS
  <2>1. write_off < Len(write_buffer)
    BY DEF Conversation, Sending
  <2>2. Len(Reply) > Len(seen) /\ Len(seen) \in Nat /\ Len(Reply) \in Nat
    BY <2>1, ReplyParts DEF IInv, TypeOK
  <2>3. <<Reply, stage>> \in Deserved
    BY <1>3, <2>2
  <2>4. said.kind # "nothing" /\ Len(Reply) = 2
    BY <1>1, <2>3, DeservedLengths, Kinds DEF Nothing
  <2>5. QED BY <1>1, <2>2, <2>4, Kinds
<1>5. interest = "READ" /\ write_buffer = <<>> /\ write_off = 0
  BY <1>2, <1>4 DEF Conversation, Sending, IInv, TypeOK
<1>6. Reply = seen /\ seen \in Seq(Byte)
  BY <1>5, ReplyParts DEF IInv, TypeOK
<1>7. Listening
  BY <1>5 DEF Conversation
<1>8. CASE said = Nothing
  <2>1. seen = <<>>
    BY <1>1, <1>3, <1>6, <1>8, DeservedLengths, Kinds
  <2>2. Quiet /\ stage = "GREETING"
    BY <1>7, <1>8, <2>1 DEF Listening
  <2>3. QED BY <1>2, <1>5, <1>8, <2>2 DEF Conversation
<1>9. CASE said # Nothing
  <2>1. seen # <<>>
    BY <1>9
  <2>2. Quiet /\ stage # "CLOSING"
    BY <1>7, <1>9, <2>1 DEF Listening
  <2>3. <<seen, stage>> \in Deserved
    BY <1>3, <1>6, <2>1
  <2>4. QED BY <1>2, <1>5, <1>9, <2>2, <2>3 DEF Conversation
<1>10. QED BY <1>8, <1>9

\* The client says something, when it is its turn and to a session that expects
\* a message of that kind.
LEMMA SaysStep ==
    ASSUME IInv, Conversation,
           NEW kind \in {"greeting", "login", "request"}, NEW m, NEW bytes \in Seq(Byte),
           Says(kind, m, bytes),
           bytes = CASE kind = "greeting" -> EncodeGreeting(m)
                     [] kind = "login" -> EncodeLogin(m)
                     [] kind = "request" -> EncodeRequest(m),
           ~ ahead => /\ interest = "READ" /\ Quiet /\ write_buffer = <<>> /\ write_off = 0
                      /\ destination = Nowhere /\ stage = StageOf(kind)
    PROVE  Conversation'
<1> SUFFICES ASSUME ~ ahead'
             PROVE  /\ JudgedAsSent' /\ Sending'
                    /\ (interest = "NOOP" <=> stage \in Handed)'
                    /\ (destination # Nowhere => stage \in Handed \cup {"CLOSING"})'
                    /\ (open /\ interest = "READ" => Listening)'
                    /\ (open /\ interest = "WRITE" /\ stage # "CLOSING" => wire = <<>>)'
  BY DEF Conversation
<1>1. PICK a \in Ahead : wire' = wire \o bytes \o a /\ ahead' = (ahead \/ a # <<>>)
  BY DEF Says
<1>2. ~ ahead /\ a = <<>>
  BY <1>1
<1>3. /\ interest = "READ" /\ Quiet /\ write_buffer = <<>> /\ write_off = 0
      /\ destination = Nowhere /\ stage = StageOf(kind)
  BY <1>2
<1>4. wire' = bytes
  BY <1>1, <1>2, <1>3 DEF Quiet
<1>5. /\ said' = [kind |-> kind, msg |-> m] /\ seen' = <<>>
      /\ UNCHANGED <<stage, open, interest, read_len, read_buffer, write_buffer, write_off,
                     destination>>
  BY DEF Says, readVars, writeVars
<1>6. said'.kind = kind /\ said'.msg = m
  BY <1>5
<1>7. Sent' = bytes
  BY <1>6 DEF Sent
<1>8. said' # Nothing
  BY <1>6 DEF Nothing
<1>9. stage \notin Handed /\ stage # "CLOSING"
  BY <1>3 DEF StageOf, Handed
<1>10. Listening'
  <2>1. read_len' = 0
    BY <1>3, <1>5 DEF Quiet
  <2>2. Receiving'
    BY <1>4, <1>7, <2>1 DEF Receiving
  <2>3. stage' = StageOf(said'.kind)
    BY <1>3, <1>5, <1>6
  <2>4. QED BY <1>5, <1>8, <2>2, <2>3 DEF Listening
<1>11. JudgedAsSent'
  <2>1. (seen \o SubSeq(write_buffer, write_off + 1, Len(write_buffer)))' = <<>>
    BY <1>3, <1>5
  <2>2. QED BY <1>3, <1>5, <1>9, <2>1 DEF JudgedAsSent
<1>12. QED BY <1>3, <1>5, <1>9, <1>10, <1>11 DEF Sending

\* The client's steps: it speaks in turn, or leaves.
LEMMA ClientConverses ==
    ASSUME IInv, Conversation, ClientGreets \/ ClientLogsIn \/ ClientRequests \/ ClientLeaves
    PROVE  Conversation'
<1>1. CASE ClientGreets
  <2>1. PICK m \in Greetings : Says("greeting", m, EncodeGreeting(m))
    BY <1>1 DEF ClientGreets
  <2>2. said = Nothing /\ open
    BY <1>1, <2>1 DEF ClientGreets, Says
  <2>3. ~ ahead => /\ interest = "READ" /\ Quiet /\ write_buffer = <<>> /\ write_off = 0
                   /\ destination = Nowhere /\ stage = StageOf("greeting")
    BY <2>2, ClientsTurn DEF StageOf
  <2>4. EncodeGreeting(m) \in Seq(Byte)
    BY MessagesAreBytes
  <2>5. QED BY <2>1, <2>3, <2>4, SaysStep
<1>2. CASE ClientLogsIn
  <2>1. PICK m \in Logins : Says("login", m, EncodeLogin(m))
    BY <1>2 DEF ClientLogsIn
  <2>2. said.kind = "greeting" /\ open /\ seen = GreetingResponse(USERNAME_PASSWORD)
    BY <1>2, <2>1 DEF ClientLogsIn, Says
  <2>3. said # Nothing /\ Len(seen) = 2
    BY <2>2 DEF Nothing, GreetingResponse
  <2>4. ASSUME ~ ahead
        PROVE  /\ interest = "READ" /\ Quiet /\ write_buffer = <<>> /\ write_off = 0
               /\ destination = Nowhere /\ stage = StageOf("login")
    <3>1. /\ interest = "READ" /\ Quiet /\ write_buffer = <<>> /\ write_off = 0
          /\ destination = Nowhere /\ <<seen, stage>> \in Deserved
      BY <2>2, <2>3, <2>4, ClientsTurn
    <3>2. <<seen, stage>> = <<GreetingResponse(Method(said.msg)),
                              CASE Method(said.msg) = USERNAME_PASSWORD -> "AUTH"
                                [] Method(said.msg) = NO_AUTH -> "REQUEST"
                                [] OTHER -> "CLOSING">>
      BY <2>2, <3>1 DEF Deserved
    <3>3. Method(said.msg) = USERNAME_PASSWORD
      BY <2>2, <3>2 DEF GreetingResponse
    <3>4. stage = "AUTH"
      BY <3>2, <3>3 DEF USERNAME_PASSWORD, NO_AUTH
    <3>5. QED BY <3>1, <3>4 DEF StageOf
  <2>5. EncodeLogin(m) \in Seq(Byte)
    BY MessagesAreBytes
  <2>6. QED BY <2>1, <2>4, <2>5, SaysStep
<1>3. CASE ClientRequests
  <2>1. PICK m \in Requests : Says("request", m, EncodeRequest(m))
    BY <1>3 DEF ClientRequests
  <2>2. /\ open
        /\ \/ said.kind = "greeting" /\ seen = GreetingResponse(NO_AUTH)
           \/ said.kind = "login" /\ seen = AuthResponse(AUTH_SUCCESS)
    BY <1>3, <2>1 DEF ClientRequests, Says
  <2>3. said.kind \in {"greeting", "login"} /\ said # Nothing /\ Len(seen) = 2
    BY <2>2 DEF Nothing, GreetingResponse, AuthResponse
  <2>4. ASSUME ~ ahead
        PROVE  /\ interest = "READ" /\ Quiet /\ write_buffer = <<>> /\ write_off = 0
               /\ destination = Nowhere /\ stage = StageOf("request")
    <3>1. /\ interest = "READ" /\ Quiet /\ write_buffer = <<>> /\ write_off = 0
          /\ destination = Nowhere /\ <<seen, stage>> \in Deserved
      BY <2>2, <2>3, <2>4, ClientsTurn
    <3>2. CASE said.kind = "greeting" /\ seen = GreetingResponse(NO_AUTH)
      <4>1. <<seen, stage>> = <<GreetingResponse(Method(said.msg)),
                                CASE Method(said.msg) = USERNAME_PASSWORD -> "AUTH"
                                  [] Method(said.msg) = NO_AUTH -> "REQUEST"
                                  [] OTHER -> "CLOSING">>
        BY <3>1, <3>2 DEF Deserved
      <4>2. Method(said.msg) = NO_AUTH
        BY <3>2, <4>1 DEF GreetingResponse
      <4>3. stage = "REQUEST"
        BY <4>1, <4>2 DEF USERNAME_PASSWORD, NO_AUTH
      <4>4. QED BY <3>1, <4>3 DEF StageOf
    <3>3. CASE said.kind = "login" /\ seen = AuthResponse(AUTH_SUCCESS)
      <4>1. <<seen, stage>> = (IF Welcome(said.msg) THEN <<AuthResponse(AUTH_SUCCESS), "REQUEST">>
                                                    ELSE <<AuthResponse(AUTH_FAILURE), "CLOSING">>)
        BY <3>1, <3>3 DEF Deserved
      <4>2. stage = "REQUEST"
        BY <3>3, <4>1 DEF AuthResponse, AUTH_SUCCESS, AUTH_FAILURE
      <4>3. QED BY <3>1, <4>2 DEF StageOf
    <3>4. QED BY <2>2, <3>2, <3>3
  <2>5. EncodeRequest(m) \in Seq(Byte)
    BY MessagesAreBytes
  <2>6. QED BY <2>1, <2>4, <2>5, SaysStep
<1>4. CASE ClientLeaves
  <2>1. /\ UNCHANGED <<users, stage, open, interest, read_len, read_buffer, write_buffer, write_off,
                       destination, said, seen, ahead>>
        /\ wire' \in {wire, <<>>}
    BY <1>4 DEF ClientLeaves, readVars, writeVars
  <2>2. Listening => Listening'
    <3>1. Quiet => Quiet'
      BY <2>1 DEF Quiet
    <3>2. Sent' = Sent
      BY <2>1 DEF Sent
    <3>3. Receiving => Receiving'
      BY <2>1, <3>2 DEF Receiving, IInv, TypeOK
    <3>4. QED BY <2>1, <3>1, <3>3 DEF Listening
  <2>3. JudgedAsSent => JudgedAsSent'
    <3>1. Deserved' = Deserved
      BY <2>1 DEF Deserved, Method, Welcome
    <3>2. QED BY <2>1, <3>1 DEF JudgedAsSent
  <2>4. QED BY <2>1, <2>2, <2>3 DEF Conversation, Sending
<1>5. QED BY <1>1, <1>2, <1>3, <1>4

\* Two slices of a sequence, joined.
LEMMA SlicesJoin ==
    ASSUME NEW s \in Seq(Byte), NEW w \in Seq(Byte), NEW i \in Nat, NEW n \in Nat, i + n =< Len(w)
    PROVE  (s \o SubSeq(w, i + 1, i + n)) \o SubSeq(w, i + n + 1, Len(w))
              = s \o SubSeq(w, i + 1, Len(w))
<1> DEFINE k == Len(w) - (i + n)
           a == SubSeq(w, i + 1, i + n)
           b == SubSeq(w, i + n + 1, Len(w))
           c == SubSeq(w, i + 1, Len(w))
<1>1. k \in Nat /\ n + k = Len(w) - i /\ n + k \in Nat /\ Len(s) \in Nat /\ Len(s) + n \in Nat
  OBVIOUS
<1>2. a \in Seq(Byte) /\ Len(a) = n /\ \A j \in 1 .. n : a[j] = w[i + j]
  OBVIOUS
<1>3. b \in Seq(Byte) /\ Len(b) = k /\ \A j \in 1 .. k : b[j] = w[i + n + j]
  OBVIOUS
<1>4. c \in Seq(Byte) /\ Len(c) = n + k /\ \A j \in 1 .. n + k : c[j] = w[i + j]
  OBVIOUS
<1> HIDE DEF k, a, b, c
<1>5. Places(s \o a, s, a, Len(s), n)
  BY <1>1, <1>2, Joined
<1>6. s \o a \in Seq(Byte) /\ Len(s \o a) = Len(s) + n
  BY <1>5 DEF Places
<1>7. Places((s \o a) \o b, s \o a, b, Len(s) + n, k)
  BY <1>1, <1>3, <1>6, Joined
<1>8. Places(s \o c, s, c, Len(s), n + k)
  BY <1>1, <1>4, Joined
<1> DEFINE l == (s \o a) \o b
           r == s \o c
           p == s \o a
<1> HIDE DEF l, r, p
<1>9. l \in Seq(Byte) /\ r \in Seq(Byte) /\ Len(l) = Len(s) + n + k /\ Len(r) = Len(s) + n + k
  BY <1>1, <1>7, <1>8 DEF Places, l, r
<1>10. ASSUME NEW j \in 1 .. Len(s) + n + k
       PROVE  l[j] = r[j]
  <2>1. CASE j =< Len(s)
    <3>1. j \in 1 .. Len(s) /\ j \in 1 .. Len(s) + n
      BY <1>1, <2>1
    <3>2. r[j] = s[j] /\ p[j] = s[j] /\ l[j] = p[j]
      BY <1>5, <1>7, <1>8, <3>1 DEF Places, l, r, p
    <3>3. QED BY <3>2
  <2>2. CASE j > Len(s) /\ j =< Len(s) + n
    <3>1. PICK q \in 1 .. n : j = Len(s) + q
      <4>1. j - Len(s) \in 1 .. n /\ j = Len(s) + (j - Len(s))
        BY <1>1, <2>2
      <4>2. QED BY <4>1
    <3>2. j \in 1 .. Len(s) + n /\ q \in 1 .. n + k
      BY <1>1, <2>2, <3>1
    <3>3. p[j] = a[q] /\ l[j] = p[j] /\ r[j] = c[q]
      BY <1>5, <1>7, <1>8, <3>1, <3>2 DEF Places, l, r, p
    <3>4. QED BY <1>2, <1>4, <3>2, <3>3
  <2>3. CASE j > Len(s) + n
    <3>1. PICK q \in 1 .. k : j = Len(s) + n + q
      <4>1. j - (Len(s) + n) \in 1 .. k /\ j = Len(s) + n + (j - (Len(s) + n))
        BY <1>1, <2>3
      <4>2. QED BY <4>1
    <3>2. n + q \in 1 .. n + k /\ j = Len(s) + (n + q) /\ i + (n + q) = i + n + q
      BY <1>1, <3>1
    <3>3. l[j] = b[q] /\ r[j] = c[n + q]
      BY <1>7, <1>8, <3>1, <3>2 DEF Places, l, r
    <3>4. QED BY <1>3, <1>4, <3>2, <3>3
  <2>4. QED BY <1>1, <2>1, <2>2, <2>3
<1>11. l = r
  BY <1>9, <1>10
<1>12. QED BY <1>11 DEF l, r, a, b, c

\* What leaves the buffer has arrived: sending changes nothing of the answer.
LEMMA WriteConverses ==
    ASSUME IInv, Conversation, client_write
    PROVE  Conversation'
<1> SUFFICES ASSUME ~ ahead'
             PROVE  /\ JudgedAsSent' /\ Sending'
                    /\ (interest = "NOOP" <=> stage \in Handed)'
                    /\ (destination # Nowhere => stage \in Handed \cup {"CLOSING"})'
                    /\ (open /\ interest = "READ" => Listening)'
                    /\ (open /\ interest = "WRITE" /\ stage # "CLOSING" => wire = <<>>)'
  BY DEF Conversation
<1>1. /\ UNCHANGED <<users, stage, read_len, read_buffer, destination, wire, said, ahead>>
      /\ open
  BY DEF client_write, WriteSome, WriteAll, WriteFails, Sends, Close, readVars, clientVars
<1>2. /\ JudgedAsSent /\ Sending
      /\ interest = "NOOP" <=> stage \in Handed
      /\ destination # Nowhere => stage \in Handed \cup {"CLOSING"}
      /\ open /\ interest = "WRITE" /\ stage # "CLOSING" => wire = <<>>
  BY <1>1 DEF Conversation
<1>3. Deserved' = Deserved
  BY <1>1 DEF Deserved, Method, Welcome
<1>4. /\ write_buffer \in Seq(Byte) /\ seen \in Seq(Byte) /\ write_off \in Nat
      /\ write_off =< Len(write_buffer)
  BY DEF IInv, TypeOK, Replying
<1>5. ASSUME Reply' = Reply
      PROVE  JudgedAsSent'
  <2>1. (seen \o SubSeq(write_buffer, write_off + 1, Len(write_buffer)))'
           = seen \o SubSeq(write_buffer, write_off + 1, Len(write_buffer))
    BY <1>5 DEF Reply, Unsent
  <2>2. QED BY <1>1, <1>2, <1>3, <2>1 DEF JudgedAsSent
<1>6. CASE WriteSome
  <2>1. PICK n \in 1 .. Len(write_buffer) - write_off - 1 :
           Sends(n) /\ write_off' = write_off + n
    BY <1>6 DEF WriteSome
  <2>2. write_buffer' = write_buffer /\ UNCHANGED <<open, interest>> /\ interest = "WRITE"
    BY <1>6 DEF WriteSome
  <2>3. n \in Nat /\ write_off + n < Len(write_buffer)
    BY <1>4, <2>1
  <2>4. Reply' = Reply
    <3>1. Reply' = (seen \o SubSeq(write_buffer, write_off + 1, write_off + n))
                     \o SubSeq(write_buffer, write_off + n + 1, Len(write_buffer))
      BY <2>1, <2>2 DEF Sends, Reply, Unsent
    <3>2. write_off + n =< Len(write_buffer)
      BY <1>4, <2>3
    <3>3. QED BY <1>4, <2>3, <3>1, <3>2, SlicesJoin DEF Reply, Unsent
  <2>5. JudgedAsSent' /\ Sending'
    BY <1>5, <2>1, <2>2, <2>3, <2>4 DEF Sending
  <2>6. QED BY <1>1, <1>2, <2>2, <2>5
<1>7. CASE WriteAll
  <2>1. /\ seen' = seen \o SubSeq(write_buffer, write_off + 1, write_off + (Len(write_buffer) - write_off))
        /\ write_buffer' = <<>> /\ write_off' = 0 /\ interest = "WRITE"
        /\ IF stage = "CLOSING" THEN open' = FALSE /\ UNCHANGED interest
                                ELSE interest' = "READ" /\ UNCHANGED open
    BY <1>7 DEF WriteAll, Sends
  <2>2. seen' = Reply
    <3>1. write_off + (Len(write_buffer) - write_off) = Len(write_buffer)
      BY <1>4
    <3>2. QED BY <2>1, <3>1 DEF Reply, Unsent
  <2>3. Reply' = seen'
    <3>1. Unsent' = <<>>
      BY <2>1 DEF Unsent
    <3>2. seen' \in Seq(Byte)
      BY <2>2, ReplyParts
    <3>3. QED BY <3>1, <3>2 DEF Reply
  <2>4. JudgedAsSent'
    BY <1>5, <2>2, <2>3
  <2>5. Sending'
    BY <2>1 DEF Sending
  <2>6. ASSUME stage # "CLOSING"
        PROVE  Listening'
    <3>1. read_len = 0 /\ wire = <<>>
      BY <1>1, <1>2, <2>1, <2>6 DEF IInv, Replying
    <3>2. seen' # <<>>
      <4>1. write_off < Len(write_buffer)
        BY <1>1, <1>2, <2>1 DEF Sending
      <4>2. Len(Reply) # 0
        BY <1>4, <4>1, ReplyParts
      <4>3. QED BY <2>2, <4>2
    <3>3. QED BY <1>1, <2>6, <3>1, <3>2 DEF Listening, Quiet
  <2>7. stage \notin Handed
    BY <1>2, <2>1
  <2>8. QED BY <1>1, <1>2, <2>1, <2>4, <2>5, <2>6, <2>7
<1>8. CASE WriteFails
  <2>1. /\ open' = FALSE /\ UNCHANGED <<interest, write_buffer, write_off, seen>>
    BY <1>8 DEF WriteFails, Close, writeVars, clientVars
  <2>2. Reply' = Reply
    BY <2>1 DEF Reply, Unsent
  <2>3. QED BY <1>1, <1>2, <1>5, <2>1, <2>2 DEF Sending
<1>9. QED BY <1>6, <1>7, <1>8 DEF client_write

\* What a recv appends to the buffer continues the message, and what it leaves
\* on the wire is the rest of it.
LEMMA Pieces ==
    ASSUME IInv, Receiving, NEW n \in 1 .. Len(wire), n =< BufferSize - read_len
    PROVE  LET rest == SubSeq(wire, n + 1, Len(wire)) IN
           /\ Holds(Received(n), read_len + n, Sent)
           /\ read_len + n + Len(rest) =< Len(Sent)
           /\ \A i \in 1 .. Len(rest) : rest[i] = Sent[read_len + n + i]
           /\ read_len + n = Len(Sent) => rest = <<>>
<1> DEFINE rest == SubSeq(wire, n + 1, Len(wire))
           w == Len(wire)
           l == Len(Sent)
           len == read_len + n
<1>1. /\ wire \in Seq(Byte) /\ read_len \in Nat /\ len =< BufferSize /\ n \in Nat
      /\ BufferSize \in Nat /\ len \in Nat /\ len = read_len + n /\ w \in Nat /\ n =< w
  BY BufferSizeAssumption DEF IInv, TypeOK
<1>2. /\ read_len + w =< l
      /\ \A i \in 0 .. read_len - 1 : read_buffer[i] = Sent[i + 1]
      /\ \A i \in 1 .. w : wire[i] = Sent[read_len + i]
  BY DEF Receiving
<1>3. Sent \in Seq(Byte) /\ l \in Nat
  <2>1. said \in Messages
    BY DEF IInv, TypeOK
  <2>2. <<>> \in Seq(Byte)
    OBVIOUS
  <2>3. Sent \in Seq(Byte)
    BY <2>1, <2>2, Kinds, MessagesAreBytes DEF Sent
  <2>4. QED BY <2>3
<1>4. rest \in Seq(Byte) /\ Len(rest) = w - n /\ \A i \in 1 .. w - n : rest[i] = wire[n + i]
  BY <1>1
<1>5. w - n = 0 => rest = <<>>
  BY <1>4
<1> HIDE DEF rest, w, l, len
<1>6. ASSUME NEW i \in 0 .. len - 1
      PROVE  Received(n)[i] = Sent[i + 1]
  <2>1. i \in 0 .. BufferSize - 1 /\ i < read_len + n
    BY <1>1
  <2>2. CASE i >= read_len
    <3>1. i - read_len + 1 \in 1 .. w /\ read_len + (i - read_len + 1) = i + 1
      BY <1>1, <2>1, <2>2
    <3>2. Received(n)[i] = wire[i - read_len + 1]
      BY <2>1, <2>2 DEF Received
    <3>3. QED BY <1>2, <3>1, <3>2
  <2>3. CASE i < read_len
    <3>1. Received(n)[i] = read_buffer[i]
      BY <1>1, <2>1, <2>3 DEF Received
    <3>2. i \in 0 .. read_len - 1
      BY <1>1, <2>3
    <3>3. QED BY <1>2, <3>1, <3>2
  <2>4. QED BY <1>1, <2>2, <2>3
<1>7. len =< l /\ len + (w - n) =< l /\ (len = l => w - n = 0)
  BY <1>1, <1>2, <1>3
<1>8. Holds(Received(n), len, Sent)
  BY <1>6, <1>7 DEF Holds, l
<1>9. len + Len(rest) =< l /\ (len = l => rest = <<>>)
  BY <1>4, <1>5, <1>7
<1>10. ASSUME NEW i \in 1 .. Len(rest)
       PROVE  rest[i] = Sent[len + i]
  <2>1. i \in 1 .. w - n /\ n + i \in 1 .. w /\ read_len + (n + i) = len + i
    BY <1>1, <1>4
  <2>2. rest[i] = wire[n + i] /\ wire[n + i] = Sent[read_len + (n + i)]
    BY <1>2, <1>4, <2>1
  <2>3. QED BY <2>1, <2>2
<1>11. QED BY <1>8, <1>9, <1>10 DEF rest, l, len

\* A reply the message deserves is prepared, in a session that has answered
\* nothing of it.
LEMMA AnswerStep ==
    ASSUME IInv, ~ ahead', seen = <<>>, NEW reply \in Seq(Byte), reply # <<>>, NEW next,
           Prepare(reply, next), <<reply, next>> \in Deserved, next \notin Handed,
           next # "CLOSING" => wire' = <<>>,
           UNCHANGED <<users, clientVars>>,
           destination' # Nowhere => /\ next = "CLOSING" /\ said.kind = "request"
                                     /\ Fault(said.msg) = {} /\ destination' = Asked(said.msg)
    PROVE  Conversation'
<1>1. /\ UNCHANGED <<users, said, seen>>
      /\ write_buffer' = reply /\ write_off' = 0 /\ interest' = "WRITE" /\ stage' = next
  BY DEF Prepare, clientVars
<1>2. Deserved' = Deserved
  BY <1>1 DEF Deserved, Method, Welcome
<1>3. (seen \o SubSeq(write_buffer, write_off + 1, Len(write_buffer)))' = reply
  BY <1>1
<1>4. JudgedAsSent'
  BY <1>1, <1>2, <1>3 DEF JudgedAsSent
<1>5. Sending'
  BY <1>1 DEF Sending
<1>6. QED BY <1>1, <1>4, <1>5 DEF Conversation

\* The replies, none of them empty.
LEMMA RepliesAreReplies ==
    ASSUME NEW x \in Byte
    PROVE  /\ GreetingResponse(x) \in Seq(Byte) /\ GreetingResponse(x) # <<>>
           /\ AuthResponse(x) \in Seq(Byte) /\ AuthResponse(x) # <<>>
           /\ RequestResponse(x) \in Seq(Byte) /\ RequestResponse(x) # <<>>
BY RepliesAreBytes DEF GreetingResponse, AuthResponse, RequestResponse

\* The codes of the replies are bytes.
LEMMA CodesAreBytes ==
    /\ {NO_AUTH, USERNAME_PASSWORD, NO_ACCEPTABLE, AUTH_SUCCESS, AUTH_FAILURE} \subseteq Byte
    /\ {SUCCESS, GENERAL_FAILURE, COMMAND_NOT_SUPPORTED, ADDRESS_TYPE_NOT_SUPPORTED} \subseteq Byte
    /\ ConnectFailures \subseteq Byte
BY MaxByteAssumption
   DEF Byte, NO_AUTH, USERNAME_PASSWORD, NO_ACCEPTABLE, AUTH_SUCCESS, AUTH_FAILURE, SUCCESS,
       GENERAL_FAILURE, COMMAND_NOT_SUPPORTED, ADDRESS_TYPE_NOT_SUPPORTED, ConnectFailures

\* client_read judges the message the client sent.
LEMMA ReadConverses ==
    ASSUME IInv, Conversation, client_read
    PROVE  Conversation'
<1>1. PICK n \in 1 .. Len(wire) :
         /\ n =< BufferSize - read_len
         /\ wire' = SubSeq(wire, n + 1, Len(wire))
         /\ read_buffer' = Received(n)
         /\ \/ KeepReading(Received(n), read_len + n)
            \/ Greeting(Received(n), read_len + n)
            \/ Login(Received(n), read_len + n)
            \/ RejectRequest(Received(n), read_len + n)
            \/ target_connection_begin(Received(n), read_len + n)
  BY DEF client_read
<1>2. open /\ interest = "READ" /\ UNCHANGED <<users, clientVars>>
  BY DEF client_read
<1>3. UNCHANGED <<users, said, seen, ahead>>
  BY <1>2 DEF clientVars
<1>4. CASE ahead
  BY <1>3, <1>4 DEF Conversation
<1>5. CASE ~ ahead
  <2> DEFINE b == Received(n)
             len == read_len + n
  <2>1. b \in Buffers /\ len \in 0 .. BufferSize
    BY <1>1, ReceivedIsBuffer DEF IInv
  <2>2. /\ JudgedAsSent /\ write_buffer = <<>> /\ write_off = 0
        /\ stage \notin Handed
        /\ destination # Nowhere => stage \in Handed \cup {"CLOSING"}
        /\ Listening
    BY <1>2, <1>5 DEF Conversation, Sending
  <2>3. Receiving /\ seen = <<>> /\ said # Nothing /\ stage = StageOf(said.kind)
    <3>1. wire # <<>>
      <4>1. Len(wire) >= 1
        BY <1>1 DEF IInv, TypeOK
      <4>2. QED BY <4>1
    <3>2. QED BY <2>2, <3>1 DEF Listening, Quiet
  <2>4. said \in Messages /\ said.kind # "nothing"
    BY <2>3, Kinds DEF IInv, TypeOK
  <2>5. /\ Holds(b, len, Sent)
        /\ len + Len(wire') =< Len(Sent)
        /\ \A i \in 1 .. Len(wire') : wire'[i] = Sent[len + i]
        /\ len = Len(Sent) => wire' = <<>>
    BY <1>1, <2>3, Pieces
  <2>6. destination = Nowhere
    BY <2>2, <2>3 DEF StageOf
  <2>7. ~ ahead'
    BY <1>3, <1>5
  <2>a. /\ KeepReading(b, len) \/ Greeting(b, len) \/ Login(b, len) \/ RejectRequest(b, len)
           \/ target_connection_begin(b, len)
        /\ read_buffer' = b
    BY <1>1
  <2> HIDE DEF b, len
  <2>8. ASSUME stage' = stage, interest' = interest, open' = open \/ open' = FALSE,
               UNCHANGED <<write_buffer, write_off, destination>>,
               open' => read_len' = len
        PROVE  Conversation'
    <3>1. open' => Listening'
      <4> SUFFICES ASSUME open' PROVE Listening'
        OBVIOUS
      <4>1. Sent' = Sent
        BY <1>3 DEF Sent
      <4>2. read_len' + Len(wire') =< Len(Sent')
        BY <2>5, <2>8, <4>1
      <4>3. \A i \in 0 .. read_len' - 1 : read_buffer'[i] = Sent'[i + 1]
        BY <2>5, <2>8, <2>a, <4>1 DEF Holds
      <4>4. Receiving'
        BY <2>5, <2>8, <4>1, <4>2, <4>3 DEF Receiving
      <4>5. QED BY <1>3, <2>3, <2>8, <4>4 DEF Listening
    <3>2. Deserved' = Deserved
      BY <1>3 DEF Deserved, Method, Welcome
    <3>3. JudgedAsSent'
      BY <1>3, <2>2, <2>7, <2>8, <3>2, <1>5 DEF JudgedAsSent
    <3>4. QED BY <1>2, <2>2, <2>6, <2>8, <3>1, <3>3 DEF Conversation, Sending
  <2>9. CASE KeepReading(b, len)
    BY <2>8, <2>9 DEF KeepReading, writeVars
  <2>10. CASE Greeting(b, len)
    <3>1. said.kind = "greeting" /\ said.msg \in Greetings /\ Sent = EncodeGreeting(said.msg)
      BY <2>3, <2>4, <2>10, Kinds DEF Greeting, StageOf, Sent
    <3>2. /\ b[0] = said.msg.ver
          /\ said.msg.ver = VERSION =>
                /\ len = Len(Sent)
                /\ \A x : ClientOffers(b, x)
                             <=> \E i \in 1 .. Len(said.msg.methods) : said.msg.methods[i] = x
      BY <2>1, <2>5, <2>10, <3>1, GreetingJudged DEF Greeting
    <3>3. CASE b[0] # VERSION
      BY <2>8, <2>10, <3>3 DEF Greeting, Close, writeVars
    <3>4. CASE b[0] = VERSION
      <4>1. wire' = <<>> /\ destination' = destination
        BY <2>5, <2>10, <3>2, <3>4 DEF Greeting
      <4>2. ASSUME NEW x \in Byte, NEW next \in {"AUTH", "REQUEST", "CLOSING"},
                   Prepare(GreetingResponse(x), next), x = Method(said.msg),
                   next = CASE x = USERNAME_PASSWORD -> "AUTH"
                            [] x = NO_AUTH -> "REQUEST"
                            [] OTHER -> "CLOSING"
            PROVE  Conversation'
        <5>1. <<GreetingResponse(x), next>> \in Deserved
          BY <3>1, <3>2, <3>4, <4>2 DEF Deserved
        <5>2. next \notin Handed
          BY DEF Handed
        <5>3. GreetingResponse(x) \in Seq(Byte) /\ GreetingResponse(x) # <<>>
          BY RepliesAreReplies
        <5>4. QED BY <1>2, <2>3, <2>6, <2>7, <4>1, <4>2, <5>1, <5>2, <5>3, AnswerStep
      <4>3. CASE ClientOffers(b, USERNAME_PASSWORD)
        <5>1. Prepare(GreetingResponse(USERNAME_PASSWORD), "AUTH")
          BY <2>10, <3>4, <4>3 DEF Greeting
        <5>2. Method(said.msg) = USERNAME_PASSWORD
          BY <3>2, <3>4, <4>3 DEF Method
        <5>3. USERNAME_PASSWORD \in Byte /\ USERNAME_PASSWORD # NO_AUTH
          BY CodesAreBytes DEF NO_AUTH, USERNAME_PASSWORD
        <5>4. QED BY <4>2, <5>1, <5>2, <5>3
      <4>4. CASE ~ ClientOffers(b, USERNAME_PASSWORD) /\ users = {} /\ ClientOffers(b, NO_AUTH)
        <5>1. Prepare(GreetingResponse(NO_AUTH), "REQUEST")
          BY <2>10, <3>4, <4>4 DEF Greeting
        <5>2. Method(said.msg) = NO_AUTH
          BY <3>2, <3>4, <4>4 DEF Method
        <5>3. NO_AUTH # USERNAME_PASSWORD
          BY DEF NO_AUTH, USERNAME_PASSWORD
        <5>4. QED BY <4>2, <5>1, <5>2, <5>3, CodesAreBytes
      <4>5. CASE /\ ~ ClientOffers(b, USERNAME_PASSWORD)
                 /\ ~ (users = {} /\ ClientOffers(b, NO_AUTH))
        <5>1. Prepare(GreetingResponse(NO_ACCEPTABLE), "CLOSING")
          BY <2>10, <3>4, <4>5 DEF Greeting
        <5>2. Method(said.msg) = NO_ACCEPTABLE
          BY <3>2, <3>4, <4>5 DEF Method
        <5>3. NO_ACCEPTABLE # USERNAME_PASSWORD /\ NO_ACCEPTABLE # NO_AUTH
          BY MaxByteAssumption DEF NO_ACCEPTABLE, NO_AUTH, USERNAME_PASSWORD
        <5>4. QED BY <4>2, <5>1, <5>2, <5>3, CodesAreBytes
      <4>6. QED BY <4>3, <4>4, <4>5
    <3>5. QED BY <3>3, <3>4
  <2>11. CASE Login(b, len)
    <3>1. said.kind = "login" /\ said.msg \in Logins /\ Sent = EncodeLogin(said.msg)
      BY <2>3, <2>4, <2>11, Kinds DEF Login, StageOf, Sent
    <3>2. /\ Authenticated(b, users) <=> Welcome(said.msg)
          /\ said.msg.ver = AUTH_VERSION => len = Len(Sent)
      BY <2>1, <2>5, <2>11, <3>1, LoginJudged DEF Login, Welcome
    <3>3. destination' = destination
      BY <2>11 DEF Login
    <3>4. CASE Authenticated(b, users)
      <4>1. Prepare(AuthResponse(AUTH_SUCCESS), "REQUEST") /\ wire' = <<>>
        BY <2>5, <2>11, <3>2, <3>4 DEF Login, Welcome
      <4>2. <<AuthResponse(AUTH_SUCCESS), "REQUEST">> \in Deserved
        BY <3>1, <3>2, <3>4 DEF Deserved
      <4>3. /\ "REQUEST" \notin Handed
            /\ AuthResponse(AUTH_SUCCESS) \in Seq(Byte) /\ AuthResponse(AUTH_SUCCESS) # <<>>
        BY RepliesAreReplies, CodesAreBytes DEF Handed
      <4>4. QED BY <1>2, <2>3, <2>6, <2>7, <3>3, <4>1, <4>2, <4>3, AnswerStep
    <3>5. CASE ~ Authenticated(b, users)
      <4>1. Prepare(AuthResponse(AUTH_FAILURE), "CLOSING")
        BY <2>11, <3>5 DEF Login
      <4>2. <<AuthResponse(AUTH_FAILURE), "CLOSING">> \in Deserved
        BY <3>1, <3>2, <3>5 DEF Deserved
      <4>3. /\ "CLOSING" \notin Handed
            /\ AuthResponse(AUTH_FAILURE) \in Seq(Byte) /\ AuthResponse(AUTH_FAILURE) # <<>>
        BY RepliesAreReplies, CodesAreBytes DEF Handed
      <4>4. QED BY <1>2, <2>3, <2>6, <2>7, <3>3, <4>1, <4>2, <4>3, AnswerStep
    <3>6. QED BY <3>4, <3>5
  <2>12. CASE RejectRequest(b, len) \/ target_connection_begin(b, len)
    <3>1. said.kind = "request" /\ said.msg \in Requests /\ Sent = EncodeRequest(said.msg)
      BY <2>3, <2>4, <2>12, Kinds DEF RejectRequest, target_connection_begin, StageOf, Sent
    <3>2. LET reply == socks5_request_reply_for(b, len) IN
          /\ IsConnectRequest(b, len) => /\ Fault(said.msg) = {}
                                         /\ Destination(b) = Asked(said.msg)
          /\ ~ IsConnectRequest(b, len) =>
                Fault(said.msg) = {IF reply = SUCCESS THEN GENERAL_FAILURE ELSE reply}
      BY <2>1, <2>5, <2>12, <3>1, RequestJudged DEF RejectRequest, target_connection_begin
    <3>3. ASSUME NEW r \in Byte, Prepare(RequestResponse(r), "CLOSING"),
                 r \in IF Fault(said.msg) # {} THEN Fault(said.msg) ELSE ConnectFailures,
                 destination' = Nowhere \/ /\ Fault(said.msg) = {}
                                           /\ destination' = Asked(said.msg)
          PROVE  Conversation'
      <4>1. <<RequestResponse(r), "CLOSING">> \in Deserved
        BY <3>1, <3>3 DEF Deserved
      <4>2. /\ "CLOSING" \notin Handed
            /\ RequestResponse(r) \in Seq(Byte) /\ RequestResponse(r) # <<>>
        BY RepliesAreReplies DEF Handed
      <4>3. QED BY <1>2, <2>3, <2>7, <3>1, <3>3, <4>1, <4>2, AnswerStep
    <3>4. CASE RejectRequest(b, len)
      <4> DEFINE reply == socks5_request_reply_for(b, len)
                 r == IF reply = SUCCESS THEN GENERAL_FAILURE ELSE reply
      <4>1. /\ ~ IsConnectRequest(b, len) /\ Prepare(RequestResponse(r), "CLOSING")
            /\ destination' = destination
        BY <3>4 DEF RejectRequest
      <4>2. Fault(said.msg) = {r}
        BY <3>2, <4>1
      <4>3. r \in Byte
        BY CodesAreBytes DEF socks5_request_reply_for
      <4> HIDE DEF r
      <4>4. QED BY <2>6, <3>3, <4>1, <4>2, <4>3
    <3>5. CASE target_connection_begin(b, len)
      <4>1. Fault(said.msg) = {} /\ destination' = Asked(said.msg)
        BY <3>2, <3>5 DEF target_connection_begin
      <4>2. CASE \E r \in ConnectFailures : Prepare(RequestResponse(r), "CLOSING")
        <5>1. PICK r \in ConnectFailures : Prepare(RequestResponse(r), "CLOSING")
          BY <4>2
        <5>2. r \in Byte
          BY CodesAreBytes
        <5>3. QED BY <3>3, <4>1, <5>1, <5>2
      <4>3. CASE /\ stage' \in Handed /\ interest' = "NOOP" /\ read_len' = 0
                 /\ UNCHANGED <<open, writeVars>>
        <5>1. write_buffer' = <<>> /\ write_off' = 0 /\ seen' = <<>>
          BY <1>3, <2>2, <2>3, <4>3 DEF writeVars
        <5>2. (seen \o SubSeq(write_buffer, write_off + 1, Len(write_buffer)))' = <<>>
          BY <5>1
        <5>3. JudgedAsSent'
          BY <1>3, <3>1, <4>1, <5>2 DEF JudgedAsSent
        <5>4. QED BY <4>3, <5>1, <5>3 DEF Conversation, Sending
      <4>4. GENERAL_FAILURE \in ConnectFailures /\ {"RESOLVING", "CONNECTING"} \subseteq Handed
        BY DEF ConnectFailures, GENERAL_FAILURE, Handed
      <4>5. QED BY <3>5, <4>2, <4>3, <4>4 DEF target_connection_begin
    <3>6. QED BY <2>12, <3>4, <3>5
  <2>13. QED BY <2>a, <2>9, <2>10, <2>11, <2>12
<1>6. QED BY <1>4, <1>5

\* What the theorems on the conversation rest on.
LEMMA ConversationInductive ==
    /\ Init => Conversation
    /\ IInv /\ Conversation /\ [Next]_vars => Conversation'
<1>1. Init => Conversation
  <2> SUFFICES ASSUME Init PROVE Conversation
    OBVIOUS
  <2>1. JudgedAsSent
    BY DEF Init, JudgedAsSent, Handed
  <2>2. Listening
    BY DEF Init, Listening, Quiet
  <2>3. QED BY <2>1, <2>2 DEF Init, Conversation, Sending, Handed
<1>2. IInv /\ Conversation /\ [Next]_vars => Conversation'
  <2> SUFFICES ASSUME IInv, Conversation, [Next]_vars PROVE Conversation'
    OBVIOUS
  <2>1. CASE ClientGreets \/ ClientLogsIn \/ ClientRequests \/ ClientLeaves
    BY <2>1, ClientConverses
  <2>2. CASE client_read
    BY <2>2, ReadConverses
  <2>3. CASE client_write
    BY <2>3, WriteConverses
  <2>4. ASSUME /\ open' = open \/ open' = FALSE
               /\ UNCHANGED <<users, stage, interest, read_buffer, read_len, write_buffer,
                              write_off, destination, wire, said, seen, ahead>>
        PROVE  Conversation'
    <3>1. Deserved' = Deserved /\ Sent' = Sent
      BY <2>4 DEF Deserved, Method, Welcome, Sent
    <3>2. JudgedAsSent => JudgedAsSent'
      BY <2>4, <3>1 DEF JudgedAsSent
    <3>3. Listening => Listening'
      BY <2>4, <3>1 DEF Listening, Quiet, Receiving
    <3>4. QED BY <2>4, <3>2, <3>3 DEF Conversation, Sending
  <2>5. CASE ReadEnds
    BY <2>4, <2>5 DEF ReadEnds, Close, readVars, writeVars, clientVars
  <2>6. CASE UNCHANGED vars
    BY <2>4, <2>6 DEF vars
  <2>7. QED BY <2>1, <2>2, <2>3, <2>5, <2>6 DEF Next
<1>3. QED BY <1>1, <1>2

\* However the messages are cut into pieces, each is judged as it was sent.
THEOREM MessagesJudgedAsSent == Spec => []JudgedAsSent
<1>1. Init => Conversation
  BY ConversationInductive
<1>2. IInv /\ Conversation /\ [Next]_vars => Conversation'
  BY ConversationInductive
<1>3. Conversation => JudgedAsSent
  BY DEF Conversation, JudgedAsSent
<1>4. QED BY <1>1, <1>2, <1>3, Inductive, PTL DEF Spec

-----------------------------------------------------------------------------
(* Nobody waits in vain *)

\* The whole message makes each parser stop waiting.
LEMMA WholeGreeting ==
    ASSUME NEW m \in Greetings, NEW b, Holds(b, Len(EncodeGreeting(m)), EncodeGreeting(m))
    PROVE  ~ GreetingIsIncomplete(b, Len(EncodeGreeting(m)))
<1> DEFINE e == EncodeGreeting(m)
           n == Len(m.methods)
<1>1. n \in Nat /\ Len(e) = 2 + n /\ e[2] = n
  BY GreetingBytes, GreetingsAssumption DEF Text
<1>2. \A i \in 0 .. Len(e) - 1 : b[i] = e[i + 1]
  BY DEF Holds
<1> HIDE DEF e, n
<1>3. b[1] = n
  BY <1>1, <1>2
<1>4. ~ GreetingIsIncomplete(b, Len(e))
  BY <1>1, <1>3 DEF GreetingIsIncomplete
<1>5. QED BY <1>4 DEF e

LEMMA WholeLogin ==
    ASSUME NEW m \in Logins, NEW b, Holds(b, Len(EncodeLogin(m)), EncodeLogin(m))
    PROVE  ~ AuthIsIncomplete(b, Len(EncodeLogin(m)))
<1> DEFINE e == EncodeLogin(m)
           n == Len(m.user)
           k == Len(m.pass)
<1>1. n \in Nat /\ k \in Nat /\ IsLogin(e, m.ver, m.user, n, m.pass, k)
  BY LoginBytes, LoginsAssumption DEF Text
<1>2. \A i \in 0 .. Len(e) - 1 : b[i] = e[i + 1]
  BY DEF Holds
<1> HIDE DEF e, n, k
<1>3. Len(e) = 3 + n + k /\ e[2] = n /\ e[3 + n] = k
  BY <1>1 DEF IsLogin
<1>4. 1 \in 0 .. Len(e) - 1 /\ 2 + n \in 0 .. Len(e) - 1 /\ 2 + n + 1 = 3 + n
  BY <1>1, <1>3
<1>5. b[1] = n /\ b[2 + n] = k
  BY <1>2, <1>3, <1>4
<1>6. ~ AuthIsIncomplete(b, Len(e))
  BY <1>1, <1>3, <1>5 DEF AuthIsIncomplete, PasswordLenIndex, ExpectedLen
<1>7. QED BY <1>6 DEF e

LEMMA WholeRequest ==
    ASSUME NEW m \in Requests, NEW b, Holds(b, Len(EncodeRequest(m)), EncodeRequest(m))
    PROVE  ~ socks5_request_is_incomplete(b, Len(EncodeRequest(m)))
<1> DEFINE e == EncodeRequest(m)
           n == Len(m.host)
           d == IF m.atyp = DOMAIN_NAME THEN 5 ELSE 4
<1>1. /\ n \in Nat /\ Len(e) = d + n + 2 /\ e[4] = m.atyp
      /\ m.atyp = DOMAIN_NAME => e[5] = n
  BY RequestBytes
<1>2. \A i \in 0 .. Len(e) - 1 : b[i] = e[i + 1]
  BY DEF Holds
<1>3. /\ m.atyp = IPV4 => d = 4 /\ n = 4
      /\ m.atyp = IPV6 => d = 4 /\ n = 16
      /\ m.atyp = DOMAIN_NAME => d = 5
      /\ d \in {4, 5}
  BY RequestsAssumption DEF IPV4, IPV6, DOMAIN_NAME
<1> HIDE DEF e, n, d
<1>4. b[3] = m.atyp /\ (m.atyp = DOMAIN_NAME => b[4] = n)
  <2>1. 3 \in 0 .. Len(e) - 1 /\ (m.atyp = DOMAIN_NAME => 4 \in 0 .. Len(e) - 1)
    BY <1>1, <1>3
  <2>2. b[3] = e[4] /\ (m.atyp = DOMAIN_NAME => b[4] = e[5])
    BY <1>2, <2>1
  <2>3. QED BY <1>1, <2>2
<1>5. ~ socks5_request_is_incomplete(b, Len(e))
  BY <1>1, <1>3, <1>4 DEF socks5_request_is_incomplete, IPV4_REQUEST_SIZE, IPV6_REQUEST_SIZE
<1>6. QED BY <1>5 DEF e

\* While a session is receiving a message of a client that has not left, all of
\* it is in the buffer or on the wire, and some of it on the wire.
Whole ==
    ~ ahead /\ ~ gone /\ open /\ interest = "READ" /\ said # Nothing /\ seen = <<>> =>
        read_len + Len(wire) = Len(Sent) /\ wire # <<>>

\* A message that is judged incomplete is not whole.
LEMMA KeepsReading ==
    ASSUME IInv, Conversation, Whole, client_read
    PROVE  Whole'
<1> SUFFICES ASSUME ~ ahead', ~ gone', open', interest' = "READ", said' # Nothing, seen' = <<>>
             PROVE  read_len' + Len(wire') = Len(Sent') /\ wire' # <<>>
  BY DEF Whole
<1>1. PICK n \in 1 .. Len(wire) :
         /\ n =< BufferSize - read_len
         /\ wire' = SubSeq(wire, n + 1, Len(wire))
         /\ read_buffer' = Received(n)
         /\ \/ KeepReading(Received(n), read_len + n)
            \/ Greeting(Received(n), read_len + n)
            \/ Login(Received(n), read_len + n)
            \/ RejectRequest(Received(n), read_len + n)
            \/ target_connection_begin(Received(n), read_len + n)
  BY DEF client_read
<1>2. open /\ interest = "READ" /\ UNCHANGED <<users, said, seen, ahead, gone>>
  BY DEF client_read, clientVars
<1> DEFINE b == Received(n)
           len == read_len + n
<1>3. /\ read_len + Len(wire) = Len(Sent) /\ said # Nothing /\ seen = <<>> /\ Listening
      /\ wire \in Seq(Byte) /\ read_len \in Nat /\ said \in Messages
  BY <1>2, BufferSizeAssumption DEF Whole, Conversation, IInv, TypeOK
<1>4. Receiving /\ stage = StageOf(said.kind)
  <2>1. wire # <<>>
    BY <1>2, <1>3 DEF Whole
  <2>2. QED BY <1>3, <2>1 DEF Listening, Quiet
<1>5. Holds(b, len, Sent) /\ (wire' = <<>> => len = Len(Sent)) /\ len + Len(wire') = Len(Sent)
  <2>1. Holds(b, len, Sent)
    BY <1>1, <1>4, Pieces
  <2>2. Len(wire') = Len(wire) - n /\ n \in Nat /\ Len(wire) \in Nat
    BY <1>1, <1>3
  <2>3. len + Len(wire') = Len(Sent)
    BY <1>3, <2>2
  <2>4. wire' = <<>> => Len(wire') = 0
    OBVIOUS
  <2>5. QED BY <1>3, <2>1, <2>2, <2>3, <2>4
<1>6. Sent' = Sent
  BY <1>2 DEF Sent
<1>7. KeepReading(b, len)
  BY <1>1 DEF Greeting, Login, RejectRequest, target_connection_begin, Prepare, Close
<1> HIDE DEF b, len
<1>8. IsIncomplete(b, len) /\ read_len' = len
  BY <1>7 DEF KeepReading
<1>9. len # Len(Sent)
  <2>1. said.kind # "nothing"
    BY <1>3, Kinds
  <2>2. CASE said.kind = "greeting"
    <3>1. stage = "GREETING" /\ Sent = EncodeGreeting(said.msg) /\ said.msg \in Greetings
      BY <1>3, <1>4, <2>2, Kinds DEF StageOf, Sent
    <3>2. QED BY <1>5, <1>8, <3>1, WholeGreeting DEF IsIncomplete
  <2>3. CASE said.kind = "login"
    <3>1. stage = "AUTH" /\ Sent = EncodeLogin(said.msg) /\ said.msg \in Logins
      BY <1>3, <1>4, <2>3, Kinds DEF StageOf, Sent
    <3>2. QED BY <1>5, <1>8, <3>1, WholeLogin DEF IsIncomplete
  <2>4. CASE said.kind = "request"
    <3>1. stage = "REQUEST" /\ Sent = EncodeRequest(said.msg) /\ said.msg \in Requests
      BY <1>3, <1>4, <2>4, Kinds DEF StageOf, Sent
    <3>2. QED BY <1>5, <1>8, <3>1, WholeRequest DEF IsIncomplete
  <2>5. QED BY <1>3, <2>1, <2>2, <2>3, <2>4, Kinds
<1>10. QED BY <1>5, <1>6, <1>8, <1>9

\* What the client says is all on the wire.
LEMMA SaysAll ==
    ASSUME IInv, Conversation,
           NEW kind \in {"greeting", "login", "request"}, NEW m, NEW bytes \in Seq(Byte),
           Says(kind, m, bytes), Len(bytes) > 0,
           bytes = CASE kind = "greeting" -> EncodeGreeting(m)
                     [] kind = "login" -> EncodeLogin(m)
                     [] kind = "request" -> EncodeRequest(m),
           ~ ahead => Quiet
    PROVE  Whole'
<1> SUFFICES ASSUME ~ ahead'
             PROVE  read_len' + Len(wire') = Len(Sent') /\ wire' # <<>>
  BY DEF Whole
<1>1. PICK a \in Ahead : wire' = wire \o bytes \o a /\ ahead' = (ahead \/ a # <<>>)
  BY DEF Says
<1>2. ~ ahead /\ a = <<>>
  BY <1>1
<1>3. wire' = bytes /\ read_len = 0
  BY <1>1, <1>2 DEF Quiet
<1>4. read_len' = read_len /\ said' = [kind |-> kind, msg |-> m]
  BY DEF Says, readVars
<1>5. Sent' = bytes
  BY <1>4 DEF Sent
<1>6. QED BY <1>3, <1>4, <1>5

\* A client speaks in turn: to a session that waits for it.
LEMMA ClientSaysAll ==
    ASSUME IInv, Conversation, ClientGreets \/ ClientLogsIn \/ ClientRequests
    PROVE  Whole'
<1>1. CASE ClientGreets
  <2>1. PICK m \in Greetings : Says("greeting", m, EncodeGreeting(m))
    BY <1>1 DEF ClientGreets
  <2>2. ~ ahead => Quiet
    BY <1>1, <2>1, ClientsTurn DEF ClientGreets, Says
  <2>3. EncodeGreeting(m) \in Seq(Byte) /\ Len(EncodeGreeting(m)) > 0
    BY GreetingBytes, GreetingsAssumption DEF Text
  <2>4. QED BY <2>1, <2>2, <2>3, SaysAll
<1>2. CASE ClientLogsIn
  <2>1. PICK m \in Logins : Says("login", m, EncodeLogin(m))
    BY <1>2 DEF ClientLogsIn
  <2>2. ~ ahead => Quiet
    <3>1. said.kind = "greeting" /\ open /\ Len(seen) = 2
      BY <1>2, <2>1 DEF ClientLogsIn, Says, GreetingResponse
    <3>2. QED BY <3>1, ClientsTurn
  <2>3. EncodeLogin(m) \in Seq(Byte) /\ Len(EncodeLogin(m)) > 0
    <3> DEFINE e == EncodeLogin(m)
               n == Len(m.user)
               k == Len(m.pass)
    <3>1. n \in Nat /\ k \in Nat
      BY LoginsAssumption DEF Text
    <3>2. IsLogin(e, m.ver, m.user, n, m.pass, k)
      BY LoginBytes
    <3> HIDE DEF e, n, k
    <3>3. e \in Seq(Byte) /\ Len(e) = 3 + n + k
      BY <3>2 DEF IsLogin
    <3>4. Len(e) > 0
      BY <3>1, <3>3
    <3>5. QED BY <3>3, <3>4 DEF e
  <2>4. QED BY <2>1, <2>2, <2>3, SaysAll
<1>3. CASE ClientRequests
  <2>1. PICK m \in Requests : Says("request", m, EncodeRequest(m))
    BY <1>3 DEF ClientRequests
  <2>2. ~ ahead => Quiet
    <3>1. said.kind \in {"greeting", "login"} /\ open /\ Len(seen) = 2
      BY <1>3, <2>1 DEF ClientRequests, Says, GreetingResponse, AuthResponse
    <3>2. QED BY <3>1, ClientsTurn
  <2>3. EncodeRequest(m) \in Seq(Byte) /\ Len(EncodeRequest(m)) > 0
    <3> DEFINE d == IF m.atyp = DOMAIN_NAME THEN 5 ELSE 4
    <3>1. d \in {4, 5} /\ Len(m.host) \in Nat
      BY RequestBytes
    <3>2. EncodeRequest(m) \in Seq(Byte) /\ Len(EncodeRequest(m)) = d + Len(m.host) + 2
      BY RequestBytes
    <3> HIDE DEF d
    <3>3. QED BY <3>1, <3>2
  <2>4. QED BY <2>1, <2>2, <2>3, SaysAll
<1>4. QED BY <1>1, <1>2, <1>3

\* Every answer the session sends is one its client sees a byte of.
LEMMA WriteShows ==
    ASSUME IInv, Conversation, Whole, client_write
    PROVE  Whole'
<1>1. CASE WriteAll
  <2> SUFFICES ASSUME ~ ahead PROVE seen' # <<>>
    BY <1>1 DEF WriteAll, Sends, Whole
  <2>1. /\ seen' = seen \o SubSeq(write_buffer, write_off + 1, write_off + (Len(write_buffer) - write_off))
        /\ open /\ interest = "WRITE"
    BY <1>1 DEF WriteAll, Sends
  <2>2. write_off < Len(write_buffer) /\ write_off \in Nat /\ seen \in Seq(Byte)
        /\ write_buffer \in Seq(Byte)
    BY <2>1 DEF Conversation, Sending, IInv, TypeOK
  <2>3. write_off + (Len(write_buffer) - write_off) = Len(write_buffer)
    BY <2>2
  <2>4. /\ seen' = seen \o SubSeq(write_buffer, write_off + 1, Len(write_buffer))
        /\ Len(SubSeq(write_buffer, write_off + 1, Len(write_buffer))) > 0
    BY <2>1, <2>2, <2>3
  <2>5. Len(seen') > 0
    BY <2>2, <2>4
  <2>6. QED BY <2>5
<1>2. CASE WriteSome \/ WriteFails
  BY <1>2 DEF WriteSome, WriteFails, Close, Whole
<1>3. QED BY <1>1, <1>2 DEF client_write

\* A session that waits for bytes has some on their way, or its client has to
\* speak and knows it.
THEOREM NobodyWaitsInVain == Spec => []NeverWaitsInVain
<1>1. Init => Conversation
  BY ConversationInductive
<1>2. IInv /\ Conversation /\ [Next]_vars => Conversation'
  BY ConversationInductive
<1>3. Init => Whole
  BY DEF Init, Whole
<1>4. IInv /\ Conversation /\ Whole /\ [Next]_vars => Whole'
  <2> SUFFICES ASSUME IInv, Conversation, Whole, [Next]_vars PROVE Whole'
    OBVIOUS
  <2>1. CASE ClientGreets \/ ClientLogsIn \/ ClientRequests
    BY <2>1, ClientSaysAll
  <2>2. CASE client_read
    BY <2>2, KeepsReading
  <2>3. CASE client_write
    BY <2>3, WriteShows
  <2>4. CASE ClientLeaves \/ ReadEnds
    BY <2>4 DEF ClientLeaves, ReadEnds, Close, Whole
  <2>5. CASE UNCHANGED vars
    BY <2>5 DEF vars, Whole, Sent
  <2>6. QED BY <2>1, <2>2, <2>3, <2>4, <2>5 DEF Next
<1>5. IInv /\ Conversation /\ Whole => NeverWaitsInVain
  <2> SUFFICES ASSUME IInv, Conversation, Whole, ~ ahead, ~ gone, open, interest = "READ",
                      wire = <<>>, said # Nothing
               PROVE  seen # <<>> /\ <<seen, stage>> \in Deserved
    BY DEF NeverWaitsInVain
  <2>1. seen # <<>>
    BY DEF Whole
  <2>2. JudgedAsSent /\ write_buffer = <<>> /\ write_off = 0
    BY DEF Conversation, Sending
  <2>3. Reply = seen
    BY <2>2, ReplyParts
  <2>4. <<Reply, stage>> \in Deserved
    BY <2>1, <2>2, <2>3 DEF JudgedAsSent, Reply, Unsent
  <2>5. QED BY <2>1, <2>3, <2>4
<1>6. QED BY <1>1, <1>2, <1>3, <1>4, <1>5, Inductive, PTL DEF Spec
=============================================================================
