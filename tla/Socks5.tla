------------------------------- MODULE Socks5 -------------------------------
(***************************************************************************)
(* The codec of the handshake: socks5.c, and the parser of the user's      *)
(* message in auth.c.  A buffer b is a function from byte offsets, counted *)
(* from 0 as in C, to bytes.  Only its first len bytes have been received; *)
(* those after them are left over from earlier messages.                   *)
(***************************************************************************)
EXTENDS Naturals, Sequences

CONSTANT MaxByte                  \* UINT8_MAX

\* The protocol's numbers have to fit in a byte.
ASSUME MaxByteAssumption == MaxByte \in Nat /\ MaxByte > 8

Byte == 0 .. MaxByte

VERSION == 5
AUTH_VERSION == 1
NO_AUTH == 0
USERNAME_PASSWORD == 2
NO_ACCEPTABLE == MaxByte
CMD_CONNECT == 1
IPV4 == 1
DOMAIN_NAME == 3
IPV6 == 4
SUCCESS == 0
GENERAL_FAILURE == 1
COMMAND_NOT_SUPPORTED == 7
ADDRESS_TYPE_NOT_SUPPORTED == 8
AUTH_SUCCESS == 0
AUTH_FAILURE == 1
IPV4_REQUEST_SIZE == 10
IPV6_REQUEST_SIZE == 22

\* The n bytes of b from offset i.
Bytes(b, i, n) == [k \in 1 .. n |-> b[i + k - 1]]

-----------------------------------------------------------------------------
(* Replies: write_buffer after each of the socks5_prepare operations *)

GreetingResponse(method) == <<VERSION, method>>
AuthResponse(status) == <<AUTH_VERSION, status>>
RequestResponse(reply) == <<VERSION, reply, 0, IPV4, 0, 0, 0, 0, 0, 0>>

-----------------------------------------------------------------------------
(* The greeting: version, number of methods, methods *)

\* client_read returns to wait for more.
GreetingIsIncomplete(b, len) ==
    \/ len < 2
    \/ b[0] = VERSION /\ len < 2 + b[1]

\* socks5_client_offers_no_auth and socks5_client_offers_username_password.
ClientOffers(b, method) == \E i \in 1 .. b[1] : b[1 + i] = method

-----------------------------------------------------------------------------
(* The user's message: version, length, name, length, password *)

\* password_len_index and expected_len.
PasswordLenIndex(b) == 2 + b[1]
ExpectedLen(b) == PasswordLenIndex(b) + 1 + b[PasswordLenIndex(b)]

\* auth_parse_request returns false.
AuthIsIncomplete(b, len) ==
    \/ len < 2
    \/ /\ b[0] = AUTH_VERSION
       /\ len < PasswordLenIndex(b) + 1 \/ len < ExpectedLen(b)

\* The name and the password of a complete message.
Username(b) == Bytes(b, 2, b[1])
Password(b) == Bytes(b, PasswordLenIndex(b) + 1, b[PasswordLenIndex(b)])

\* Mutant: the name is enough.
AuthenticatedByName(b, users) ==
    b[0] = AUTH_VERSION /\ \E u \in users : u[1] = Username(b)

\* *authenticated, for a complete message; users holds <<name, password>> pairs.
Authenticated(b, users) ==
    b[0] = AUTH_VERSION /\ <<Username(b), Password(b)>> \in users

-----------------------------------------------------------------------------
(* The request: version, command, reserved, type, address, port *)

\* Mutant: a domain request is taken to end one byte early.
RequestIsIncompleteShort(b, len) ==
    \/ len < 4
    \/ b[3] = IPV4 /\ len < IPV4_REQUEST_SIZE
    \/ b[3] = IPV6 /\ len < IPV6_REQUEST_SIZE
    \/ b[3] = DOMAIN_NAME /\ (len < 5 \/ len < 5 + b[4] + 1)

\* Mutant: one byte more than an IPv6 request has is waited for.
RequestIsIncompleteLong(b, len) ==
    \/ len < 4
    \/ b[3] = IPV4 /\ len < IPV4_REQUEST_SIZE
    \/ b[3] = IPV6 /\ len < IPV6_REQUEST_SIZE + 1
    \/ b[3] = DOMAIN_NAME /\ (len < 5 \/ len < 5 + b[4] + 2)

socks5_request_is_incomplete(b, len) ==
    \/ len < 4
    \/ b[3] = IPV4 /\ len < IPV4_REQUEST_SIZE
    \/ b[3] = IPV6 /\ len < IPV6_REQUEST_SIZE
    \/ b[3] = DOMAIN_NAME /\ (len < 5 \/ len < 5 + b[4] + 2)

socks5_request_reply_for(b, len) ==
    IF len < 4 \/ b[0] # VERSION \/ b[2] # 0 THEN GENERAL_FAILURE
    ELSE IF b[1] # CMD_CONNECT THEN COMMAND_NOT_SUPPORTED
    ELSE IF b[3] \notin {IPV4, DOMAIN_NAME, IPV6} THEN ADDRESS_TYPE_NOT_SUPPORTED
    ELSE IF socks5_request_is_incomplete(b, len) THEN GENERAL_FAILURE
    ELSE SUCCESS

\* The port in network order at offset i.
Port(b, i) == (MaxByte + 1) * b[i] + b[i + 1]

\* host is used as a C string: it ends before its first NUL.
CString(s) ==
    LET n == CHOOSE k \in 0 .. Len(s) :
                /\ \A i \in 1 .. k : s[i] # 0
                /\ k < Len(s) => s[k + 1] = 0
    IN SubSeq(s, 1, n)

\* socks5_parse_connect_request returns true.
IsConnectRequest(b, len) ==
    /\ socks5_request_reply_for(b, len) = SUCCESS
    /\ b[3] = DOMAIN_NAME => b[4] # 0

\* The destination remember_request_destination keeps and the server connects to.
Destination(b) ==
    CASE b[3] = IPV4 -> [atyp |-> IPV4, host |-> Bytes(b, 4, 4), port |-> Port(b, 8)]
      [] b[3] = IPV6 -> [atyp |-> IPV6, host |-> Bytes(b, 4, 16), port |-> Port(b, 20)]
      [] b[3] = DOMAIN_NAME -> [atyp |-> DOMAIN_NAME, host |-> CString(Bytes(b, 5, b[4])),
                                port |-> Port(b, 5 + b[4])]
=============================================================================
