---------------------------- MODULE MCHandshake ----------------------------
(***************************************************************************)
(* Small messages for Handshake: every version, command, type and reserved *)
(* byte right or wrong, texts of no, one or two bytes.  The longest, an    *)
(* IPv6 request, just fills the buffer.                                    *)
(***************************************************************************)
EXTENDS Handshake

Tables == {{}, {<<<<7>>, <<8, 9>>>>, <<<<7, 8>>, <<9>>>>}}

GreetingSet ==
    [ver : {4, 5}, methods : {<<>>, <<0>>, <<2>>, <<1, 0>>, <<0, 2>>}]

LoginSet ==
    [ver : {1, 5}, user : {<<7>>, <<7, 8>>}, pass : {<<>>, <<9>>, <<8, 9>>}]

Request(v, cmds, rsvs, t, hosts) ==
    [ver : {v}, cmd : cmds, rsv : rsvs, atyp : {t}, host : hosts, port : {<<1, 9>>}]
V4 == <<7, 0, 8, 1>>
V6 == <<1, 2, 3, 4, 5, 6, 7, 8, 9, 8, 7, 6, 5, 4, 3, 2>>
Names == {<<>>, <<6>>, <<6, 0, 7>>, <<9, 8, 7, 6, 5>>}

RequestSet ==
    Request(4, {1}, {0}, 1, {V4}) \cup Request(5, {1, 2}, {0, 1}, 1, {V4})
        \cup Request(5, {1, 2}, {0, 1}, 2, {<<2>>}) \cup Request(5, {1, 2}, {0, 1}, 3, Names)
        \cup Request(5, {1, 2}, {0, 1}, 4, {V6})

NothingAhead == {<<>>}

\* A client that does not wait: it sends a login with its greeting, or sends
\* one twice, or sends data with its request.
ShortGreetings == [ver : {5}, methods : {<<0>>, <<0, 2>>}]
ShortLogins == [ver : {1}, user : {<<7>>}, pass : {<<8, 9>>, <<>>}]
ShortRequests == Request(5, {1}, {0}, 4, {V6}) \cup Request(5, {1}, {0}, 3, {<<6>>})
LoginAhead == {<<>>, <<1, 1, 7, 2, 8, 9>>}
=============================================================================
