------------------------- MODULE Management_proofs -------------------------
(***************************************************************************)
(* Proofs about Management: types, the table of users, the answers that    *)
(* runs of client.c print, that table and connections implement the        *)
(* directory of module UserDirectory, and that client and server never     *)
(* wait for each other.                                                    *)
(***************************************************************************)
EXTENDS Management, FiniteSetTheorems, SequenceTheorems, NumberLemmas, TLAPS

UserRecords ==
    [in_use : BOOLEAN, username : Words \cup {NoWord}, password : Words \cup {NoWord}]
ClientRecords ==
    [at : {"idle", "sending", "printing", "dead"}, ours : BOOLEAN,
     args : Seq(Words), left : Seq(Symbols)]
ConnRecords ==
    [at : {"none", "queued", "reading", "writing"}, read_buffer : Seq(Symbols),
     words : Seq(Words), answer : Answers, write_len : Nat, write_off : Nat]
ToldRecords == [words : Seq(Words), answer : Answers, lines : Nat]

\* The users in the table t are users that could be added, each name once.
UsersOK(t) ==
    /\ t \in [Slots -> UserRecords]
    /\ \A i \in InUse(t) : t[i].username \in Words \ TooLong /\ t[i].password \in Words \ TooLong
    /\ \A i, j \in InUse(t) : t[i].username = t[j].username => i = j

\* Unit i of the line that client.c sends for args.
LineAt(args, i) == IF i <= Len(args) THEN args[i] ELSE EOL

\* What is in the server's buffer rb and after it in u begins the line for args.
Part(args, rb, u) ==
    /\ Len(rb) + Len(u) <= Len(args) + 1
    /\ \A i \in 1 .. Len(rb) : rb[i] = LineAt(args, i)
    /\ \A i \in 1 .. Len(u) : u[i] = LineAt(args, Len(rb) + i)

\* The line for args is in the server's buffer rb, and the rest of it in u.
OnTheWay(args, rb, u) == Part(args, rb, u) /\ Len(rb) + Len(u) = Len(args) + 1

\* The server's side k of a connection, u being on its way to it.
ConnOK(k, u) ==
    /\ k.at \in {"none", "queued"} => k.read_buffer = <<>>
    /\ k.at = "none" => u = <<>>
    /\ k.at = "reading" => Len(k.read_buffer) < BUFFER_SIZE - 1
    /\ k.at = "writing" => k.write_len = Lines(k.answer) /\ k.write_off < k.write_len

\* The client's side c, tl being what it was told.
ClientOK(c, k, u, tl) ==
    /\ c.at = "idle" => ~c.ours /\ k.at = "none"
    /\ c.at = "printing" => c.left = <<>>
    /\ c.at # "printing" => tl = NothingTold
    /\ c.at = "sending" => u = <<>> /\ k.at # "writing" /\ k.read_buffer = <<>>

\* A run of client.c that waits for its answer.
Printing(args, k, u, tl, srv) ==
    /\ k.at \in {"queued", "reading"} => tl = NothingTold /\ OnTheWay(args, k.read_buffer, u)
    /\ k.at = "writing" => /\ k.words = args
                           /\ tl.lines = k.write_off
                           /\ tl.lines > 0 => tl.words = args /\ tl.answer = k.answer
    /\ k.at = "none" /\ tl.lines > 0 =>
            tl.words = args /\ (srv # "gone" => tl.lines = Lines(tl.answer))

\* A run of client.c that was killed, with any part of its line sent.
Killed(args, k, u) ==
    /\ k.at \in {"queued", "reading"} => Part(args, k.read_buffer, u)
    /\ k.at = "writing" => k.words = args

RunOK(c, k, u, tl, srv) ==
    c.ours =>
        /\ Len(c.args) + 1 < BUFFER_SIZE
        /\ c.at = "sending" => c.left = c.args \o <<EOL>>
        /\ c.at = "printing" => Printing(c.args, k, u, tl, srv)
        /\ c.at = "dead" => Killed(c.args, k, u)

\* All that is known of a connection and the process at its other end.
SideOK(c, k, u, tl, srv) ==
    /\ c \in ClientRecords /\ k \in ConnRecords
    /\ u \in Seq(Symbols) /\ tl \in ToldRecords
    /\ ConnOK(k, u)
    /\ ClientOK(c, k, u, tl)
    /\ RunOK(c, k, u, tl, srv)

AdminOK(a) == SideOK(client[a], conn[a], up[a], told[a], server)

IInv ==
    /\ TypeOK
    /\ UsersOK(managed_users)
    /\ \A a \in Admins : AdminOK(a)

-----------------------------------------------------------------------------
(* The table of users *)

\* Sets of slots are finite, and have a lowest element.
LEMMA SlotSets ==
    ASSUME NEW S \in SUBSET Slots
    PROVE  /\ IsFiniteSet(S) /\ Cardinality(S) \in Nat
           /\ S # {} => Lowest(S) \in S
<1>1. Slots = 0 .. USERS_MAX - 1 /\ USERS_MAX - 1 \in Int /\ Slots \subseteq Nat
    BY ManagementAssumption DEF Slots
<1>2. IsFiniteSet(Slots)
    BY <1>1, FS_Interval
<1>3. IsFiniteSet(S)
    BY <1>2, FS_Subset
<1>4. Cardinality(S) \in Nat
    BY <1>3, FS_CardinalityType
<1>5. ASSUME S # {} PROVE Lowest(S) \in S
    <2>1. \E i \in S : \A j \in S : i <= j
        BY <1>1, <1>5, LeastExists
    <2> QED
        BY <2>1 DEF Lowest
<1> QED
    BY <1>3, <1>4, <1>5

\* users_count is a natural number.
LEMMA CountType ==
    ASSUME NEW t
    PROVE  users_count(t) \in Nat
<1>1. InUse(t) \in SUBSET Slots
    BY DEF InUse
<1> QED
    BY <1>1, SlotSets DEF users_count

\* users_add keeps names distinct.
LEMMA AddKeeps ==
    ASSUME NEW t, UsersOK(t), NEW u \in Words, NEW p \in Words
    PROVE  UsersOK(users_add(t, u, p))
<1>1. CASE AddResult(t, u, p) # "ok"
    BY <1>1 DEF users_add
<1>2. CASE AddResult(t, u, p) = "ok"
    <2> DEFINE i == Lowest(Slots \ InUse(t))
               r == [in_use |-> TRUE, username |-> u, password |-> p]
               v == users_add(t, u, p)
    <2>1. /\ u \notin TooLong /\ p \notin TooLong /\ Found(t, u) = {} /\ InUse(t) # Slots
        BY <1>2 DEF AddResult, field_is_valid
    <2>2. InUse(t) \subseteq Slots /\ Slots \ InUse(t) # {}
        BY <2>1 DEF InUse
    <2>3. i \in Slots /\ i \notin InUse(t)
        BY <2>2, SlotSets
    <2>4. v = [t EXCEPT ![i] = r]
        BY <1>2 DEF users_add
    <2>5. r \in UserRecords /\ r.in_use /\ r.username = u /\ r.password = p
        BY DEF UserRecords
    <2> HIDE DEF i, r, v
    <2>6. v \in [Slots -> UserRecords] /\ v[i] = r /\ \A j \in Slots : j # i => v[j] = t[j]
        BY <2>3, <2>4, <2>5 DEF UsersOK
    <2>7. InUse(v) = InUse(t) \cup {i}
        BY <2>3, <2>5, <2>6 DEF InUse
    <2>8. \A j \in InUse(t) : t[j].username # u
        BY <2>1, <2>2 DEF Found, InUse
    <2>9. \A j \in InUse(v) : v[j].username \in Words \ TooLong /\ v[j].password \in Words \ TooLong
        BY <2>1, <2>2, <2>3, <2>5, <2>6, <2>7 DEF UsersOK
    <2>10. \A j, k \in InUse(v) : v[j].username = v[k].username => j = k
        BY <2>2, <2>3, <2>5, <2>6, <2>7, <2>8 DEF UsersOK
    <2> QED
        BY <2>6, <2>9, <2>10 DEF UsersOK, v
<1> QED
    BY <1>1, <1>2

\* users_remove only empties a slot.
LEMMA RemoveKeeps ==
    ASSUME NEW t, UsersOK(t), NEW u
    PROVE  UsersOK(users_remove(t, u))
<1>1. CASE RemoveResult(t, u) # "ok"
    BY <1>1 DEF users_remove
<1>2. CASE RemoveResult(t, u) = "ok"
    <2> DEFINE i == Lowest(Found(t, u))
               v == users_remove(t, u)
    <2>1. Found(t, u) # {} /\ Found(t, u) \subseteq Slots
        BY <1>2 DEF RemoveResult, Found
    <2>2. i \in Slots
        BY <2>1, SlotSets
    <2>3. v = [t EXCEPT ![i] = NoUser]
        BY <1>2 DEF users_remove
    <2>4. NoUser \in UserRecords /\ NoUser.in_use = FALSE
        BY DEF NoUser, UserRecords
    <2> HIDE DEF i, v
    <2>5. v \in [Slots -> UserRecords] /\ v[i] = NoUser /\ \A j \in Slots : j # i => v[j] = t[j]
        BY <2>2, <2>3, <2>4 DEF UsersOK
    <2>6. \A j \in InUse(v) : j \in InUse(t) /\ v[j] = t[j]
        BY <2>4, <2>5 DEF InUse
    <2> QED
        BY <2>5, <2>6 DEF UsersOK, v
<1> QED
    BY <1>1, <1>2

-----------------------------------------------------------------------------
(* management_prepare_response *)

\* A command that changes the table has its arguments.
LEMMA KindFacts ==
    ASSUME NEW words \in Seq(Words)
    PROVE  /\ Kind(words) \in Kinds
           /\ Kind(words) = "adduser" => words[2] \in Words /\ words[3] \in Words
           /\ Kind(words) = "deluser" => words[2] \in Words
<1>1. CASE words = <<>>
    BY <1>1 DEF Kind, Kinds
<1>2. CASE words # <<>> /\ Head(words) \notin DOMAIN Keywords
    BY <1>2 DEF Kind, Kinds
<1>3. CASE words # <<>> /\ Head(words) \in DOMAIN Keywords
    <2> DEFINE kind == Keywords[Head(words)]
    <2>1. kind \in {"stats", "users", "adduser", "deluser", "bye", "help"}
        BY <1>3 DEF Keywords
    <2>2. Kind(words) = IF \/ kind = "adduser" /\ Len(words) # 3
                           \/ kind = "deluser" /\ Len(words) # 2
                        THEN "usage" ELSE kind
        BY <1>3 DEF Kind
    <2> HIDE DEF kind
    <2>3. Kind(words) \in Kinds
        BY <2>1, <2>2 DEF Kinds
    <2>4. Kind(words) = "adduser" => Len(words) = 3
        BY <2>1, <2>2
    <2>5. Kind(words) = "deluser" => Len(words) = 2
        BY <2>1, <2>2
    <2> QED
        BY <2>3, <2>4, <2>5
<1> QED
    BY <1>1, <1>2, <1>3

\* No command breaks the table.
LEMMA ExecutedKeeps ==
    ASSUME NEW t, UsersOK(t), NEW words \in Seq(Words)
    PROVE  UsersOK(Executed(t, words))
<1>1. CASE Kind(words) = "adduser"
    BY <1>1, KindFacts, AddKeeps DEF Executed
<1>2. CASE Kind(words) = "deluser"
    BY <1>2, KindFacts, RemoveKeeps DEF Executed
<1>3. CASE Kind(words) \notin {"adduser", "deluser"}
    BY <1>3 DEF Executed
<1> QED
    BY <1>1, <1>2, <1>3

\* An answer has its type and at least one line.
LEMMA AnswerType ==
    ASSUME NEW t, UsersOK(t), NEW words \in Seq(Words)
    PROVE  Answer(t, words) \in Answers /\ Lines(Answer(t, words)) \in Nat \ {0}
<1> DEFINE kind == Kind(words)
           count == Counted(t, words)
           listed == {j \in InUse(t) : Rank(t, j) < Shown}
           next == {j \in InUse(t) : Rank(t, j) = Shown}
<1>1. kind \in Kinds
    BY KindFacts
<1>2. count \in Nat
    BY CountType DEF Counted
<1>3. listed \in SUBSET Slots /\ listed \subseteq InUse(t)
    BY DEF InUse
<1>4. Listed(t) = {t[i].username : i \in listed}
    BY DEF Listed
<1> HIDE DEF listed
<1>5. Listed(t) \subseteq Words
    BY <1>3, <1>4 DEF UsersOK
<1>6. Cardinality(Listed(t)) \in Nat
    <2>1. IsFiniteSet(listed)
        BY <1>3, SlotSets
    <2>2. IsFiniteSet(Listed(t))
        <3> DEFINE name == [i \in listed |-> t[i].username]
        <3>1. name \in Surjection(listed, Listed(t))
            BY <1>4 DEF Surjection
        <3> HIDE DEF name
        <3> QED
            BY <2>1, <3>1, FS_Surjection
    <2> QED
        BY <2>2, FS_CardinalityType
<1> DEFINE part == Cut(t)
<1>14. part \in Words \cup {NoWord}
    <2>1. next \in SUBSET Slots /\ next \subseteq InUse(t)
        BY DEF InUse
    <2>2. part = IF RoomForPart /\ next # {} THEN Fragment[t[Lowest(next)].username] ELSE NoWord
        BY DEF Cut
    <2> HIDE DEF next, part
    <2>3. ASSUME next # {} PROVE t[Lowest(next)].username \in Words
        BY <2>1, <2>3, SlotSets DEF UsersOK
    <2> QED
        BY <2>2, <2>3, ManagementAssumption
<1> HIDE DEF kind, count, part
<1>7. ASSUME NEW k \in Kinds PROVE Plain(k) \in Answers /\ Plain(k).kind = k
    BY DEF Plain, Answers, Results
<1>8. AddResult(t, words[2], words[3]) \in Results
    BY DEF AddResult, Results
<1>9. RemoveResult(t, words[2]) \in Results
    BY DEF RemoveResult, Results
<1>10. CASE kind = "adduser"
    <2>1. Answer(t, words) = [Plain(kind) EXCEPT !.result = AddResult(t, words[2], words[3]),
                                                 !.count = count]
        BY <1>10 DEF Answer, kind, count
    <2>2. Answer(t, words) \in Answers /\ Answer(t, words).kind = "adduser"
        BY <1>1, <1>2, <1>7, <1>8, <1>10, <2>1 DEF Answers
    <2> QED
        BY <2>2 DEF Lines
<1>11. CASE kind = "deluser"
    <2>1. Answer(t, words) = [Plain(kind) EXCEPT !.result = RemoveResult(t, words[2]),
                                                 !.count = count]
        BY <1>11 DEF Answer, kind, count
    <2>2. Answer(t, words) \in Answers /\ Answer(t, words).kind = "deluser"
        BY <1>1, <1>2, <1>7, <1>9, <1>11, <2>1 DEF Answers
    <2> QED
        BY <2>2 DEF Lines
<1>12. CASE kind = "users"
    <2>1. Answer(t, words) = [Plain(kind) EXCEPT !.count = count, !.names = Listed(t),
                                                 !.cut = part]
        BY <1>12 DEF Answer, kind, count, part
    <2>2. /\ Answer(t, words) \in Answers
          /\ Answer(t, words).kind = "users" /\ Answer(t, words).names = Listed(t)
        BY <1>1, <1>2, <1>5, <1>7, <1>12, <1>14, <2>1 DEF Answers
    <2> QED
        BY <1>6, <2>2 DEF Lines
<1>13. CASE kind \notin {"adduser", "deluser", "users"}
    <2>1. Answer(t, words) = Plain(kind)
        BY <1>13 DEF Answer, kind
    <2> QED
        BY <1>1, <1>7, <1>13, <2>1 DEF Lines
<1> QED
    BY <1>10, <1>11, <1>12, <1>13

\* The first line of a buffer has no end of line in it.
LEMMA FirstLineType ==
    ASSUME NEW buffer \in Seq(Symbols)
    PROVE  FirstLine(buffer) \in Seq(Words)
<1> DEFINE ends == {i \in 1 .. Len(buffer) : buffer[i] = EOL}
<1>1. \A i \in 1 .. Len(buffer) : buffer[i] \in Words \/ buffer[i] = EOL
    BY DEF Symbols
<1>2. CASE ends = {}
    <2>1. FirstLine(buffer) = buffer
        BY <1>2 DEF FirstLine
    <2>2. \A i \in 1 .. Len(buffer) : buffer[i] \in Words
        BY <1>1, <1>2
    <2> QED
        BY <2>1, <2>2
<1>3. CASE ends # {}
    <2> DEFINE m == CHOOSE i \in ends : \A j \in ends : i <= j
    <2>1. ends \in SUBSET Nat
        OBVIOUS
    <2>2. \E i \in ends : \A j \in ends : i <= j
        BY <1>3, <2>1, LeastExists
    <2>3. m \in ends /\ \A j \in ends : m <= j
        BY <2>2
    <2>4. FirstLine(buffer) = SubSeq(buffer, 1, m - 1)
        BY <1>3 DEF FirstLine
    <2> HIDE DEF m
    <2>5. m \in 1 .. Len(buffer)
        BY <2>3
    <2>6. ASSUME NEW i \in 1 .. m - 1 PROVE buffer[i] \in Words
        <3>1. i \in 1 .. Len(buffer) /\ i \notin ends
            BY <2>3, <2>5
        <3> QED
            BY <1>1, <3>1
    <2> QED
        BY <2>4, <2>5, <2>6
<1> QED
    BY <1>2, <1>3

\* The first line of the line for args is args.
LEMMA FirstLineOfArgs ==
    ASSUME NEW args \in Seq(Words), NEW buffer \in Seq(Symbols),
           Len(buffer) = Len(args) + 1,
           \A i \in 1 .. Len(buffer) : buffer[i] = LineAt(args, i)
    PROVE  FirstLine(buffer) = args
<1> DEFINE ends == {i \in 1 .. Len(buffer) : buffer[i] = EOL}
           n == Len(args) + 1
<1>1. n \in Nat /\ n \in 1 .. Len(buffer) /\ Len(args) \in Nat
    OBVIOUS
<1>2. buffer[n] = EOL
    BY <1>1 DEF LineAt
<1>3. ASSUME NEW i \in 1 .. Len(args) PROVE buffer[i] = args[i] /\ args[i] # EOL
    BY ManagementAssumption DEF LineAt
<1>4. ends = {n}
    <2>1. ASSUME NEW i \in ends PROVE i = n
        BY <1>1, <1>3
    <2> QED
        BY <1>1, <1>2, <2>1
<1>5. FirstLine(buffer) = SubSeq(buffer, 1, n - 1)
    <2>1. (CHOOSE i \in ends : \A j \in ends : i <= j) = n
        BY <1>1, <1>4
    <2> QED
        BY <1>4, <2>1 DEF FirstLine
<1>6. SubSeq(buffer, 1, n - 1) = args
    <2>1. SubSeq(buffer, 1, n - 1) \in Seq(Symbols) /\ Len(SubSeq(buffer, 1, n - 1)) = Len(args)
        BY <1>1
    <2>2. \A i \in 1 .. Len(args) : SubSeq(buffer, 1, n - 1)[i] = args[i]
        BY <1>1, <1>3
    <2>3. args \in Seq(Symbols)
        BY DEF Symbols
    <2> QED
        BY <2>1, <2>2, <2>3, SeqEqual
<1> QED
    BY <1>5, <1>6

-----------------------------------------------------------------------------
(* One step *)

\* Of the function f, the step that leads to g changes the value at a only.
OnlyAt(a, f, g) == g = [b \in Admins |-> IF b = a THEN g[a] ELSE f[b]]

\* A step of one connection keeps the invariant if it keeps what is known of
\* that connection.
LEMMA OneAdmin ==
    ASSUME IInv, NEW a \in Admins,
           OnlyAt(a, client, client'), OnlyAt(a, up, up'),
           OnlyAt(a, conn, conn'), OnlyAt(a, told, told'),
           server' = server, free' = free, configured' \in 0 .. InitialCount,
           UsersOK(managed_users'), AdminOK(a)'
    PROVE  IInv'
<1>1. ASSUME NEW b \in Admins PROVE AdminOK(b)'
    <2>1. CASE b = a
        BY <2>1
    <2>2. CASE b # a
        <3>1. client'[b] = client[b] /\ up'[b] = up[b] /\ conn'[b] = conn[b] /\ told'[b] = told[b]
            BY <2>2 DEF OnlyAt
        <3>2. AdminOK(b)
            BY DEF IInv
        <3> QED
            BY <3>1, <3>2 DEF AdminOK
    <2> QED
        BY <2>1, <2>2
<1>2. \A b \in Admins : /\ client'[b] \in ClientRecords /\ conn'[b] \in ConnRecords
                         /\ up'[b] \in Seq(Symbols) /\ told'[b] \in ToldRecords
                         /\ ConnOK(conn'[b], up'[b])
    BY <1>1 DEF AdminOK, SideOK
<1>3. /\ client' \in [Admins -> ClientRecords] /\ conn' \in [Admins -> ConnRecords]
      /\ up' \in [Admins -> Seq(Symbols)] /\ told' \in [Admins -> ToldRecords]
    <2> DEFINE fc == client'
               fk == conn'
               fu == up'
               ft == told'
    <2>1. fc \in [Admins -> ClientRecords]
        BY <1>2 DEF OnlyAt
    <2>2. fk \in [Admins -> ConnRecords]
        BY <1>2 DEF OnlyAt
    <2>3. fu \in [Admins -> Seq(Symbols)]
        BY <1>2 DEF OnlyAt
    <2>4. ft \in [Admins -> ToldRecords]
        BY <1>2 DEF OnlyAt
    <2> QED
        BY <2>1, <2>2, <2>3, <2>4
<1>4. \A b \in Admins : conn'[b].at = "reading" => Len(conn'[b].read_buffer) < BUFFER_SIZE - 1
    BY <1>2 DEF ConnOK
<1>5. server' \in {"running", "closing", "gone"} /\ free' \in BOOLEAN
    BY DEF IInv, TypeOK
<1>6. managed_users' \in [Slots -> UserRecords]
    BY DEF UsersOK
<1>7. TypeOK'
    BY <1>3, <1>4, <1>5, <1>6 DEF TypeOK, UserRecords, ClientRecords, ConnRecords, ToldRecords
<1> QED
    BY <1>1, <1>7 DEF IInv

\* What a step of one connection starts from.
LEMMA Before ==
    ASSUME IInv, NEW a \in Admins
    PROVE  /\ client \in [Admins -> ClientRecords] /\ conn \in [Admins -> ConnRecords]
           /\ up \in [Admins -> Seq(Symbols)] /\ told \in [Admins -> ToldRecords]
           /\ configured \in 0 .. InitialCount /\ UsersOK(managed_users)
           /\ SideOK(client[a], conn[a], up[a], told[a], server)
<1>1. /\ client \in [Admins -> ClientRecords] /\ conn \in [Admins -> ConnRecords]
      /\ up \in [Admins -> Seq(Symbols)] /\ told \in [Admins -> ToldRecords]
    BY DEF IInv, TypeOK, ClientRecords, ConnRecords, ToldRecords
<1> QED
    BY <1>1 DEF IInv, TypeOK, AdminOK

\* The values a connection starts from and returns to.
LEMMA Empty ==
    /\ NoClient \in ClientRecords /\ NoConn \in ConnRecords /\ NothingTold \in ToldRecords
    /\ NoClient.at = "idle" /\ NoClient.ours = FALSE /\ NoClient.left = <<>>
    /\ NoConn.at = "none" /\ NoConn.read_buffer = <<>>
    /\ NothingTold.lines = 0
    /\ <<>> \in Seq(Symbols)
<1>1. Plain("none") \in Answers
    BY DEF Plain, Answers, Kinds, Results
<1>2. <<>> \in Seq(Symbols) /\ <<>> \in Seq(Words)
    OBVIOUS
<1> QED
    BY <1>1, <1>2 DEF NoClient, NoConn, NothingTold, ClientRecords, ConnRecords, ToldRecords

\* The server starts with an empty table and no connection.
LEMMA InitialState == Init => IInv
<1> SUFFICES ASSUME Init PROVE IInv
    OBVIOUS
<1>1. InitialCount \in Nat
    BY ManagementAssumption DEF InitialCount
<1>2. NoUser \in UserRecords /\ NoUser.in_use = FALSE
    BY DEF NoUser, UserRecords
<1>3. managed_users \in [Slots -> UserRecords] /\ InUse(managed_users) = {}
    BY <1>2 DEF Init, InUse
<1>4. UsersOK(managed_users)
    BY <1>3 DEF UsersOK
<1>5. ASSUME NEW a \in Admins PROVE AdminOK(a)
    <2>1. client[a] = NoClient /\ conn[a] = NoConn /\ up[a] = <<>> /\ told[a] = NothingTold
        BY DEF Init
    <2> QED
        BY <2>1, Empty DEF AdminOK, SideOK, ConnOK, ClientOK, RunOK
<1>6. /\ client \in [Admins -> ClientRecords] /\ conn \in [Admins -> ConnRecords]
      /\ up \in [Admins -> Seq(Symbols)] /\ told \in [Admins -> ToldRecords]
      /\ \A a \in Admins : conn[a].at = "none"
    BY Empty DEF Init
<1>7. TypeOK
    BY <1>1, <1>3, <1>6 DEF Init, TypeOK, UserRecords, ClientRecords, ConnRecords, ToldRecords
<1> QED
    BY <1>4, <1>5, <1>7 DEF IInv

\* users_init_from_args touches the table only.
LEMMA ConfigureKeeps == IInv /\ users_init_from_args => IInv'
<1> SUFFICES ASSUME IInv, users_init_from_args PROVE IInv'
    OBVIOUS
<1>1. configured' \in 1 .. InitialCount /\ configured' \in 1 .. Len(InitialUsers)
    BY ManagementAssumption DEF IInv, TypeOK, users_init_from_args, Started, InitialCount
<1> DEFINE u == InitialUsers[configured']
<1>2. u \in Words \X Words
    BY <1>1, ManagementAssumption
<1>3. u[1] \in Words /\ u[2] \in Words
    BY <1>2
<1>4. managed_users' = users_add(managed_users, u[1], u[2])
    BY DEF users_init_from_args
<1> HIDE DEF u
<1>5. UsersOK(managed_users')
    BY <1>3, <1>4, AddKeeps DEF IInv
<1>6. \A a \in Admins : AdminOK(a)'
    BY DEF IInv, AdminOK, users_init_from_args
<1>7. configured' \in 0 .. InitialCount
    BY <1>1
<1>8. TypeOK'
    BY <1>5, <1>7 DEF IInv, TypeOK, UsersOK, UserRecords, users_init_from_args
<1> QED
    BY <1>5, <1>6, <1>8 DEF IInv

-----------------------------------------------------------------------------
(* Steps of clients *)

\* A run of client.c starts, or ends at once.
LEMMA RunClientKeeps ==
    ASSUME IInv, NEW a \in Admins, NEW given \in BOOLEAN, NEW args \in ArgLists,
           RunClient(a, given, args)
    PROVE  IInv'
<1> DEFINE command == build_command(given, args)
           line == command \o <<EOL>>
<1>1. command \in Seq(Words)
    BY ManagementAssumption DEF build_command
<1>2. line \in Seq(Symbols) /\ Len(line) = Len(command) + 1
    BY <1>1 DEF Symbols
<1>3. /\ told[a] = NothingTold /\ up[a] = <<>> /\ conn[a].at = "none"
      /\ conn[a].read_buffer = <<>>
    BY Before DEF RunClient, Unused, SideOK, ClientOK, ConnOK
<1>4. UNCHANGED <<managed_users, configured, server, up, told, free>>
    BY DEF RunClient
<1>5. OnlyAt(a, up, up') /\ OnlyAt(a, told, told')
    BY <1>4, Before DEF OnlyAt
<1> DEFINE queued == [NoConn EXCEPT !.at = "queued"]
           dead == [NoClient EXCEPT !.at = "dead"]
           sending == [at |-> "sending", ours |-> TRUE, args |-> command, left |-> line]
<1>6. queued \in ConnRecords /\ queued.at = "queued" /\ queued.read_buffer = <<>>
    BY Empty DEF ConnRecords
<1>7. dead \in ClientRecords /\ dead.at = "dead" /\ dead.ours = FALSE
    BY Empty DEF ClientRecords
<1>8. /\ sending \in ClientRecords
      /\ sending.at = "sending" /\ sending.args = command /\ sending.left = line
    BY <1>1, <1>2 DEF ClientRecords
<1>9. CASE FitsClient(command) /\ server = "running"
    <2>1. /\ client' = [client EXCEPT ![a] = IF FitsClient(line) THEN sending ELSE dead]
          /\ conn' = [conn EXCEPT ![a] = queued]
        BY <1>9 DEF RunClient
    <2> HIDE DEF queued, dead, sending
    <2>2. /\ OnlyAt(a, client, client') /\ OnlyAt(a, conn, conn') /\ conn'[a] = queued
          /\ client'[a] = IF FitsClient(line) THEN sending ELSE dead
        BY <2>1, Before DEF OnlyAt
    <2>3. ConnOK(queued, <<>>)
        BY <1>6 DEF ConnOK
    <2>4. CASE FitsClient(line)
        <3>1. Len(command) + 1 < BUFFER_SIZE
            BY <1>2, <2>4 DEF FitsClient
        <3>2. RunOK(sending, queued, <<>>, NothingTold, server)
            BY <1>1, <1>8, <3>1 DEF RunOK
        <3>3. ClientOK(sending, queued, <<>>, NothingTold)
            BY <1>6, <1>8 DEF ClientOK
        <3>4. SideOK(sending, queued, <<>>, NothingTold, server)
            BY <1>6, <1>8, <2>3, <3>2, <3>3, Empty DEF SideOK
        <3>5. AdminOK(a)'
            BY <1>3, <1>4, <2>2, <2>4, <3>4 DEF AdminOK
        <3> QED
            BY <1>4, <1>5, <2>2, <3>5, Before, OneAdmin
    <2>5. CASE ~FitsClient(line)
        <3>1. SideOK(dead, queued, <<>>, NothingTold, server)
            BY <1>6, <1>7, <2>3, Empty DEF SideOK, ClientOK, RunOK
        <3>2. AdminOK(a)'
            BY <1>3, <1>4, <2>2, <2>5, <3>1 DEF AdminOK
        <3> QED
            BY <1>4, <1>5, <2>2, <3>2, Before, OneAdmin
    <2> QED
        BY <2>4, <2>5
<1>10. CASE ~(FitsClient(command) /\ server = "running")
    <2>1. client' = [client EXCEPT ![a] = NoClient] /\ conn' = conn
        BY <1>10 DEF RunClient
    <2>2. OnlyAt(a, client, client') /\ OnlyAt(a, conn, conn') /\ client'[a] = NoClient
        BY <2>1, Before DEF OnlyAt
    <2>3. SideOK(NoClient, conn[a], <<>>, NothingTold, server)
        BY <1>3, Before, Empty DEF SideOK, ConnOK, ClientOK, RunOK
    <2>4. AdminOK(a)'
        BY <1>3, <1>4, <2>1, <2>2, <2>3 DEF AdminOK
    <2> QED
        BY <1>4, <1>5, <2>2, <2>4, Before, OneAdmin
<1> QED
    BY <1>9, <1>10

\* Another program connects.
LEMMA RunOtherKeeps ==
    ASSUME IInv, NEW a \in Admins, NEW stream \in Streams, RunOther(a, stream)
    PROVE  IInv'
<1>1. stream \in Seq(Symbols)
    BY ManagementAssumption DEF Symbols
<1>2. told[a] = NothingTold /\ up[a] = <<>>
    BY Before DEF RunOther, Unused, SideOK, ClientOK, ConnOK
<1> DEFINE queued == [NoConn EXCEPT !.at = "queued"]
           sending == [at |-> "sending", ours |-> FALSE, args |-> <<>>, left |-> stream]
<1>3. queued \in ConnRecords /\ queued.at = "queued" /\ queued.read_buffer = <<>>
    BY Empty DEF ConnRecords
<1>4. sending \in ClientRecords /\ sending.at = "sending" /\ sending.ours = FALSE
    BY <1>1 DEF ClientRecords
<1>5. /\ client' = [client EXCEPT ![a] = sending]
      /\ conn' = [conn EXCEPT ![a] = queued]
      /\ UNCHANGED <<managed_users, configured, server, up, told, free>>
    BY DEF RunOther
<1> HIDE DEF queued, sending
<1>6. /\ OnlyAt(a, client, client') /\ OnlyAt(a, conn, conn')
      /\ OnlyAt(a, up, up') /\ OnlyAt(a, told, told')
      /\ conn'[a] = queued /\ client'[a] = sending
    BY <1>5, Before DEF OnlyAt
<1>7. SideOK(sending, queued, <<>>, NothingTold, server)
    BY <1>3, <1>4, Empty DEF SideOK, ConnOK, ClientOK, RunOK
<1>8. AdminOK(a)'
    BY <1>2, <1>5, <1>6, <1>7 DEF AdminOK
<1> QED
    BY <1>5, <1>6, <1>8, Before, OneAdmin

\* The first n units of the line for args are a part of it.
LEMMA PartOfLine ==
    ASSUME NEW args \in Seq(Words), NEW n \in 0 .. Len(args) + 1
    PROVE  /\ Part(args, <<>>, SubSeq(args \o <<EOL>>, 1, n))
           /\ Len(SubSeq(args \o <<EOL>>, 1, n)) = n
           /\ SubSeq(args \o <<EOL>>, 1, Len(args) + 1) = args \o <<EOL>>
<1> DEFINE line == args \o <<EOL>>
           part == SubSeq(line, 1, n)
<1>1. line \in Seq(Symbols) /\ Len(line) = Len(args) + 1 /\ Len(args) \in Nat
    BY DEF Symbols
<1>2. \A i \in 1 .. Len(line) : line[i] = LineAt(args, i)
    BY <1>1 DEF LineAt
<1> HIDE DEF line
<1>3. Len(part) = n /\ \A i \in 1 .. n : part[i] = line[i]
    BY <1>1
<1>4. \A i \in 1 .. n : i \in 1 .. Len(line) /\ Len(<<>>) + i = i
    BY <1>1
<1>5. Len(<<>>) = 0 /\ n <= Len(args) + 1 /\ n \in Nat
    BY <1>1
<1>6. SubSeq(line, 1, Len(args) + 1) = line
    <2>1. SubSeq(line, 1, Len(line)) = line
        BY <1>1, SubSeqFull
    <2> QED
        BY <1>1, <2>1
<1> HIDE DEF part
<1>7. Part(args, <<>>, part)
    BY <1>2, <1>3, <1>4, <1>5 DEF Part
<1> QED
    BY <1>3, <1>6, <1>7 DEF part, line

\* The whole line is on its way once the client has sent it.
LEMMA LineOnTheWay ==
    ASSUME NEW args \in Seq(Words)
    PROVE  OnTheWay(args, <<>>, args \o <<EOL>>)
<1> DEFINE n == Len(args) + 1
           line == args \o <<EOL>>
<1>1. n \in 0 .. Len(args) + 1 /\ Len(<<>>) + n = n
    OBVIOUS
<1>2. Part(args, <<>>, SubSeq(line, 1, n)) /\ Len(SubSeq(line, 1, n)) = n /\ SubSeq(line, 1, n) = line
    BY <1>1, PartOfLine
<1> HIDE DEF line
<1>3. OnTheWay(args, <<>>, line)
    BY <1>1, <1>2 DEF OnTheWay
<1> QED
    BY <1>3 DEF line

\* send_command puts the whole line on its way.
LEMMA SendsKeeps ==
    ASSUME IInv, NEW a \in Admins, Sends(a)
    PROVE  IInv'
<1>1. UNCHANGED <<managed_users, configured, server, conn, told, free>>
    BY DEF Sends
<1>2. OnlyAt(a, conn, conn') /\ OnlyAt(a, told, told')
    BY <1>1, Before DEF OnlyAt
<1>3. /\ told[a] = NothingTold /\ up[a] = <<>> /\ conn[a].at # "writing"
      /\ conn[a].read_buffer = <<>> /\ client[a].at = "sending"
    BY Before DEF Sends, SideOK, ClientOK
<1>4. CASE conn[a].at = "none"
    <2>1. client' = [client EXCEPT ![a] = NoClient] /\ up' = up
        BY <1>4 DEF Sends
    <2>2. OnlyAt(a, client, client') /\ OnlyAt(a, up, up') /\ client'[a] = NoClient
        BY <2>1, Before DEF OnlyAt
    <2>3. SideOK(NoClient, conn[a], <<>>, NothingTold, server)
        BY <1>3, <1>4, Before, Empty DEF SideOK, ConnOK, ClientOK, RunOK
    <2>4. AdminOK(a)'
        BY <1>1, <1>3, <2>1, <2>2, <2>3 DEF AdminOK
    <2> QED
        BY <1>1, <1>2, <2>2, <2>4, Before, OneAdmin
<1>5. CASE conn[a].at # "none"
    <2> DEFINE c == client[a]
               d == [c EXCEPT !.left = <<>>, !.at = "printing"]
    <2>1. c \in ClientRecords /\ c.left \in Seq(Symbols) /\ c.args \in Seq(Words)
        BY Before DEF ClientRecords
    <2>2. /\ d \in ClientRecords /\ d.at = "printing" /\ d.args = c.args
          /\ d.ours = c.ours /\ d.left = <<>>
        <3> HIDE DEF c
        <3> DEFINE e == [c EXCEPT !.left = <<>>]
        <3>1. e \in ClientRecords /\ e.args = c.args /\ e.ours = c.ours /\ e.left = <<>>
            BY <2>1, Empty DEF ClientRecords
        <3> HIDE DEF e
        <3>2. d = [e EXCEPT !.at = "printing"]
            BY DEF e
        <3> QED
            BY <3>1, <3>2 DEF ClientRecords
    <2>3. client' = [client EXCEPT ![a] = d] /\ up' = [up EXCEPT ![a] = c.left]
        BY <1>5, Before DEF Sends
    <2> HIDE DEF d
    <2>4. /\ OnlyAt(a, client, client') /\ OnlyAt(a, up, up')
          /\ client'[a] = d /\ up'[a] = c.left
        BY <2>3, Before DEF OnlyAt
    <2>5. RunOK(d, conn[a], c.left, NothingTold, server)
        <3>1. SUFFICES ASSUME d.ours
                       PROVE  /\ Len(d.args) + 1 < BUFFER_SIZE
                              /\ Printing(d.args, conn[a], c.left, NothingTold, server)
            BY <2>2 DEF RunOK
        <3>2. Len(c.args) + 1 < BUFFER_SIZE /\ c.left = c.args \o <<EOL>>
            BY <1>3, <2>2, <3>1, Before DEF SideOK, RunOK
        <3>3. OnTheWay(d.args, conn[a].read_buffer, c.left)
            BY <1>3, <2>1, <2>2, <3>2, LineOnTheWay
        <3> QED
            BY <1>3, <1>5, <2>2, <3>2, <3>3, Empty DEF Printing
    <2>6. SideOK(d, conn[a], c.left, NothingTold, server)
        BY <1>3, <1>5, <2>1, <2>2, <2>5, Before, Empty DEF SideOK, ConnOK, ClientOK
    <2>7. AdminOK(a)'
        BY <1>1, <1>3, <2>4, <2>6 DEF AdminOK
    <2> QED
        BY <1>1, <1>2, <2>4, <2>7, Before, OneAdmin
<1> QED
    BY <1>4, <1>5

\* print_response ends.
LEMMA EndsPrintingKeeps ==
    ASSUME IInv, NEW a \in Admins, EndsPrinting(a)
    PROVE  IInv'
<1>1. /\ client' = [client EXCEPT ![a] = NoClient]
      /\ told' = [told EXCEPT ![a] = NothingTold]
      /\ UNCHANGED <<managed_users, configured, server, up, conn, free>>
      /\ conn[a].at = "none"
    BY DEF EndsPrinting
<1>2. /\ OnlyAt(a, client, client') /\ OnlyAt(a, conn, conn')
      /\ OnlyAt(a, up, up') /\ OnlyAt(a, told, told')
      /\ client'[a] = NoClient /\ told'[a] = NothingTold
    BY <1>1, Before DEF OnlyAt
<1>3. SideOK(NoClient, conn[a], up[a], NothingTold, server)
    BY <1>1, Before, Empty DEF SideOK, ConnOK, ClientOK, RunOK
<1>4. AdminOK(a)'
    BY <1>1, <1>2, <1>3 DEF AdminOK
<1> QED
    BY <1>1, <1>2, <1>4, Before, OneAdmin

\* A client is killed: what it has sent is a part of its line, and nobody waits
\* for its answer any more.
LEMMA DiesKeeps ==
    ASSUME IInv, NEW a \in Admins, NEW n \in 0 .. Len(client[a].left), Dies(a, n)
    PROVE  IInv'
<1> DEFINE c == client[a]
           k == conn[a]
           dead == [c EXCEPT !.at = "dead", !.left = <<>>]
           part == SubSeq(c.left, 1, n)
           u == IF k.at = "none" THEN up[a] ELSE up[a] \o part
<1>1. /\ c \in ClientRecords /\ c.left \in Seq(Symbols) /\ c.args \in Seq(Words)
      /\ up[a] \in Seq(Symbols) /\ c.at \in {"sending", "printing"}
    BY Before DEF Dies, ClientRecords
<1>2. /\ dead \in ClientRecords /\ dead.at = "dead"
      /\ dead.args = c.args /\ dead.ours = c.ours
    <2> HIDE DEF c
    <2> DEFINE e == [c EXCEPT !.at = "dead"]
    <2>1. e \in ClientRecords /\ e.at = "dead" /\ e.args = c.args /\ e.ours = c.ours
        BY <1>1 DEF ClientRecords
    <2>2. dead = [e EXCEPT !.left = <<>>]
        OBVIOUS
    <2> HIDE DEF e
    <2> QED
        BY <2>1, <2>2, Empty DEF ClientRecords
<1>3. part \in Seq(Symbols)
    BY <1>1
<1>4. u \in Seq(Symbols)
    BY <1>1, <1>3
<1>5. /\ client' = [client EXCEPT ![a] = dead]
      /\ told' = [told EXCEPT ![a] = NothingTold]
      /\ up' = [up EXCEPT ![a] = u]
      /\ UNCHANGED <<managed_users, configured, server, conn, free>>
    BY Before DEF Dies
<1>6. ASSUME c.ours PROVE Len(c.args) + 1 < BUFFER_SIZE /\ Killed(c.args, k, u)
    <2>1. Len(c.args) + 1 < BUFFER_SIZE
        BY <1>6, Before DEF SideOK, RunOK
    <2>2. CASE c.at = "sending"
        <3>1. /\ c.left = c.args \o <<EOL>> /\ up[a] = <<>>
              /\ k.at # "writing" /\ k.read_buffer = <<>>
            BY <1>6, <2>2, Before DEF SideOK, RunOK, ClientOK
        <3>2. n \in 0 .. Len(c.args) + 1
            BY <1>1, <3>1
        <3>3. Part(c.args, <<>>, part)
            BY <1>1, <3>1, <3>2, PartOfLine
        <3>4. up[a] \o part = part
            BY <1>3, <3>1, ConcatEmptySeq
        <3>5. k.at # "none" => u = part
            BY <3>4
        <3> HIDE DEF part, c, k, u
        <3>6. k.at \in {"queued", "reading"} => Part(c.args, k.read_buffer, u)
            BY <3>1, <3>3, <3>5
        <3> QED
            BY <2>1, <3>1, <3>6 DEF Killed
    <2>3. CASE c.at = "printing"
        <3>1. Printing(c.args, k, up[a], told[a], server) /\ c.left = <<>>
            BY <1>6, <2>3, Before DEF SideOK, RunOK, ClientOK
        <3>2. part = <<>>
            BY <3>1
        <3>3. u = up[a]
            <4>1. up[a] \o <<>> = up[a]
                BY <1>1, ConcatEmptySeq
            <4> QED
                BY <3>2, <4>1
        <3> HIDE DEF part, c, k, u
        <3> QED
            BY <2>1, <3>1, <3>3 DEF Killed, Printing, OnTheWay
    <2> QED
        BY <1>1, <2>2, <2>3
<1>7. ConnOK(k, u)
    BY Before DEF SideOK, ConnOK
<1> HIDE DEF dead, u, part
<1>8. /\ OnlyAt(a, client, client') /\ OnlyAt(a, conn, conn')
      /\ OnlyAt(a, up, up') /\ OnlyAt(a, told, told')
      /\ client'[a] = dead /\ told'[a] = NothingTold /\ up'[a] = u
    BY <1>5, Before DEF OnlyAt
<1>9. SideOK(dead, k, u, NothingTold, server)
    BY <1>2, <1>4, <1>6, <1>7, Before, Empty DEF SideOK, ClientOK, RunOK
<1>10. AdminOK(a)'
    BY <1>5, <1>8, <1>9 DEF AdminOK
<1> QED
    BY <1>5, <1>8, <1>10, Before, OneAdmin

-----------------------------------------------------------------------------
(* Steps of the server *)

\* management_close keeps what is known of a connection, whatever has been
\* written of its answer, unless the client still waits for the rest.
LEMMA ClosedSide ==
    ASSUME NEW c \in ClientRecords, NEW tl \in ToldRecords, NEW srv,
           c.at = "idle" => ~c.ours, c.at = "printing" => c.left = <<>>,
           c.at # "printing" => tl = NothingTold,
           c.ours => Len(c.args) + 1 < BUFFER_SIZE,
           c.at = "sending" /\ c.ours => c.left = c.args \o <<EOL>>,
           c.at = "printing" /\ c.ours /\ tl.lines > 0 =>
               tl.words = c.args /\ (srv # "gone" => tl.lines = Lines(tl.answer))
    PROVE  SideOK(c, NoConn, <<>>, tl, srv)
<1>1. ConnOK(NoConn, <<>>)
    BY Empty DEF ConnOK
<1>2. ClientOK(c, NoConn, <<>>, tl)
    BY Empty DEF ClientOK
<1>3. RunOK(c, NoConn, <<>>, tl, srv)
    BY Empty DEF RunOK, Printing, Killed
<1> QED
    BY <1>1, <1>2, <1>3, Empty DEF SideOK

\* A connection is closed before anything of an answer has been sent on it, or
\* when its client is dead.
LEMMA CloseKeeps ==
    ASSUME IInv, NEW a \in Admins, management_close(a),
           conn[a].at \in {"queued", "reading"} \/ client[a].at = "dead",
           UNCHANGED <<managed_users, configured, server, client, told, free>>
    PROVE  IInv'
<1>1. /\ OnlyAt(a, client, client') /\ OnlyAt(a, conn, conn')
      /\ OnlyAt(a, up, up') /\ OnlyAt(a, told, told')
      /\ conn'[a] = NoConn /\ up'[a] = <<>>
    BY Before DEF OnlyAt, management_close
<1>2. told[a].lines > 0 => client[a].at # "printing" \/ ~client[a].ours
    BY Before, Empty DEF SideOK, ClientOK, RunOK, Printing
<1>3. SideOK(client[a], NoConn, <<>>, told[a], server)
    BY <1>2, Before, ClosedSide DEF SideOK, ClientOK, RunOK
<1>4. AdminOK(a)'
    BY <1>1, <1>3 DEF AdminOK
<1> QED
    BY <1>1, <1>4, Before, OneAdmin

\* A connection is accepted, or closed again at once.
LEMMA AcceptKeeps ==
    ASSUME IInv, NEW a \in Admins, accept_management_connection(a)
    PROVE  IInv'
<1>1. conn[a].at = "queued" /\ UNCHANGED <<managed_users, configured, server, client, told, free>>
    BY DEF accept_management_connection
<1>2. CASE management_close(a)
    BY <1>1, <1>2, CloseKeeps
<1>3. CASE conn' = [conn EXCEPT ![a].at = "reading"] /\ up' = up
    <2> DEFINE k == conn[a]
               r == [k EXCEPT !.at = "reading"]
    <2>1. k \in ConnRecords /\ k.read_buffer = <<>>
        BY <1>1, Before DEF SideOK, ConnOK
    <2>2. conn' = [conn EXCEPT ![a] = r]
        BY <1>3, Before
    <2>3. r \in ConnRecords /\ r.at = "reading" /\ r.read_buffer = <<>>
        <3> HIDE DEF k
        <3> QED BY <2>1 DEF ConnRecords
    <2> HIDE DEF r
    <2>4. /\ OnlyAt(a, client, client') /\ OnlyAt(a, conn, conn')
          /\ OnlyAt(a, up, up') /\ OnlyAt(a, told, told') /\ conn'[a] = r
        BY <1>1, <1>3, <2>2, Before DEF OnlyAt
    <2>5. ConnOK(r, up[a])
        BY <2>3, ManagementAssumption DEF ConnOK
    <2>6. ClientOK(client[a], r, up[a], told[a])
        BY <1>1, <2>3, Before DEF SideOK, ClientOK
    <2>7. RunOK(client[a], r, up[a], told[a], server)
        BY <1>1, <2>1, <2>3, Before DEF SideOK, RunOK, Printing, Killed
    <2>8. AdminOK(a)'
        BY <1>1, <1>3, <2>3, <2>4, <2>5, <2>6, <2>7, Before DEF AdminOK, SideOK
    <2> QED
        BY <1>1, <2>4, <2>8, Before, OneAdmin
<1> QED
    BY <1>2, <1>3 DEF accept_management_connection

\* Receiving k units moves them from the way into the buffer.
LEMMA Received ==
    ASSUME NEW args \in Seq(Words), NEW rb \in Seq(Symbols), NEW u \in Seq(Symbols),
           NEW k \in 1 .. Len(u), Part(args, rb, u)
    PROVE  /\ Part(args, rb \o SubSeq(u, 1, k), SubSeq(u, k + 1, Len(u)))
           /\ Len(rb \o SubSeq(u, 1, k)) + Len(SubSeq(u, k + 1, Len(u))) = Len(rb) + Len(u)
<1> DEFINE buffer == rb \o SubSeq(u, 1, k)
           rest == SubSeq(u, k + 1, Len(u))
<1>1. Len(rb) \in Nat /\ Len(u) \in Nat /\ Len(args) \in Nat /\ k \in Nat /\ k <= Len(u)
    OBVIOUS
<1>2. SubSeq(u, 1, k) \in Seq(Symbols) /\ Len(SubSeq(u, 1, k)) = k
    BY <1>1
<1>3. \A i \in 1 .. k : SubSeq(u, 1, k)[i] = u[i]
    BY <1>1
<1>4. Len(buffer) = Len(rb) + k
    BY <1>2
<1>5. Len(rest) = Len(u) - k
    BY <1>1
<1>6. \A i \in 1 .. Len(rest) : rest[i] = u[k + i]
    BY <1>1, <1>5
<1>7. ASSUME NEW i \in 1 .. Len(buffer) PROVE buffer[i] = LineAt(args, i)
    <2>1. CASE i <= Len(rb)
        BY <1>1, <1>2, <2>1 DEF Part
    <2>2. CASE i > Len(rb)
        <3>1. i - Len(rb) \in 1 .. k /\ i - Len(rb) \in 1 .. Len(u)
              /\ Len(rb) + (i - Len(rb)) = i
            BY <1>1, <1>4, <2>2
        <3>2. buffer[i] = SubSeq(u, 1, k)[i - Len(rb)]
            BY <1>1, <1>2, <1>4, <2>2, <3>1
        <3> QED
            BY <1>3, <3>1, <3>2 DEF Part
    <2> QED
        BY <1>1, <1>4, <2>1, <2>2
<1>8. ASSUME NEW i \in 1 .. Len(rest) PROVE rest[i] = LineAt(args, Len(buffer) + i)
    <2>1. k + i \in 1 .. Len(u) /\ Len(rb) + (k + i) = Len(buffer) + i
        BY <1>1, <1>4, <1>5
    <2>2. u[k + i] = LineAt(args, Len(rb) + (k + i))
        BY <2>1 DEF Part
    <2> QED
        BY <1>6, <2>1, <2>2
<1> HIDE DEF buffer, rest
<1>9. Len(buffer) + Len(rest) = Len(rb) + Len(u)
    BY <1>1, <1>4, <1>5
<1>10. Part(args, buffer, rest)
    BY <1>7, <1>8, <1>9 DEF Part
<1> QED
    BY <1>9, <1>10 DEF buffer, rest

\* The line is complete when all of it is there, and then it reads as args.
LEMMA CompleteLine ==
    ASSUME NEW args \in Seq(Words), NEW buffer \in Seq(Symbols), NEW rest \in Seq(Symbols),
           Len(args) + 1 < BUFFER_SIZE, Part(args, buffer, rest), Complete(buffer)
    PROVE  FirstLine(buffer) = args
<1>1. Len(buffer) \in Nat /\ Len(rest) \in Nat /\ Len(args) \in Nat /\ BUFFER_SIZE \in Nat
    BY ManagementAssumption
<1>2. Len(buffer) <= Len(args) + 1
    BY <1>1 DEF Part
<1>3. Len(buffer) = Len(args) + 1
    <2>1. CASE Len(buffer) = BUFFER_SIZE - 1
        BY <1>1, <1>2, <2>1
    <2>2. CASE \E i \in 1 .. Len(buffer) : buffer[i] = EOL
        <3>1. PICK i \in 1 .. Len(buffer) : buffer[i] = EOL
            BY <2>2
        <3>2. LineAt(args, i) = EOL
            BY <3>1 DEF Part
        <3>3. ~(i <= Len(args))
            BY <3>2, ManagementAssumption DEF LineAt
        <3> QED
            BY <1>1, <1>2, <3>3
    <2> QED
        BY <2>1, <2>2 DEF Complete
<1> QED
    BY <1>3, FirstLineOfArgs DEF Part

\* management_read: the line is complete exactly when all of it has arrived.
LEMMA ReadKeeps ==
    ASSUME IInv, NEW a \in Admins, NEW n \in Units, management_read(a, n)
    PROVE  IInv'
<1> DEFINE c == client[a]
           k == conn[a]
           u == up[a]
           tl == told[a]
           buffer == k.read_buffer \o SubSeq(u, 1, n)
           rest == SubSeq(u, n + 1, Len(u))
           words == FirstLine(buffer)
           answer == Answer(managed_users, words)
<1>1. /\ k.at = "reading" /\ n <= Len(u) /\ n <= BUFFER_SIZE - Len(k.read_buffer) - 1
      /\ up' = [up EXCEPT ![a] = rest]
      /\ UNCHANGED <<configured, server, client, told, free>>
    BY DEF management_read
<1>2. /\ c \in ClientRecords /\ k \in ConnRecords /\ u \in Seq(Symbols) /\ tl \in ToldRecords
      /\ k.read_buffer \in Seq(Symbols) /\ c.args \in Seq(Words)
    BY Before DEF SideOK, ClientRecords, ConnRecords
<1>3. n \in 1 .. Len(u) /\ BUFFER_SIZE \in Nat /\ Len(u) \in Nat
    BY <1>1, <1>2, ManagementAssumption DEF Units
<1>4. /\ rest \in Seq(Symbols) /\ buffer \in Seq(Symbols)
      /\ Len(buffer) = Len(k.read_buffer) + n
    <2>1. SubSeq(u, 1, n) \in Seq(Symbols) /\ Len(SubSeq(u, 1, n)) = n
        BY <1>2, <1>3
    <2>2. rest \in Seq(Symbols)
        BY <1>2, <1>3
    <2> QED
        BY <1>2, <2>1, <2>2
<1>5. Len(buffer) \in Nat /\ Len(buffer) <= BUFFER_SIZE - 1
    <2> DEFINE m == Len(k.read_buffer)
    <2>1. m \in Nat
        BY <1>2
    <2>2. n \in Nat
        BY <1>3
    <2>3. n <= BUFFER_SIZE - m - 1
        BY <1>1
    <2>4. Len(buffer) = m + n
        BY <1>4
    <2> HIDE DEF m, buffer
    <2> QED
        BY <1>3, <2>1, <2>2, <2>3, <2>4
<1>6. c.at \in {"printing", "dead"}
    <2>1. u # <<>>
        BY <1>3
    <2>2. c.at # "sending" /\ c.at # "idle"
        BY <1>1, <2>1, Before DEF SideOK, ClientOK
    <2> QED
        BY <1>2, <2>2 DEF ClientRecords
<1>7. ASSUME c.ours
      PROVE  /\ Len(c.args) + 1 < BUFFER_SIZE /\ tl = NothingTold
             /\ Part(c.args, buffer, rest)
             /\ c.at = "printing" => OnTheWay(c.args, buffer, rest)
    <2>1. /\ Len(c.args) + 1 < BUFFER_SIZE /\ tl = NothingTold
          /\ Part(c.args, k.read_buffer, u)
          /\ c.at = "printing" => Len(k.read_buffer) + Len(u) = Len(c.args) + 1
        BY <1>1, <1>6, <1>7, Before DEF SideOK, ClientOK, RunOK, Printing, Killed, OnTheWay
    <2>2. Part(c.args, buffer, rest) /\ Len(buffer) + Len(rest) = Len(k.read_buffer) + Len(u)
        BY <1>2, <1>3, <2>1, Received
    <2> QED
        BY <2>1, <2>2 DEF OnTheWay
<1>8. /\ OnlyAt(a, client, client') /\ OnlyAt(a, up, up') /\ OnlyAt(a, told, told')
      /\ up'[a] = rest
    BY <1>1, Before DEF OnlyAt
<1>9. (c.at = "printing" => c.left = <<>>) /\ (c.at # "printing" => tl = NothingTold)
    BY Before DEF SideOK, ClientOK
<1>10. CASE Complete(buffer)
    <2> DEFINE w == Prepared(k, buffer, words, answer)
    <2>1. conn' = [conn EXCEPT ![a] = w] /\ managed_users' = Executed(managed_users, words)
        BY <1>10 DEF management_read
    <2>2. words \in Seq(Words)
        BY <1>4, FirstLineType
    <2> HIDE DEF words, buffer, rest
    <2>3. UsersOK(managed_users')
        BY <2>1, <2>2, Before, ExecutedKeeps
    <2>4. answer \in Answers /\ Lines(answer) \in Nat \ {0}
        BY <2>2, Before, AnswerType
    <2> HIDE DEF answer, k
    <2>5. /\ w \in ConnRecords /\ w.at = "writing" /\ w.words = words /\ w.answer = answer
          /\ w.write_len = Lines(answer) /\ w.write_off = 0
        <3> DEFINE w1 == [k EXCEPT !.at = "writing", !.read_buffer = buffer, !.words = words]
                   w2 == [w1 EXCEPT !.answer = answer, !.write_len = Lines(answer),
                                    !.write_off = 0]
        <3>1. w1 \in ConnRecords /\ w1.at = "writing" /\ w1.words = words
            BY <1>2, <1>4, <2>2 DEF ConnRecords
        <3>2. w = w2
            BY DEF Prepared
        <3> HIDE DEF w1, w
        <3> QED
            BY <2>4, <3>1, <3>2 DEF ConnRecords
    <2> HIDE DEF w
    <2>6. OnlyAt(a, conn, conn') /\ conn'[a] = w
        BY <2>1, Before DEF OnlyAt
    <2>7. ConnOK(w, rest)
        BY <2>4, <2>5 DEF ConnOK
    <2>8. ClientOK(c, w, rest, tl)
        BY <1>6, <1>9, <2>5 DEF ClientOK
    <2>9. RunOK(c, w, rest, tl, server)
        <3>1. SUFFICES ASSUME c.ours
                       PROVE  /\ Len(c.args) + 1 < BUFFER_SIZE
                              /\ Printing(c.args, w, rest, tl, server)
                              /\ Killed(c.args, w, rest)
            BY <1>6 DEF RunOK
        <3>2. words = c.args
            BY <1>2, <1>4, <1>7, <1>10, <3>1, CompleteLine DEF words
        <3> QED
            BY <1>7, <2>5, <3>1, <3>2, Empty DEF Printing, Killed
    <2>10. SideOK(c, w, rest, tl, server)
        BY <1>2, <1>4, <2>5, <2>7, <2>8, <2>9 DEF SideOK
    <2>11. AdminOK(a)'
        BY <1>1, <1>8, <2>6, <2>10 DEF AdminOK
    <2> QED
        BY <1>1, <1>8, <2>3, <2>6, <2>11, Before, OneAdmin
<1>11. CASE ~Complete(buffer)
    <2> DEFINE w == [k EXCEPT !.read_buffer = buffer]
    <2>1. conn' = [conn EXCEPT ![a] = w] /\ managed_users' = managed_users
        BY <1>11, Before DEF management_read
    <2> HIDE DEF buffer, rest, k
    <2>2. Len(buffer) < BUFFER_SIZE - 1
        <3>1. Len(buffer) # BUFFER_SIZE - 1
            BY <1>11 DEF Complete
        <3> QED
            BY <1>3, <1>5, <3>1
    <2>3. w \in ConnRecords /\ w.at = "reading" /\ w.read_buffer = buffer
        BY <1>1, <1>2, <1>4 DEF ConnRecords
    <2> HIDE DEF w
    <2>4. OnlyAt(a, conn, conn') /\ conn'[a] = w
        BY <2>1, Before DEF OnlyAt
    <2>5. ConnOK(w, rest)
        BY <2>2, <2>3 DEF ConnOK
    <2>6. ClientOK(c, w, rest, tl)
        BY <1>6, <1>9, <2>3 DEF ClientOK
    <2>7. RunOK(c, w, rest, tl, server)
        BY <1>6, <1>7, <2>3 DEF RunOK, Printing, Killed
    <2>8. SideOK(c, w, rest, tl, server)
        BY <1>2, <1>4, <2>3, <2>5, <2>6, <2>7 DEF SideOK
    <2>9. AdminOK(a)'
        BY <1>1, <1>8, <2>4, <2>8 DEF AdminOK
    <2> QED
        BY <1>1, <1>8, <2>1, <2>4, <2>9, Before, OneAdmin
<1> QED
    BY <1>10, <1>11

\* management_write: the client has got what has been written.
LEMMA WriteKeeps ==
    ASSUME IInv, NEW a \in Admins, NEW n \in 1 .. conn[a].write_len, management_write(a, n)
    PROVE  IInv'
<1> DEFINE c == client[a]
           k == conn[a]
           tl == IF c.at = "dead" THEN told[a]
                 ELSE [words |-> k.words, answer |-> k.answer, lines |-> told[a].lines + n]
<1>1. k.at = "writing" /\ UNCHANGED <<managed_users, configured, server, client, free>>
    BY DEF management_write
<1>2. /\ c \in ClientRecords /\ k \in ConnRecords /\ told[a] \in ToldRecords
      /\ k.words \in Seq(Words) /\ k.answer \in Answers /\ told[a].lines \in Nat
      /\ k.write_len \in Nat /\ k.write_off \in Nat
    BY Before DEF SideOK, ConnRecords, ToldRecords
<1>3. n \in Nat /\ n > 0 /\ k.write_off + n <= k.write_len
    BY <1>2 DEF management_write
<1>4. c.at \in {"printing", "dead"}
    <2>1. c.at # "sending" /\ c.at # "idle"
        BY <1>1, Before DEF SideOK, ClientOK
    <2> QED
        BY <1>2, <2>1 DEF ClientRecords
<1>5. /\ c.at = "dead" => told[a] = NothingTold
      /\ c.at = "printing" => c.left = <<>>
      /\ k.write_len = Lines(k.answer)
    BY <1>1, Before DEF SideOK, ClientOK, ConnOK
<1>6. ASSUME c.ours
      PROVE  /\ Len(c.args) + 1 < BUFFER_SIZE /\ k.words = c.args
             /\ c.at = "printing" => told[a].lines = k.write_off
    BY <1>1, <1>4, <1>6, Before DEF SideOK, RunOK, Printing, Killed
<1>7. tl \in ToldRecords
    BY <1>2, <1>3 DEF ToldRecords
<1>8. c.at = "printing" =>
        tl.words = k.words /\ tl.answer = k.answer /\ tl.lines = told[a].lines + n
    OBVIOUS
<1>9. told' = [told EXCEPT ![a] = tl]
    BY Before DEF management_write
<1>10. c.at # "printing" => tl = NothingTold
    BY <1>4, <1>5
<1> HIDE DEF tl
<1>11. OnlyAt(a, client, client') /\ OnlyAt(a, told, told') /\ told'[a] = tl
    BY <1>1, <1>9, Before DEF OnlyAt
<1>12. CASE k.write_off + n = k.write_len
    <2>1. management_close(a)
        BY <1>12 DEF management_write
    <2>2. /\ OnlyAt(a, conn, conn') /\ OnlyAt(a, up, up')
          /\ conn'[a] = NoConn /\ up'[a] = <<>>
        BY <2>1, Before DEF OnlyAt, management_close
    <2>3. c.ours /\ c.at = "printing" => tl.words = c.args /\ tl.lines = Lines(tl.answer)
        BY <1>5, <1>6, <1>8, <1>12
    <2>4. SideOK(c, NoConn, <<>>, tl, server)
        BY <1>2, <1>4, <1>5, <1>6, <1>7, <1>10, <2>3, ClosedSide
    <2>5. AdminOK(a)'
        BY <1>1, <1>11, <2>2, <2>4 DEF AdminOK
    <2> QED
        BY <1>1, <1>11, <2>2, <2>5, Before, OneAdmin
<1>13. CASE k.write_off + n # k.write_len
    <2> DEFINE w == [k EXCEPT !.write_off = k.write_off + n]
    <2>1. conn' = [conn EXCEPT ![a] = w] /\ up' = up
        BY <1>13, Before DEF management_write
    <2> HIDE DEF k
    <2>2. /\ w \in ConnRecords /\ w.at = "writing" /\ w.words = k.words /\ w.answer = k.answer
          /\ w.write_len = k.write_len /\ w.write_off = k.write_off + n
        BY <1>1, <1>2, <1>3 DEF ConnRecords
    <2> HIDE DEF w
    <2>3. OnlyAt(a, conn, conn') /\ OnlyAt(a, up, up') /\ conn'[a] = w
        BY <2>1, Before DEF OnlyAt
    <2>4. ConnOK(w, up[a])
        BY <1>2, <1>3, <1>5, <1>13, <2>2 DEF ConnOK
    <2>5. ClientOK(c, w, up[a], tl)
        BY <1>4, <1>5, <1>10, <2>2 DEF ClientOK
    <2>6. RunOK(c, w, up[a], tl, server)
        BY <1>4, <1>6, <1>8, <2>2 DEF RunOK, Printing, Killed
    <2>7. SideOK(c, w, up[a], tl, server)
        BY <1>2, <1>7, <2>2, <2>4, <2>5, <2>6, Before DEF SideOK
    <2>8. AdminOK(a)'
        BY <1>1, <1>11, <2>1, <2>3, <2>7 DEF AdminOK
    <2> QED
        BY <1>1, <1>11, <2>3, <2>8, Before, OneAdmin
<1> QED
    BY <1>12, <1>13

\* The steps that end all connections of a kind keep the invariant if each
\* connection keeps its part.
LEMMA AllAdmins ==
    ASSUME IInv, server' \in {"running", "closing", "gone"},
           conn' = [a \in Admins |-> conn'[a]], up' = [a \in Admins |-> up'[a]],
           UNCHANGED <<managed_users, configured, client, told, free>>,
           \A a \in Admins : SideOK(client[a], conn'[a], up'[a], told[a], server')
    PROVE  IInv'
<1>1. \A a \in Admins : conn'[a] \in ConnRecords /\ up'[a] \in Seq(Symbols)
                         /\ ConnOK(conn'[a], up'[a])
    BY DEF SideOK
<1>2. conn' \in [Admins -> ConnRecords] /\ up' \in [Admins -> Seq(Symbols)]
    <2> DEFINE fk == conn'
               fu == up'
    <2>1. fk \in [Admins -> ConnRecords]
        BY <1>1
    <2>2. fu \in [Admins -> Seq(Symbols)]
        BY <1>1
    <2> QED
        BY <2>1, <2>2
<1>3. \A a \in Admins : conn'[a].at = "reading" => Len(conn'[a].read_buffer) < BUFFER_SIZE - 1
    BY <1>1 DEF ConnOK
<1>4. TypeOK'
    BY <1>2, <1>3 DEF IInv, TypeOK, ConnRecords
<1> QED
    BY <1>4 DEF IInv, AdminOK

\* Connections nobody has accepted are closed.
LEMMA StopAcceptingKeeps == IInv /\ StopAccepting => IInv'
<1> SUFFICES ASSUME IInv, StopAccepting PROVE IInv'
    OBVIOUS
<1>1. /\ server = "running" /\ server' = "closing"
      /\ conn' = [a \in Admins |-> IF conn[a].at = "queued" THEN NoConn ELSE conn[a]]
      /\ up' = [a \in Admins |-> IF conn[a].at = "queued" THEN <<>> ELSE up[a]]
      /\ UNCHANGED <<managed_users, configured, client, told, free>>
    BY DEF StopAccepting
<1>2. ASSUME NEW a \in Admins
      PROVE  SideOK(client[a], conn'[a], up'[a], told[a], server')
    <2>1. CASE conn[a].at = "queued"
        <3>1. conn'[a] = NoConn /\ up'[a] = <<>>
            BY <1>1, <2>1
        <3>2. told[a].lines > 0 => client[a].at # "printing" \/ ~client[a].ours
            BY <2>1, Before, Empty DEF SideOK, ClientOK, RunOK, Printing
        <3>3. SideOK(client[a], NoConn, <<>>, told[a], server')
            BY <3>2, Before, ClosedSide DEF SideOK, ClientOK, RunOK
        <3> QED
            BY <3>1, <3>3
    <2>2. CASE conn[a].at # "queued"
        <3>1. conn'[a] = conn[a] /\ up'[a] = up[a]
            BY <1>1, <2>2
        <3>2. RunOK(client[a], conn[a], up[a], told[a], server')
            BY <1>1, Before DEF SideOK, RunOK, Printing
        <3> QED
            BY <3>1, <3>2, Before DEF SideOK
    <2> QED
        BY <2>1, <2>2
<1> QED
    BY <1>1, <1>2, AllAdmins

\* All connections are closed as they are.
LEMMA DestroyKeeps == IInv /\ Destroy => IInv'
<1> SUFFICES ASSUME IInv, Destroy PROVE IInv'
    OBVIOUS
<1>1. /\ server' = "gone"
      /\ conn' = [a \in Admins |-> NoConn] /\ up' = [a \in Admins |-> <<>>]
      /\ UNCHANGED <<managed_users, configured, client, told, free>>
    BY DEF Destroy
<1>2. ASSUME NEW a \in Admins
      PROVE  SideOK(client[a], conn'[a], up'[a], told[a], server')
    <2>1. ASSUME client[a].at = "printing", client[a].ours, told[a].lines > 0
          PROVE  told[a].words = client[a].args
        <3>1. Printing(client[a].args, conn[a], up[a], told[a], server)
            BY <2>1, Before DEF SideOK, RunOK
        <3>2. conn[a].at \in {"none", "queued", "reading", "writing"}
            BY Before DEF ConnRecords
        <3> QED
            BY <2>1, <3>1, <3>2, Empty DEF Printing
    <2>2. SideOK(client[a], NoConn, <<>>, told[a], "gone")
        BY <2>1, Before, ClosedSide DEF SideOK, ClientOK, RunOK
    <2> QED
        BY <1>1, <2>2
<1> QED
    BY <1>1, <1>2, AllAdmins

-----------------------------------------------------------------------------
(* The theorems *)

\* Every step of every client, connection and of the server keeps the invariant.
LEMMA StepKeeps == IInv /\ [Next]_vars => IInv'
<1> SUFFICES ASSUME IInv, [Next]_vars PROVE IInv'
    OBVIOUS
<1>1. CASE users_init_from_args
    BY <1>1, ConfigureKeeps
<1>2. ASSUME NEW a \in Admins, NEW given \in BOOLEAN, NEW args \in ArgLists,
             RunClient(a, given, args)
      PROVE  IInv'
    BY <1>2, RunClientKeeps
<1>3. ASSUME NEW a \in Admins, NEW stream \in Streams, RunOther(a, stream) PROVE IInv'
    BY <1>3, RunOtherKeeps
<1>4. ASSUME NEW a \in Admins, ClientStep(a) PROVE IInv'
    BY <1>4, SendsKeeps, EndsPrintingKeeps DEF ClientStep
<1>5. ASSUME NEW a \in Admins, ServerStep(a) PROVE IInv'
    <2>1. CASE accept_management_connection(a)
        BY <2>1, AcceptKeeps
    <2>2. ASSUME NEW k \in Units, management_read(a, k) PROVE IInv'
        BY <2>2, ReadKeeps
    <2>3. CASE ReadEnds(a)
        BY <2>3, CloseKeeps DEF ReadEnds
    <2>4. ASSUME NEW k \in 1 .. conn[a].write_len, management_write(a, k) PROVE IInv'
        BY <2>4, WriteKeeps
    <2>5. CASE WriteFails(a)
        BY <2>5, CloseKeeps DEF WriteFails
    <2> QED
        BY <1>5, <2>1, <2>2, <2>3, <2>4, <2>5 DEF ServerStep
<1>6. ASSUME NEW a \in Admins, NEW k \in 0 .. Len(client[a].left), Dies(a, k) PROVE IInv'
    BY <1>6, DiesKeeps
<1>7. CASE StopAccepting
    BY <1>7, StopAcceptingKeeps
<1>8. CASE Destroy
    BY <1>8, DestroyKeeps
<1>9. CASE UNCHANGED vars
    BY <1>9 DEF vars, IInv, TypeOK, AdminOK
<1>10. CASE DescriptorsChange
    <2>1. free' \in BOOLEAN
        BY <1>10 DEF DescriptorsChange
    <2> QED
        BY <1>10, <2>1 DEF DescriptorsChange, IInv, TypeOK, AdminOK
<1> QED
    BY <1>1, <1>2, <1>3, <1>4, <1>5, <1>6, <1>7, <1>8, <1>9, <1>10 DEF Next

\* The invariant holds in every state of every server and its clients.
THEOREM Invariance == Spec => []IInv
<1> QED
    BY InitialState, StepKeeps, PTL DEF Spec

\* Every variable keeps to the values its declaration allows, and management_read
\* always has room for what it receives.
THEOREM TypeCorrect == Spec => []TypeOK
<1>1. IInv => TypeOK
    BY DEF IInv
<1> QED
    BY <1>1, Invariance, PTL

\* However commands of any number of connections and the users given at start
\* follow each other, the table holds no name twice and only users that
\* users_add accepts.
THEOREM NamesAreDistinct == Spec => []NamesDistinct
<1>1. IInv => NamesDistinct
    BY DEF IInv, UsersOK, NamesDistinct, field_is_valid
<1> QED
    BY <1>1, Invariance, PTL

\* However a command is cut on its way, and wherever client.c is killed, the
\* server carries out the command it was given or none; what it prints is the
\* answer to it, and all of it once the connection is closed.
THEOREM AnswersMatch == Spec => []AnsweredAsAsked
<1>1. IInv => AnsweredAsAsked
    <2> SUFFICES ASSUME IInv, NEW a \in Admins, client[a].ours
                 PROVE  /\ conn[a].at = "writing" => conn[a].words = client[a].args
                        /\ told[a].lines > 0 =>
                             /\ told[a].words = client[a].args
                             /\ conn[a].at = "none" /\ server # "gone" =>
                                  told[a].lines = Lines(told[a].answer)
        BY DEF AnsweredAsAsked
    <2>1. /\ client[a].at \in {"sending", "printing", "dead"}
          /\ client[a].at # "printing" => told[a].lines = 0
        BY Before, Empty DEF SideOK, ClientOK, ClientRecords
    <2>2. /\ client[a].at = "printing" =>
                Printing(client[a].args, conn[a], up[a], told[a], server)
          /\ client[a].at = "dead" => Killed(client[a].args, conn[a], up[a])
          /\ client[a].at = "sending" => conn[a].at # "writing"
        BY Before DEF SideOK, RunOK, ClientOK
    <2>3. conn[a].at \in {"none", "queued", "reading", "writing"}
        BY Before DEF ConnRecords
    <2> QED
        BY <2>1, <2>2, <2>3, Empty DEF Printing, Killed
<1> QED
    BY <1>1, Invariance, PTL

-----------------------------------------------------------------------------
(* The directory of users *)

\* A bijection preserves the number of elements.
LEMMA SameNumber ==
    ASSUME NEW S, NEW T, IsFiniteSet(S), NEW f \in [S -> T],
           \A i, j \in S : f[i] = f[j] => i = j, \A x \in T : \E i \in S : f[i] = x
    PROVE  IsFiniteSet(T) /\ Cardinality(T) = Cardinality(S)
<1>1. f \in Injection(S, T) /\ f \in Surjection(S, T)
    BY DEF Injection, Surjection, IsInjective
<1> QED
    BY <1>1, FS_Surjection

\* The names in the table t.
NamesIn(t) == {x[1] : x \in Credentials(t)}

\* The names are those that find_user_index finds.
LEMMA NamesFound ==
    ASSUME NEW t
    PROVE  /\ NamesIn(t) = {t[i].username : i \in InUse(t)}
           /\ \A u : Found(t, u) # {} <=> u \in NamesIn(t)
<1>1. NamesIn(t) = {t[i].username : i \in InUse(t)}
    <2>1. ASSUME NEW i \in InUse(t) PROVE t[i].username \in NamesIn(t)
        <3>1. <<t[i].username, t[i].password>> \in Credentials(t)
            BY DEF Credentials
        <3> QED
            BY <3>1 DEF NamesIn
    <2>2. ASSUME NEW x \in Credentials(t) PROVE \E i \in InUse(t) : x[1] = t[i].username
        BY DEF Credentials
    <2> QED
        BY <2>1, <2>2 DEF NamesIn
<1>2. ASSUME NEW u PROVE Found(t, u) # {} <=> u \in {t[i].username : i \in InUse(t)}
    BY DEF Found, InUse
<1> QED
    BY <1>1, <1>2

\* users_count counts users.
LEMMA CountsUsers ==
    ASSUME NEW t, UsersOK(t)
    PROVE  /\ Cardinality(Credentials(t)) = users_count(t)
           /\ Cardinality(Credentials(t)) \in Nat
<1> DEFINE S == InUse(t)
           f == [i \in S |-> <<t[i].username, t[i].password>>]
<1>1. IsFiniteSet(S)
    BY SlotSets DEF InUse
<1>2. f \in [S -> Credentials(t)] /\ \A x \in Credentials(t) : \E i \in S : f[i] = x
    BY DEF Credentials
<1>3. \A i, j \in S : f[i] = f[j] => i = j
    BY DEF UsersOK
<1> HIDE DEF f
<1>4. Cardinality(Credentials(t)) = Cardinality(S)
    BY <1>1, <1>2, <1>3, SameNumber
<1> QED
    BY <1>4, CountType DEF users_count

\* The table is full when it holds USERS_MAX users, and never holds more.
LEMMA FullTable ==
    ASSUME NEW t, UsersOK(t)
    PROVE  /\ Cardinality(Credentials(t)) <= USERS_MAX
           /\ InUse(t) = Slots <=> Cardinality(Credentials(t)) = USERS_MAX
<1>1. InUse(t) \in SUBSET Slots
    BY DEF InUse
<1>2. IsFiniteSet(Slots) /\ Cardinality(Slots) = USERS_MAX
    BY ManagementAssumption, FS_Interval DEF Slots
<1>3. /\ Cardinality(InUse(t)) <= Cardinality(Slots)
      /\ Cardinality(Slots) = Cardinality(InUse(t)) => Slots = InUse(t)
    BY <1>1, <1>2, FS_Subset
<1>4. Cardinality(Credentials(t)) = Cardinality(InUse(t))
    BY CountsUsers DEF users_count
<1> QED
    BY <1>2, <1>3, <1>4

\* users_add adds a pair.
LEMMA AddsPair ==
    ASSUME NEW t, UsersOK(t), NEW u \in Words, NEW p \in Words, AddResult(t, u, p) = "ok"
    PROVE  Credentials(users_add(t, u, p)) = Credentials(t) \cup {<<u, p>>}
<1> DEFINE i == Lowest(Slots \ InUse(t))
           r == [in_use |-> TRUE, username |-> u, password |-> p]
           v == users_add(t, u, p)
<1>1. InUse(t) # Slots /\ InUse(t) \subseteq Slots
    BY DEF AddResult, InUse
<1>2. i \in Slots /\ i \notin InUse(t)
    BY <1>1, SlotSets
<1>3. v = [t EXCEPT ![i] = r]
    BY DEF users_add
<1>4. r.in_use /\ r.username = u /\ r.password = p
    OBVIOUS
<1> HIDE DEF i, r, v
<1>5. v[i] = r /\ \A j \in Slots : j # i => v[j] = t[j]
    BY <1>2, <1>3 DEF UsersOK
<1>6. InUse(v) = InUse(t) \cup {i} /\ \A j \in InUse(t) : v[j] = t[j]
    BY <1>1, <1>2, <1>4, <1>5 DEF InUse
<1>7. ASSUME NEW x PROVE x \in Credentials(v) <=> x \in Credentials(t) \cup {<<u, p>>}
    BY <1>4, <1>5, <1>6 DEF Credentials
<1> QED
    BY <1>7 DEF v

\* users_remove removes the pair with the name.
LEMMA RemovesPair ==
    ASSUME NEW t, UsersOK(t), NEW u, u \notin TooLong
    PROVE  Credentials(users_remove(t, u)) = {x \in Credentials(t) : x[1] # u}
<1>1. CASE Found(t, u) = {}
    <2>1. users_remove(t, u) = t
        BY <1>1 DEF users_remove, RemoveResult, field_is_valid
    <2>2. \A x \in Credentials(t) : x[1] # u
        BY <1>1, NamesFound DEF NamesIn
    <2> QED
        BY <2>1, <2>2
<1>2. CASE Found(t, u) # {}
    <2> DEFINE i == Lowest(Found(t, u))
               v == users_remove(t, u)
    <2>1. i \in Found(t, u)
        BY <1>2, SlotSets DEF Found
    <2>2. v = [t EXCEPT ![i] = NoUser]
        BY <1>2 DEF users_remove, RemoveResult, field_is_valid
    <2> HIDE DEF i, v
    <2>3. i \in InUse(t) /\ i \in Slots /\ t[i].username = u
        BY <2>1 DEF Found, InUse
    <2>4. v[i] = NoUser /\ \A j \in Slots : j # i => v[j] = t[j]
        BY <2>2, <2>3 DEF UsersOK
    <2>5. InUse(v) = InUse(t) \ {i} /\ \A j \in InUse(v) : v[j] = t[j]
        BY <2>3, <2>4 DEF InUse, NoUser
    <2>6. \A j \in InUse(t) : t[j].username = u <=> j = i
        BY <2>3 DEF UsersOK
    <2>7. ASSUME NEW x PROVE x \in Credentials(v) <=> x \in Credentials(t) /\ x[1] # u
        BY <2>5, <2>6 DEF Credentials
    <2> QED
        BY <2>7 DEF v
<1> QED
    BY <1>1, <1>2

\* The slot of which k slots in use come before it is unique, and there is one
\* for each k below their number.
LEMMA Ranks ==
    ASSUME NEW S \in SUBSET Slots
    PROVE  LET rank == [j \in S |-> Cardinality({k \in S : k < j})]
           IN  /\ rank \in [S -> 0 .. Cardinality(S) - 1]
               /\ \A i, j \in S : rank[i] = rank[j] => i = j
               /\ \A n \in 0 .. Cardinality(S) - 1 : \E j \in S : rank[j] = n
<1> DEFINE below(j) == {k \in S : k < j}
           rank == [j \in S |-> Cardinality(below(j))]
           N == Cardinality(S)
<1>1. S \subseteq Nat /\ IsFiniteSet(S) /\ N \in Nat
    BY SlotSets, ManagementAssumption DEF Slots
<1>2. ASSUME NEW j \in S
      PROVE  /\ IsFiniteSet(below(j)) /\ Cardinality(below(j)) \in Nat
             /\ Cardinality(below(j)) < N
    <2>1. below(j) \in SUBSET S
        OBVIOUS
    <2>2. j \in Nat /\ below(j) # S
        BY <1>1
    <2>3. IsFiniteSet(below(j)) /\ Cardinality(below(j)) \in Nat
        BY <2>1, SlotSets
    <2> HIDE DEF below
    <2>4. Cardinality(below(j)) <= N /\ Cardinality(below(j)) # N
        BY <1>1, <2>1, <2>2, FS_Subset
    <2> QED
        BY <1>1, <2>3, <2>4
<1>3. rank \in [S -> 0 .. N - 1]
    BY <1>1, <1>2
<1>4. ASSUME NEW i \in S, NEW j \in S, i < j PROVE rank[i] # rank[j]
    <2>1. \A k \in S : k < i => k < j
        BY <1>1, <1>4
    <2>2. below(i) \in SUBSET below(j)
        BY <2>1
    <2>3. i \in below(j) /\ i \notin below(i)
        BY <1>1, <1>4
    <2>4. rank[i] = Cardinality(below(i)) /\ rank[j] = Cardinality(below(j))
        OBVIOUS
    <2> HIDE DEF below, rank
    <2> QED
        BY <1>2, <2>2, <2>3, <2>4, FS_Subset
<1>5. \A i, j \in S : rank[i] = rank[j] => i = j
    BY <1>1, <1>4
<1>6. \A n \in 0 .. N - 1 : \E j \in S : rank[j] = n
    <2> HIDE DEF rank, N
    <2>1. rank \in Injection(S, 0 .. N - 1)
        BY <1>3, <1>5 DEF Injection, IsInjective
    <2>2. IsFiniteSet(0 .. N - 1) /\ Cardinality(0 .. N - 1) = N
        BY <1>1, FS_Interval
    <2>3. rank \in Surjection(S, 0 .. N - 1)
        BY <2>1, <2>2, FS_Injection DEF N
    <2> QED
        BY <2>3 DEF Surjection
<1> QED
    BY <1>3, <1>5, <1>6

\* An answer shows as many names as there is room for, and what is left of one
\* more.
LEMMA ShowsNames ==
    ASSUME NEW t, UsersOK(t)
    PROVE  LET count == Cardinality(Credentials(t))
           IN  /\ Listed(t) \subseteq NamesIn(t)
               /\ Cardinality(Listed(t)) = IF count <= Shown THEN count ELSE Shown
               /\ IF count > Shown /\ RoomForPart
                  THEN \E u \in NamesIn(t) \ Listed(t) : Cut(t) = Fragment[u]
                  ELSE Cut(t) = NoWord
<1> DEFINE S == InUse(t)
           N == Cardinality(S)
           rank == [j \in S |-> Cardinality({k \in S : k < j})]
           shown == {j \in S : rank[j] < Shown}
           next == {j \in S : rank[j] = Shown}
           M == IF N <= Shown THEN N ELSE Shown
           f == [j \in shown |-> t[j].username]
           g == [j \in shown |-> rank[j]]
<1>1. S \in SUBSET Slots /\ N \in Nat
    BY SlotSets DEF InUse
<1>2. /\ rank \in [S -> 0 .. N - 1]
      /\ \A i, j \in S : rank[i] = rank[j] => i = j
      /\ \A n \in 0 .. N - 1 : \E j \in S : rank[j] = n
    BY <1>1, Ranks
<1>3. Shown \in Nat
    BY ManagementAssumption DEF Shown
<1>4. Listed(t) = {t[j].username : j \in shown}
    BY DEF Listed, Rank
<1>11. Cut(t) = IF RoomForPart /\ next # {} THEN Fragment[t[Lowest(next)].username] ELSE NoWord
    BY DEF Cut, Rank
<1>5. Listed(t) \subseteq NamesIn(t)
    BY <1>4, NamesFound
<1>6. N = Cardinality(Credentials(t))
    BY CountsUsers DEF users_count
<1> HIDE DEF rank, N
<1>7. IsFiniteSet(shown)
    BY <1>1, SlotSets
<1>8. Cardinality(Listed(t)) = Cardinality(shown)
    <2>1. f \in [shown -> Listed(t)] /\ \A x \in Listed(t) : \E j \in shown : f[j] = x
        BY <1>4
    <2>2. \A i, j \in shown : f[i] = f[j] => i = j
        BY DEF UsersOK
    <2> HIDE DEF f, shown
    <2> QED
        BY <1>7, <2>1, <2>2, SameNumber
<1>9. Cardinality(0 .. M - 1) = Cardinality(shown)
    <2>1. g \in [shown -> 0 .. M - 1]
        BY <1>1, <1>2, <1>3
    <2>2. \A n \in 0 .. M - 1 : \E j \in shown : g[j] = n
        BY <1>1, <1>2, <1>3
    <2>3. \A i, j \in shown : g[i] = g[j] => i = j
        BY <1>2
    <2> HIDE DEF g, shown, M
    <2> QED
        BY <1>7, <2>1, <2>2, <2>3, SameNumber
<1>10. Cardinality(0 .. M - 1) = M
    <2>1. M \in Nat
        BY <1>1, <1>3
    <2> HIDE DEF M
    <2> QED
        BY <2>1, FS_Interval
<1>12. CASE N > Shown
    <2>1. Shown \in 0 .. N - 1
        BY <1>1, <1>3, <1>12
    <2>2. next # {}
        BY <1>2, <2>1
    <2> DEFINE i == Lowest(next)
    <2>3. i \in next
        BY <1>1, <2>2, SlotSets
    <2> HIDE DEF i
    <2>4. i \in S /\ rank[i] = Shown /\ i \notin shown
        BY <1>3, <2>3
    <2>5. t[i].username \in NamesIn(t)
        BY <2>4, NamesFound
    <2>6. t[i].username \notin Listed(t)
        BY <1>4, <2>4 DEF UsersOK
    <2>7. RoomForPart => \E u \in NamesIn(t) \ Listed(t) : Cut(t) = Fragment[u]
        BY <1>11, <2>2, <2>5, <2>6 DEF i
    <2>8. ~RoomForPart => Cut(t) = NoWord
        BY <1>11
    <2> QED
        BY <1>5, <1>6, <1>8, <1>9, <1>10, <1>12, <2>7, <2>8
<1>13. CASE ~(N > Shown)
    <2>1. \A j \in S : rank[j] # Shown
        BY <1>1, <1>2, <1>3, <1>13
    <2>2. Cut(t) = NoWord
        BY <1>11, <2>1
    <2> QED
        BY <1>5, <1>6, <1>8, <1>9, <1>10, <1>13, <2>2
<1> QED
    BY <1>12, <1>13

\* A connection that is not being answered has no answer, which is the fourth
\* invariant, inductive together with IInv.
Quiet == \A a \in Admins : conn[a].at # "writing" => conn[a].answer = Plain("none")

\* The answers that are being given.
Given == [a \in Admins |-> conn[a].answer]

\* What a step means to the directory.
Refined == Quiet' /\ [Directory!Next]_<<Credentials(managed_users), Given>>

\* The directory's view, in the terms of the model.
LEMMA DirectoryView ==
    /\ \A S : Directory!Cardinality(S) = Cardinality(S)
    /\ Credentials(managed_users)' = Credentials(managed_users')
    /\ Directory!Users = NamesIn(managed_users)
    /\ \A kind : Directory!Plain(kind) = Plain(kind)
    /\ Given' = [a \in Admins |-> conn'[a].answer]
    /\ \A kind, result, d : Directory!Changed(kind, result, d) =
          [Plain(kind) EXCEPT !.result = result, !.count = Cardinality(d)]
    /\ \A names : Directory!Parts(names) =
          IF Cardinality(Credentials(managed_users)) > Shown /\ RoomForPart
          THEN {Fragment[u] : u \in NamesIn(managed_users) \ names} ELSE {NoWord}
<1>1. Credentials(managed_users)' = Credentials(managed_users')
    BY DEF Credentials, InUse
<1>2. Directory!Users = NamesIn(managed_users)
    BY DEF Directory!Users, NamesIn
<1>3. \A kind : Directory!Plain(kind) = Plain(kind)
    BY DEF Directory!Plain, Plain
<1>4. Given' = [a \in Admins |-> conn'[a].answer]
    BY DEF Given
<1>5. \A S : Directory!Cardinality(S) = Cardinality(S)
    BY DEF Directory!Cardinality, Cardinality
<1>6. \A kind, result, d : Directory!Changed(kind, result, d) =
          [Plain(kind) EXCEPT !.result = result, !.count = Cardinality(d)]
    BY <1>3, <1>5 DEF Directory!Changed
<1>7. \A names : Directory!Parts(names) =
          IF Cardinality(Credentials(managed_users)) > Shown /\ RoomForPart
          THEN {Fragment[u] : u \in NamesIn(managed_users) \ names} ELSE {NoWord}
    BY <1>2, <1>5 DEF Directory!Parts
<1> QED
    BY <1>1, <1>2, <1>3, <1>4, <1>5, <1>6, <1>7

\* Any action of the directory is a step of it, or changes nothing.
LEMMA DirectoryStep ==
    ASSUME \/ \E a \in Admins : Directory!Command(a)
           \/ \E gone \in SUBSET Admins : Directory!Leave(gone)
           \/ \E u \in Fields, p \in Fields : Directory!Configure(u, p)
    PROVE  [Directory!Next]_<<Credentials(managed_users), Given>>
BY DEF Directory!Next, Given

\* A step that closes some connections, or none, and starts no answer.
LEMMA LeaveRefines ==
    ASSUME Quiet, NEW gone \in SUBSET Admins,
           Credentials(managed_users') = Credentials(managed_users),
           \A a \in gone : conn'[a] = NoConn,
           \A a \in Admins \ gone :
              conn'[a].answer = conn[a].answer /\ (conn[a].at = "writing" => conn'[a].at = "writing")
    PROVE  Refined
<1>1. NoConn.answer = Plain("none")
    BY DEF NoConn
<1>2. ASSUME NEW a \in Admins, conn'[a].at # "writing" PROVE conn'[a].answer = Plain("none")
    BY <1>1, <1>2 DEF Quiet
<1>3. Quiet'
    BY <1>2 DEF Quiet, Plain
<1>4. Given' = [a \in Admins |-> IF a \in gone THEN Plain("none") ELSE Given[a]]
    BY <1>1 DEF Given
<1>5. Directory!Leave(gone)
    BY <1>4, DirectoryView DEF Directory!Leave, Given
<1> QED
    BY <1>3, <1>5, DirectoryStep DEF Refined

\* A step after which every connection has the answer it had, or is closed.
LEMMA OneLeaves ==
    ASSUME IInv, Quiet, NEW a \in Admins, management_close(a), UNCHANGED managed_users
    PROVE  Refined
<1>1. conn'[a] = NoConn /\ \A b \in Admins \ {a} : conn'[b] = conn[b]
    BY Before DEF management_close
<1>2. {a} \in SUBSET Admins /\ Credentials(managed_users') = Credentials(managed_users)
    OBVIOUS
<1> QED
    BY <1>1, <1>2, LeaveRefines

\* A step that leaves the table and the answers alone.
LEMMA NothingGiven ==
    ASSUME Quiet, UNCHANGED managed_users,
           \A a \in Admins :
              conn'[a].answer = conn[a].answer /\ (conn[a].at = "writing" => conn'[a].at = "writing")
    PROVE  Refined
<1>1. {} \in SUBSET Admins /\ Credentials(managed_users') = Credentials(managed_users)
    OBVIOUS
<1> QED
    BY <1>1, LeaveRefines

\* A user given at start is configured, or is not when it cannot be added.
LEMMA ConfigureRefines ==
    ASSUME IInv, Quiet, users_init_from_args
    PROVE  Refined
<1> DEFINE t == managed_users
           u == InitialUsers[configured'][1]
           p == InitialUsers[configured'][2]
<1>1. configured' \in 1 .. Len(InitialUsers)
    BY ManagementAssumption DEF IInv, TypeOK, users_init_from_args, Started, InitialCount
<1>2. u \in Words /\ p \in Words
    <2>1. InitialUsers[configured'] \in Words \X Words
        BY <1>1, ManagementAssumption
    <2> QED
        BY <2>1
<1>3. managed_users' = users_add(t, u, p) /\ UNCHANGED conn /\ UsersOK(t)
    BY DEF users_init_from_args, IInv
<1> HIDE DEF u, p
<1>4. CASE AddResult(t, u, p) # "ok"
    <2>1. managed_users' = managed_users
        BY <1>3, <1>4 DEF users_add
    <2> QED
        BY <1>3, <2>1, NothingGiven
<1>5. CASE AddResult(t, u, p) = "ok"
    <2>1. Credentials(managed_users') = Credentials(t) \cup {<<u, p>>}
        BY <1>2, <1>3, <1>5, AddsPair
    <2>2. /\ u \in Fields /\ p \in Fields /\ u \notin NamesIn(t)
          /\ Cardinality(Credentials(t)) < USERS_MAX
        <3>1. field_is_valid(u) /\ field_is_valid(p) /\ Found(t, u) = {} /\ InUse(t) # Slots
            BY <1>5 DEF AddResult
        <3>2. u \notin NamesIn(t)
            BY <3>1, NamesFound
        <3>3. Cardinality(Credentials(t)) < USERS_MAX
            BY <1>3, <3>1, CountsUsers, FullTable, ManagementAssumption
        <3> QED
            BY <1>2, <3>1, <3>2, <3>3 DEF field_is_valid, Fields
    <2>3. Directory!Configure(u, p)
        BY <1>3, <2>1, <2>2, DirectoryView DEF Directory!Configure
    <2>4. Quiet'
        BY <1>3 DEF Quiet, Plain
    <2> QED
        BY <2>2, <2>3, <2>4, DirectoryStep DEF Refined
<1> QED
    BY <1>4, <1>5

\* The answer to one connection starts.
LEMMA AnswerStarts ==
    ASSUME NEW a \in Admins, conn[a].answer = Plain("none"), NEW answer,
           conn'[a].answer = answer, \A b \in Admins \ {a} : conn'[b] = conn[b]
    PROVE  /\ [b \in Admins |-> conn[b].answer][a] = Plain("none")
           /\ [b \in Admins |-> conn[b].answer]' =
                 [[b \in Admins |-> conn[b].answer] EXCEPT ![a] = answer]
<1>1. Given' = [Given EXCEPT ![a] = answer]
    <2> DEFINE f == Given
               g == Given'
    <2>1. /\ f = [b \in Admins |-> f[b]] /\ g = [b \in Admins |-> g[b]]
          /\ g[a] = answer /\ \A b \in Admins \ {a} : g[b] = f[b]
        BY DirectoryView DEF Given
    <2> HIDE DEF f, g
    <2>2. g = [f EXCEPT ![a] = answer]
        <3>1. [f EXCEPT ![a] = answer] = [b \in Admins |-> IF b = a THEN answer ELSE f[b]]
            BY <2>1
        <3>2. \A b \in Admins : g[b] = IF b = a THEN answer ELSE f[b]
            BY <2>1
        <3> QED
            BY <2>1, <3>1, <3>2
    <2> QED
        BY <2>2 DEF f, g
<1>2. Given[a] = Plain("none")
    BY DEF Given
<1> QED
    BY <1>1, <1>2 DEF Given

\* What the words of a line may ask for.
LEMMA KindsAsked ==
    ASSUME NEW words \in Seq(Words)
    PROVE  Kind(words) \in Kinds \ {"none"}
<1>1. CASE words = <<>>
    BY <1>1 DEF Kind, Kinds
<1>2. CASE words # <<>> /\ Head(words) \notin DOMAIN Keywords
    BY <1>2 DEF Kind, Kinds
<1>3. CASE words # <<>> /\ Head(words) \in DOMAIN Keywords
    <2>1. Keywords[Head(words)] \in Kinds \ {"none"}
        BY <1>3 DEF Keywords, Kinds
    <2> QED
        BY <1>3, <2>1 DEF Kind, Kinds
<1> QED
    BY <1>1, <1>2, <1>3

\* A command is carried out and its answer starts, which is one step of the
\* directory.
LEMMA CommandRefines ==
    ASSUME IInv, NEW a \in Admins, NEW words \in Seq(Words), conn[a].answer = Plain("none"),
           managed_users' = Executed(managed_users, words),
           conn'[a].answer = Answer(managed_users, words),
           \A b \in Admins \ {a} : conn'[b] = conn[b]
    PROVE  Directory!Command(a)
<1> DEFINE t == managed_users
           v == managed_users'
           kind == Kind(words)
           answer == Answer(t, words)
<1>1. UsersOK(t) /\ UsersOK(v) /\ kind \in Kinds \ {"none"}
    BY KindsAsked, ExecutedKeeps DEF IInv
<1>2. /\ [b \in Admins |-> conn[b].answer][a] = Plain("none")
      /\ [b \in Admins |-> conn[b].answer]' =
            [[b \in Admins |-> conn[b].answer] EXCEPT ![a] = answer]
    BY AnswerStarts
<1>3. Counted(t, words) = Cardinality(Credentials(v))
    BY <1>1, CountsUsers DEF Counted
<1>4. CASE kind = "adduser"
    <2> DEFINE u == words[2]
               p == words[3]
               result == AddResult(t, u, p)
    <2>1. /\ v = users_add(t, u, p)
          /\ answer = [Plain("adduser") EXCEPT !.result = result,
                                               !.count = Cardinality(Credentials(v))]
        BY <1>3, <1>4 DEF Executed, Answer
    <2>2. answer = Directory!Changed("adduser", result, Credentials(v))
        BY <2>1, DirectoryView
    <2>3. u \in Words /\ p \in Words
        BY <1>4, KindFacts
    <2> HIDE DEF u, p, answer
    <2>4. CASE result = "invalid"
        <3>1. v = t
            BY <2>1, <2>4 DEF users_add
        <3>2. Directory!Reject(a, "adduser")
            BY <1>2, <2>2, <2>4, <3>1, DirectoryView
            DEF Directory!Reject, Directory!Answered
        <3> QED
            BY <3>2 DEF Directory!Command
    <2>5. CASE result # "invalid"
        <3>1. u \in Fields /\ p \in Fields
            BY <2>3, <2>5 DEF AddResult, field_is_valid, Fields
        <3>2. result = IF u \in NamesIn(t) THEN "exists"
                       ELSE IF Cardinality(Credentials(t)) = USERS_MAX THEN "full" ELSE "ok"
            BY <1>1, <2>5, NamesFound, FullTable DEF AddResult
        <3>3. Credentials(v) = IF result = "ok" THEN Credentials(t) \cup {<<u, p>>}
                               ELSE Credentials(t)
            <4>1. CASE result = "ok"
                BY <1>1, <2>1, <2>3, <4>1, AddsPair
            <4>2. CASE result # "ok"
                BY <2>1, <4>2 DEF users_add
            <4> QED
                BY <4>1, <4>2
        <3> HIDE DEF result
        <3>4. Directory!Add(a, u, p)
            BY <1>2, <2>2, <3>2, <3>3, DirectoryView
            DEF Directory!Add, Directory!Answered
        <3> QED
            BY <3>1, <3>4 DEF Directory!Command
    <2> QED
        BY <2>4, <2>5
<1>5. CASE kind = "deluser"
    <2> DEFINE u == words[2]
               result == RemoveResult(t, u)
    <2>1. /\ v = users_remove(t, u)
          /\ answer = [Plain("deluser") EXCEPT !.result = result,
                                               !.count = Cardinality(Credentials(v))]
        BY <1>3, <1>5 DEF Executed, Answer
    <2>2. answer = Directory!Changed("deluser", result, Credentials(v))
        BY <2>1, DirectoryView
    <2>3. u \in Words
        BY <1>5, KindFacts
    <2> HIDE DEF u, answer
    <2>4. CASE result = "invalid"
        <3>1. v = t
            BY <2>1, <2>4 DEF users_remove
        <3>2. Directory!Reject(a, "deluser")
            BY <1>2, <2>2, <2>4, <3>1, DirectoryView
            DEF Directory!Reject, Directory!Answered
        <3> QED
            BY <3>2 DEF Directory!Command
    <2>5. CASE result # "invalid"
        <3>1. u \in Fields
            BY <2>3, <2>5 DEF RemoveResult, field_is_valid, Fields
        <3>2. result = IF u \in NamesIn(t) THEN "ok" ELSE "not_found"
            BY <2>5, NamesFound DEF RemoveResult
        <3>3. Credentials(v) = {x \in Credentials(t) : x[1] # u}
            BY <1>1, <2>1, <3>1, RemovesPair DEF Fields
        <3> HIDE DEF result
        <3>4. Directory!Remove(a, u)
            BY <1>2, <2>2, <3>2, <3>3, DirectoryView
            DEF Directory!Remove, Directory!Answered
        <3> QED
            BY <3>1, <3>4 DEF Directory!Command
    <2> QED
        BY <2>4, <2>5
<1>6. CASE kind = "users"
    <2>1. v = t
        BY <1>6 DEF Executed
    <2>2. answer = [Plain("users") EXCEPT !.count = Cardinality(Credentials(t)),
                                          !.names = Listed(t), !.cut = Cut(t)]
        BY <1>3, <1>6, <2>1 DEF Answer
    <2> HIDE DEF answer
    <2>4. Cut(t) \in Directory!Parts(Listed(t))
        BY <1>1, ShowsNames, DirectoryView
    <2>5. /\ Listed(t) \subseteq NamesIn(t)
          /\ Cardinality(Listed(t)) = IF Cardinality(Credentials(t)) <= Shown
                                      THEN Cardinality(Credentials(t)) ELSE Shown
        BY <1>1, ShowsNames
    <2>3. Directory!List(a)
        BY <1>2, <2>1, <2>2, <2>4, <2>5, DirectoryView
            DEF Directory!List, Directory!Answered
    <2> QED
        BY <2>3 DEF Directory!Command
<1>7. CASE kind \notin {"adduser", "deluser", "users"}
    <2>1. v = t /\ answer = Plain(kind)
        BY <1>7 DEF Executed, Answer
    <2>2. kind \in {"stats", "usage", "bye", "help", "unknown", "empty"}
        BY <1>1, <1>7 DEF Kinds
    <2> HIDE DEF answer, kind
    <2>3. Directory!Other(a, kind)
        BY <1>2, <2>1, DirectoryView
            DEF Directory!Other, Directory!Answered
    <2> QED
        BY <2>2, <2>3 DEF Directory!Command
<1> QED
    BY <1>4, <1>5, <1>6, <1>7

\* management_read: a command takes effect with its last unit.
LEMMA ReadRefines ==
    ASSUME IInv, Quiet, NEW a \in Admins, NEW n \in Units, management_read(a, n)
    PROVE  Refined
<1> DEFINE k == conn[a]
           buffer == k.read_buffer \o SubSeq(up[a], 1, n)
           words == FirstLine(buffer)
           answer == Answer(managed_users, words)
<1>1. k.at = "reading" /\ k.answer = Plain("none") /\ k \in ConnRecords
    BY Before DEF management_read, Quiet
<1>2. buffer \in Seq(Symbols)
    <2>1. k.read_buffer \in Seq(Symbols) /\ up[a] \in Seq(Symbols) /\ n \in 1 .. Len(up[a])
        BY <1>1, Before, ManagementAssumption DEF management_read, Units, ConnRecords
    <2> QED
        BY <2>1
<1>3. CASE Complete(buffer)
    <2> DEFINE w == Prepared(k, buffer, words, answer)
    <2>1. conn' = [conn EXCEPT ![a] = w] /\ managed_users' = Executed(managed_users, words)
        BY <1>3 DEF management_read
    <2>2. words \in Seq(Words)
        BY <1>2, FirstLineType
    <2> HIDE DEF words, buffer, answer, k
    <2>3. w.at = "writing" /\ w.answer = answer
        BY <1>1 DEF Prepared, ConnRecords
    <2> HIDE DEF w
    <2>4. conn'[a] = w /\ \A b \in Admins \ {a} : conn'[b] = conn[b]
        BY <2>1, Before
    <2>5. Directory!Command(a)
        BY <1>1, <2>1, <2>2, <2>3, <2>4, CommandRefines DEF answer, k
    <2>6. Quiet'
        BY <2>3, <2>4 DEF Quiet, Plain
    <2> QED
        BY <2>5, <2>6, DirectoryStep DEF Refined
<1>4. CASE ~Complete(buffer)
    <2> DEFINE w == [k EXCEPT !.read_buffer = buffer]
    <2>1. conn' = [conn EXCEPT ![a] = w] /\ managed_users' = managed_users
        BY <1>4, Before DEF management_read
    <2> HIDE DEF buffer, k
    <2>2. w.answer = k.answer /\ w.at = k.at
        BY <1>1 DEF ConnRecords
    <2> HIDE DEF w
    <2>3. conn'[a] = w /\ \A b \in Admins \ {a} : conn'[b] = conn[b]
        BY <2>1, Before
    <2> QED
        BY <2>1, <2>2, <2>3, NothingGiven DEF k
<1> QED
    BY <1>3, <1>4

\* management_write: more of the answer is sent, or all of it is.
LEMMA WriteRefines ==
    ASSUME IInv, Quiet, NEW a \in Admins, NEW n \in 1 .. conn[a].write_len, management_write(a, n)
    PROVE  Refined
<1> DEFINE k == conn[a]
<1>1. UNCHANGED managed_users /\ k \in ConnRecords
    BY Before DEF management_write
<1>2. CASE k.write_off + n = k.write_len
    <2>1. management_close(a)
        BY <1>2 DEF management_write
    <2> QED
        BY <1>1, <2>1, OneLeaves
<1>3. CASE k.write_off + n # k.write_len
    <2> DEFINE w == [k EXCEPT !.write_off = k.write_off + n]
    <2>1. conn' = [conn EXCEPT ![a] = w]
        BY <1>3, Before DEF management_write
    <2> HIDE DEF k
    <2>2. w.answer = k.answer /\ w.at = k.at
        BY <1>1 DEF ConnRecords
    <2> HIDE DEF w
    <2>3. conn'[a] = w /\ \A b \in Admins \ {a} : conn'[b] = conn[b]
        BY <2>1, Before
    <2> QED
        BY <1>1, <2>2, <2>3, NothingGiven DEF k
<1> QED
    BY <1>2, <1>3

\* A connection is made, or accepted, or closed before it is answered.
LEMMA ConnectionRefines ==
    ASSUME IInv, Quiet, NEW a \in Admins,
           \/ \E args \in ArgLists, given \in BOOLEAN : RunClient(a, given, args)
           \/ \E stream \in Streams : RunOther(a, stream)
           \/ accept_management_connection(a)
    PROVE  Refined
<1> DEFINE k == conn[a]
<1>1. UNCHANGED managed_users /\ k.at # "writing" /\ k.answer = Plain("none") /\ k \in ConnRecords
    BY Before DEF RunClient, RunOther, Unused, accept_management_connection, Quiet
<1>2. CASE conn' = conn
    BY <1>1, <1>2, NothingGiven
<1>3. CASE conn' = [conn EXCEPT ![a] = [NoConn EXCEPT !.at = "queued"]]
    <2> DEFINE w == [NoConn EXCEPT !.at = "queued"]
    <2>1. w.answer = Plain("none")
        BY DEF NoConn
    <2> HIDE DEF w, k
    <2>2. conn'[a] = w /\ \A b \in Admins \ {a} : conn'[b] = conn[b]
        BY <1>3, Before DEF w
    <2> QED
        BY <1>1, <2>1, <2>2, NothingGiven DEF k
<1>4. CASE conn' = [conn EXCEPT ![a].at = "reading"]
    <2> DEFINE w == [k EXCEPT !.at = "reading"]
    <2>1. conn' = [conn EXCEPT ![a] = w]
        BY <1>4, Before
    <2> HIDE DEF k
    <2>2. w.answer = k.answer
        BY <1>1 DEF ConnRecords
    <2> HIDE DEF w
    <2>3. conn'[a] = w /\ \A b \in Admins \ {a} : conn'[b] = conn[b]
        BY <2>1, Before
    <2> QED
        BY <1>1, <2>2, <2>3, NothingGiven DEF k
<1>5. CASE management_close(a)
    BY <1>1, <1>5, OneLeaves
<1> QED
    BY <1>2, <1>3, <1>4, <1>5 DEF RunClient, RunOther, accept_management_connection

\* The server stops accepting, or is gone.
LEMMA StopRefines ==
    ASSUME IInv, Quiet, StopAccepting \/ Destroy
    PROVE  Refined
<1>1. UNCHANGED managed_users
    BY DEF StopAccepting, Destroy
<1>2. CASE StopAccepting
    <2> DEFINE gone == {a \in Admins : conn[a].at = "queued"}
    <2>1. /\ \A a \in gone : conn'[a] = NoConn
          /\ \A a \in Admins \ gone : conn'[a] = conn[a]
        BY <1>2 DEF StopAccepting
    <2> QED
        BY <1>1, <2>1, LeaveRefines
<1>3. CASE Destroy
    <2>1. \A a \in Admins : conn'[a] = NoConn
        BY <1>3 DEF Destroy
    <2> QED
        BY <1>1, <2>1, LeaveRefines
<1> QED
    BY <1>2, <1>3

\* Every step is a step of the directory or changes nothing in it.
LEMMA StepRefines ==
    ASSUME IInv, Quiet, [Next]_vars
    PROVE  Refined
<1>1. ASSUME NEW a \in Admins, ClientStep(a) \/ \E k \in 0 .. Len(client[a].left) : Dies(a, k)
      PROVE  Refined
    <2>1. UNCHANGED <<managed_users, conn>>
        BY <1>1 DEF ClientStep, Sends, EndsPrinting, Dies
    <2> QED
        BY <2>1, NothingGiven
<1>2. ASSUME NEW a \in Admins, ServerStep(a) PROVE Refined
    <2>1. CASE ReadEnds(a) \/ WriteFails(a)
        BY <2>1, OneLeaves DEF ReadEnds, WriteFails
    <2> QED
        BY <1>2, <2>1, ReadRefines, WriteRefines, ConnectionRefines DEF ServerStep
<1>3. CASE UNCHANGED vars \/ DescriptorsChange
    BY <1>3, NothingGiven DEF vars, DescriptorsChange
<1> QED
    BY <1>1, <1>2, <1>3, ConfigureRefines, ConnectionRefines, StopRefines DEF Next

\* The table and the connections implement one directory: whatever connections
\* interleave, each command takes effect at one moment, its answer tells what it
\* did at that moment, and nothing else changes what credentials are accepted.
THEOREM ManagementImplementsDirectory == Spec => ImplementsDirectory
<1>1. Init => Quiet /\ Directory!Init
    <2> SUFFICES ASSUME Init PROVE Quiet /\ Directory!Init
        OBVIOUS
    <2>1. \A a \in Admins : conn[a].answer = Plain("none")
        BY DEF Init, NoConn
    <2>2. Credentials(managed_users) = {}
        BY DEF Init, Credentials, InUse, NoUser
    <2> QED
        BY <2>1, <2>2, DirectoryView DEF Quiet, Directory!Init
<1>2. IInv /\ Quiet /\ [Next]_vars =>
        Quiet' /\ [Directory!Next]_<<Credentials(managed_users), [a \in Admins |-> conn[a].answer]>>
    BY StepRefines DEF Refined, Given
<1> QED
    BY <1>1, <1>2, InitialState, StepKeeps, PTL DEF Spec, ImplementsDirectory, Directory!Spec

-----------------------------------------------------------------------------
(* Neither side waits for the other *)

\* A connection that still reads has not received an end of line.
Unfinished(k) ==
    k.at = "reading" => \A i \in 1 .. Len(k.read_buffer) : k.read_buffer[i] # EOL
AllUnfinished == \A a \in Admins : Unfinished(conn[a])

\* A step that changes one connection.
LEMMA OneUnfinished ==
    ASSUME IInv, AllUnfinished, NEW a \in Admins, NEW w, conn' = [conn EXCEPT ![a] = w],
           Unfinished(w)
    PROVE  AllUnfinished'
<1>1. conn'[a] = w /\ \A b \in Admins \ {a} : conn'[b] = conn[b]
    BY Before
<1>2. ASSUME NEW b \in Admins PROVE Unfinished(conn'[b])
    BY <1>1 DEF AllUnfinished
<1> QED
    BY <1>2 DEF AllUnfinished, Unfinished

\* management_close and a new connection leave nothing half read.
LEMMA ClosedUnfinished ==
    /\ Unfinished(NoConn) /\ Unfinished([NoConn EXCEPT !.at = "queued"])
BY DEF Unfinished, NoConn

\* Only accept_management_connection, which finds the buffer empty, and
\* management_read, which goes on reading without an end of line, leave a
\* connection reading.
LEMMA ServerUnfinished ==
    ASSUME IInv, AllUnfinished, NEW a \in Admins, ServerStep(a)
    PROVE  AllUnfinished'
<1> DEFINE k == conn[a]
<1>0. k \in ConnRecords
    BY Before
<1>1. CASE management_close(a)
    BY <1>1, OneUnfinished, ClosedUnfinished DEF management_close
<1>2. CASE accept_management_connection(a)
    <2> DEFINE w == [k EXCEPT !.at = "reading"]
    <2>1. management_close(a) \/ conn' = [conn EXCEPT ![a] = w]
        BY <1>2 DEF accept_management_connection
    <2>2. k.read_buffer = <<>>
        BY <1>2, Before DEF accept_management_connection, SideOK, ConnOK
    <2> HIDE DEF k
    <2>3. w.read_buffer = <<>>
        BY <1>0, <2>2 DEF ConnRecords
    <2> HIDE DEF w
    <2>4. Unfinished(w)
        BY <2>3 DEF Unfinished
    <2> QED
        BY <1>1, <2>1, <2>4, OneUnfinished
<1>3. ASSUME NEW n \in Units, management_read(a, n) PROVE AllUnfinished'
    <2> DEFINE buffer == k.read_buffer \o SubSeq(up[a], 1, n)
    <2>1. CASE Complete(buffer)
        <3> DEFINE words == FirstLine(buffer)
                   answer == Answer(managed_users, words)
                   w == Prepared(k, buffer, words, answer)
        <3>1. conn' = [conn EXCEPT ![a] = w]
            BY <1>3, <2>1 DEF management_read
        <3> HIDE DEF words, answer, buffer, k
        <3>2. w.at = "writing"
            BY <1>0 DEF Prepared, ConnRecords
        <3> HIDE DEF w
        <3> QED
            BY <3>1, <3>2, OneUnfinished DEF Unfinished
    <2>2. CASE ~Complete(buffer)
        <3> DEFINE w == [k EXCEPT !.read_buffer = buffer]
        <3>1. conn' = [conn EXCEPT ![a] = w]
            BY <1>3, <2>2 DEF management_read
        <3> HIDE DEF buffer, k
        <3>2. w.read_buffer = buffer
            BY <1>0 DEF ConnRecords
        <3> HIDE DEF w
        <3>3. Unfinished(w)
            BY <2>2, <3>2 DEF Unfinished, Complete
        <3> QED
            BY <3>1, <3>3, OneUnfinished
    <2> QED
        BY <2>1, <2>2
<1>4. ASSUME NEW n \in 1 .. conn[a].write_len, management_write(a, n) PROVE AllUnfinished'
    <2> DEFINE w == [k EXCEPT !.write_off = @ + n]
    <2>1. k.at = "writing" /\ (management_close(a) \/ conn' = [conn EXCEPT ![a] = w])
        BY <1>4 DEF management_write
    <2> HIDE DEF k
    <2>2. w.at = "writing"
        BY <1>0, <2>1 DEF ConnRecords
    <2> HIDE DEF w
    <2> QED
        BY <1>1, <2>1, <2>2, OneUnfinished DEF Unfinished
<1>5. CASE ReadEnds(a) \/ WriteFails(a)
    BY <1>1, <1>5 DEF ReadEnds, WriteFails
<1> QED
    BY <1>2, <1>3, <1>4, <1>5 DEF ServerStep

\* No step leaves a whole line unanswered.
LEMMA StepUnfinished ==
    ASSUME IInv, AllUnfinished, [Next]_vars
    PROVE  AllUnfinished'
<1>1. ASSUME \A a \in Admins : conn'[a] = conn[a] \/ conn'[a] = NoConn PROVE AllUnfinished'
    <2>1. ASSUME NEW a \in Admins PROVE Unfinished(conn'[a])
        BY <1>1, ClosedUnfinished DEF AllUnfinished
    <2> QED
        BY <2>1 DEF AllUnfinished, Unfinished
<1>2. CASE users_init_from_args \/ UNCHANGED vars \/ DescriptorsChange
    BY <1>1, <1>2 DEF users_init_from_args, vars, DescriptorsChange
<1>3. ASSUME NEW a \in Admins, NEW given \in BOOLEAN, NEW args \in ArgLists,
             RunClient(a, given, args)
      PROVE  AllUnfinished'
    <2>1. UNCHANGED conn \/ conn' = [conn EXCEPT ![a] = [NoConn EXCEPT !.at = "queued"]]
        BY <1>3 DEF RunClient
    <2> QED
        BY <1>1, <2>1, OneUnfinished, ClosedUnfinished
<1>4. ASSUME NEW a \in Admins, NEW stream \in Streams, RunOther(a, stream) PROVE AllUnfinished'
    BY <1>4, OneUnfinished, ClosedUnfinished DEF RunOther
<1>5. ASSUME NEW a \in Admins, ClientStep(a) \/ \E k \in 0 .. Len(client[a].left) : Dies(a, k)
      PROVE  AllUnfinished'
    BY <1>1, <1>5 DEF ClientStep, Sends, EndsPrinting, Dies
<1>6. CASE StopAccepting \/ Destroy
    BY <1>1, <1>6 DEF StopAccepting, Destroy
<1> QED
    BY <1>2, <1>3, <1>4, <1>5, <1>6, ServerUnfinished DEF Next

\* As long as client.c waits for its answer, some of its command is still to be
\* received or some of the answer still to be sent.
THEOREM CommandsMoveOn == Spec => []CommandMovesOn
<1>1. Init => AllUnfinished
    BY ClosedUnfinished DEF Init, AllUnfinished
<1>2. IInv /\ AllUnfinished /\ [Next]_vars => AllUnfinished'
    BY StepUnfinished
<1>3. IInv /\ AllUnfinished => CommandMovesOn
    <2> SUFFICES ASSUME IInv, AllUnfinished, NEW a \in Admins,
                        client[a].at = "printing", client[a].ours
                 PROVE  /\ conn[a].at \in {"queued", "reading"} => up[a] # <<>>
                        /\ conn[a].at = "writing" => conn[a].write_off < conn[a].write_len
        BY DEF CommandMovesOn
    <2> DEFINE args == client[a].args
               rb == conn[a].read_buffer
    <2>1. conn[a].at = "writing" => conn[a].write_off < conn[a].write_len
        BY Before DEF SideOK, ConnOK
    <2>2. ASSUME conn[a].at \in {"queued", "reading"}, up[a] = <<>> PROVE FALSE
        <3>1. OnTheWay(args, rb, up[a])
            BY <2>2, Before DEF SideOK, RunOK, Printing
        <3>2. args \in Seq(Words) /\ rb \in Seq(Symbols)
            BY Before DEF ClientRecords, ConnRecords
        <3>3. \A i \in 1 .. Len(rb) : rb[i] # EOL
            BY <2>2, Before DEF AllUnfinished, Unfinished, SideOK, ConnOK
        <3> HIDE DEF args, rb
        <3>4. Len(rb) = Len(args) + 1 /\ Len(args) \in Nat
            BY <2>2, <3>1, <3>2 DEF OnTheWay
        <3>5. rb[Len(args) + 1] = LineAt(args, Len(args) + 1) /\ Len(args) + 1 \in 1 .. Len(rb)
            BY <3>1, <3>4 DEF OnTheWay, Part
        <3>6. LineAt(args, Len(args) + 1) = EOL
            BY <3>4 DEF LineAt
        <3> QED
            BY <3>3, <3>5, <3>6
    <2> QED
        BY <2>1, <2>2
<1> QED
    BY <1>1, <1>2, <1>3, InitialState, StepKeeps, PTL DEF Spec
=============================================================================
