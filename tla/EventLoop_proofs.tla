------------------------- MODULE EventLoop_proofs -------------------------
(***************************************************************************)
(* Proofs about EventLoop.  The operators of selector.c keep the table     *)
(* exact (TableOK), and the handlers keep the table, the open descriptors  *)
(* and the sessions linked (Linked).  Numbers that are closed and handed   *)
(* out again are covered, since nothing is assumed about which one is free.*)
(***************************************************************************)
EXTENDS EventLoop, NumberLemmas, TLAPS

Tables ==
    [fds : [Index -> Item], fd_size : Nat, max_fd : Index,
     master_r : SUBSET Index, master_w : SUBSET Index]

Kinds == {"client", "target"}

\* The master sets of t are the interests of its items.
MastersExact(t) ==
    /\ t.master_r = {f \in Used(t) : "R" \in t.fds[f].interest}
    /\ t.master_w = {f \in Used(t) : "W" \in t.fds[f].interest}

\* The table t is as TableExact wants it.
TableOK(t) ==
    /\ t \in Tables
    /\ MastersExact(t)
    /\ \A f \in Used(t) : f <= t.max_fd /\ f < FD_SETSIZE
    /\ t.max_fd \in Used(t) \cup {0}
    /\ t.fd_size = FD_SETSIZE + 1

-----------------------------------------------------------------------------
(* Numbers *)

\* No power of two is larger than what the platform can handle, so the table is
\* created with FD_SETSIZE + 1 items.
LEMMA LargestCapacity == next_capacity(FD_SETSIZE) = FD_SETSIZE + 1
<1>1. FD_SETSIZE \in Nat
    BY LoopAssumption
<1>2. FD_SETSIZE + 1 .. FD_SETSIZE = {}
    BY <1>1
<1>3. PowersAbove(FD_SETSIZE) = {}
    BY <1>2 DEF PowersAbove
<1> QED
    BY <1>1, <1>3 DEF next_capacity

-----------------------------------------------------------------------------
(* The operators of selector.c *)

\* items_max_fd is the highest index in use, or 0.
LEMMA MaxFd ==
    ASSUME NEW t, t \in Tables, \A f \in Used(t) : f <= t.max_fd
    PROVE  /\ items_max_fd(t) \in Index
           /\ \A f \in Used(t) : f <= items_max_fd(t)
           /\ items_max_fd(t) \in Used(t) \cup {0}
<1> DEFINE found == Used(t) \cap (0 .. t.max_fd)
<1>1. t.max_fd \in Nat /\ FD_SETSIZE \in Nat
    BY LoopAssumption DEF Tables, Index
<1>2. Used(t) \subseteq Index
    BY DEF Used
<1>3. found = Used(t)
    BY <1>1, <1>2 DEF Index
<1>4. CASE found = {}
    BY <1>1, <1>3, <1>4 DEF items_max_fd, Index
<1>5. CASE found # {}
    <2>1. \E m \in found : \A f \in found : f <= m
        BY <1>1, <1>5, GreatestExists
    <2>2. items_max_fd(t) = CHOOSE m \in found : \A f \in found : f <= m
        BY <1>5 DEF items_max_fd
    <2> HIDE DEF found
    <2>3. items_max_fd(t) \in found /\ \A f \in found : f <= items_max_fd(t)
        BY <2>1, <2>2
    <2> QED
        BY <1>2, <1>3, <2>3
<1> QED
    BY <1>4, <1>5

\* u is t with another item at f, whose interest is ops, and the master sets
\* updated for f.
Refreshed(t, u, f, ops) ==
    /\ u \in Tables
    /\ \A g \in Index : g # f => u.fds[g] = t.fds[g]
    /\ IF u.fds[f].handler # "none" THEN u.fds[f].interest = ops ELSE ops = {}
    /\ u.master_r = IF "R" \in ops THEN t.master_r \cup {f} ELSE t.master_r \ {f}
    /\ u.master_w = IF "W" \in ops THEN t.master_w \cup {f} ELSE t.master_w \ {f}

\* What items_update_fdset_for_fd does after one item has changed keeps the
\* master sets exact.
LEMMA RefreshKeeps ==
    ASSUME NEW t, TableOK(t), NEW u, NEW f \in Index, NEW ops, Refreshed(t, u, f, ops)
    PROVE  MastersExact(u)
<1> USE DEF Refreshed
<1>1. \A g \in Index : g # f => (g \in Used(u) <=> g \in Used(t))
    BY DEF Used
<1>2. f \in Used(u) <=> u.fds[f].handler # "none"
    BY DEF Used
<1>3. \A g \in Index :
        /\ g \in t.master_r <=> g \in Used(t) /\ "R" \in t.fds[g].interest
        /\ g \in t.master_w <=> g \in Used(t) /\ "W" \in t.fds[g].interest
    BY DEF TableOK, MastersExact
<1>4. \A g \in Index :
        /\ g \in u.master_r <=> g \in Used(u) /\ "R" \in u.fds[g].interest
        /\ g \in u.master_w <=> g \in Used(u) /\ "W" \in u.fds[g].interest
    BY <1>1, <1>2, <1>3
<1>5. u.master_r \subseteq Index /\ u.master_w \subseteq Index /\ Used(u) \subseteq Index
    BY DEF Tables, Used
<1> QED
    BY <1>4, <1>5 DEF MastersExact

\* u is t with its master sets updated for f.
Updated(t, u, f, ops) ==
    /\ u \in Tables
    /\ u.fds = t.fds /\ u.fd_size = t.fd_size /\ u.max_fd = t.max_fd
    /\ u.master_r = IF "R" \in ops THEN t.master_r \cup {f} ELSE t.master_r \ {f}
    /\ u.master_w = IF "W" \in ops THEN t.master_w \cup {f} ELSE t.master_w \ {f}

\* items_update_fdset_for_fd only touches the master sets.
LEMMA UpdateFdset ==
    ASSUME NEW t, t \in Tables, NEW f \in Index, NEW ops
    PROVE  Updated(t, items_update_fdset_for_fd(t, f, ops), f, ops)
BY DEF items_update_fdset_for_fd, Tables, Updated

\* selector_set_interest keeps the table exact and changes one interest.
LEMMA SetInterestKeeps ==
    ASSUME NEW t, TableOK(t), NEW f \in Index, NEW ops \in SUBSET Ops
    PROVE  LET u == selector_set_interest(t, f, ops) IN
           /\ TableOK(u)
           /\ Used(u) = Used(t)
           /\ \A g \in Index : /\ u.fds[g].handler = t.fds[g].handler
                               /\ u.fds[g].data = t.fds[g].data
                               /\ g # f => u.fds[g] = t.fds[g]
<1>1. CASE t.fds[f].handler = "none"
    BY <1>1 DEF selector_set_interest
<1>2. CASE t.fds[f].handler # "none"
    <2> DEFINE v == [t EXCEPT !.fds[f].interest = ops]
               u == selector_set_interest(t, f, ops)
    <2>1. t \in Tables /\ t.fds \in [Index -> Item] /\ t.fds[f] \in Item
        BY DEF TableOK, Tables
    <2>2. /\ v.fds = [t.fds EXCEPT ![f].interest = ops]
          /\ v.fd_size = t.fd_size /\ v.max_fd = t.max_fd
          /\ v.master_r = t.master_r /\ v.master_w = t.master_w
        BY <2>1 DEF Tables
    <2>3. /\ \A g \in Index : /\ v.fds[g].handler = t.fds[g].handler
                              /\ v.fds[g].data = t.fds[g].data
                              /\ g # f => v.fds[g] = t.fds[g]
          /\ v.fds[f].interest = ops
          /\ v.fds \in [Index -> Item]
        BY <2>1, <2>2 DEF Item
    <2>4. v \in Tables
        <3>1. [t.fds EXCEPT ![f].interest = ops] \in [Index -> Item]
            BY <2>2, <2>3
        <3> QED
            BY <2>1, <3>1 DEF Tables
    <2>5. u = items_update_fdset_for_fd(v, f, ops)
        BY <1>2 DEF selector_set_interest
    <2> HIDE DEF u, v
    <2>6. /\ u \in Tables
          /\ u.fds = v.fds /\ u.fd_size = t.fd_size /\ u.max_fd = t.max_fd
          /\ u.master_r = IF "R" \in ops THEN t.master_r \cup {f} ELSE t.master_r \ {f}
          /\ u.master_w = IF "W" \in ops THEN t.master_w \cup {f} ELSE t.master_w \ {f}
        <3>1. Updated(v, u, f, ops)
            BY <2>4, <2>5, UpdateFdset
        <3> QED
            BY <2>2, <3>1 DEF Updated
    <2>7. Used(u) = Used(t)
        BY <2>3, <2>6 DEF Used
    <2>8. Refreshed(t, u, f, ops)
        BY <1>2, <2>3, <2>6 DEF Refreshed
    <2>9. MastersExact(u)
        BY <2>8, RefreshKeeps
    <2>10. TableOK(u)
        BY <2>6, <2>7, <2>9 DEF TableOK
    <2> QED
        BY <2>3, <2>6, <2>7, <2>10 DEF u
<1> QED
    BY <1>1, <1>2

\* selector_register keeps the table exact and adds one item.
LEMMA RegisterKeeps ==
    ASSUME NEW t, TableOK(t), NEW f \in Index, NEW item \in Item,
           CanRegister(t, f), item.handler # "none"
    PROVE  LET u == selector_register(t, f, item) IN
           /\ TableOK(u)
           /\ Used(u) = Used(t) \cup {f}
           /\ u.fds = [t.fds EXCEPT ![f] = item]
<1> DEFINE v == [t EXCEPT !.fds[f] = item,
                          !.fd_size = IF f > @ THEN ensure_capacity(t, f) ELSE @,
                          !.max_fd = IF f > @ THEN f ELSE @]
           u == selector_register(t, f, item)
<1>1. /\ t \in Tables /\ FD_SETSIZE \in Nat /\ f \in Nat
      /\ f < FD_SETSIZE /\ t.fd_size = FD_SETSIZE + 1 /\ t.max_fd \in Nat
    BY LoopAssumption DEF TableOK, CanRegister, Index, Tables
<1>2. ~ (f > t.fd_size)
    BY <1>1
<1>3. /\ v.fds = [t.fds EXCEPT ![f] = item]
      /\ v.fd_size = t.fd_size
      /\ v.max_fd = IF f > t.max_fd THEN f ELSE t.max_fd
      /\ v.master_r = t.master_r /\ v.master_w = t.master_w
      /\ v \in Tables
    BY <1>1, <1>2 DEF Tables
<1>a. u = items_update_fdset_for_fd(v, f, item.interest)
    BY DEF selector_register
<1> HIDE DEF u, v
<1>4. /\ u \in Tables
      /\ u.fds = [t.fds EXCEPT ![f] = item]
      /\ u.fd_size = t.fd_size
      /\ u.max_fd = IF f > t.max_fd THEN f ELSE t.max_fd
      /\ u.master_r = IF "R" \in item.interest THEN t.master_r \cup {f} ELSE t.master_r \ {f}
      /\ u.master_w = IF "W" \in item.interest THEN t.master_w \cup {f} ELSE t.master_w \ {f}
    <2>1. Updated(v, u, f, item.interest)
        BY <1>3, <1>a, UpdateFdset
    <2> QED
        BY <1>3, <2>1 DEF Updated
<1>5. /\ \A g \in Index : g # f => u.fds[g] = t.fds[g]
      /\ u.fds[f] = item
    BY <1>1, <1>4 DEF Tables
<1>6. Used(u) = Used(t) \cup {f}
    BY <1>5 DEF Used
<1>b. Refreshed(t, u, f, item.interest)
    BY <1>4, <1>5 DEF Refreshed
<1>7. MastersExact(u)
    BY <1>b, RefreshKeeps
<1>8. \A g \in Used(u) : g <= u.max_fd /\ g < FD_SETSIZE
    <2> SUFFICES ASSUME NEW g \in Used(u) PROVE g <= u.max_fd /\ g < FD_SETSIZE
        OBVIOUS
    <2>1. CASE g = f
        BY <1>1, <1>4, <2>1
    <2>2. CASE g \in Used(t)
        <3>1. g \in Nat
            BY <2>2, <1>1 DEF Used, Index
        <3>2. g <= t.max_fd /\ g < FD_SETSIZE
            BY <2>2 DEF TableOK
        <3> QED
            BY <1>1, <1>4, <3>1, <3>2
    <2> QED
        BY <1>6, <2>1, <2>2
<1>9. u.max_fd \in Used(u) \cup {0}
    BY <1>4, <1>6 DEF TableOK
<1>10. TableOK(u)
    BY <1>1, <1>4, <1>7, <1>8, <1>9 DEF TableOK
<1> QED
    BY <1>4, <1>6, <1>10 DEF u

\* selector_unregister_fd keeps the table exact and removes one item.
LEMMA UnregisterKeeps ==
    ASSUME NEW t, TableOK(t), NEW f \in Index, f \in Used(t)
    PROVE  LET u == selector_unregister_fd(t, f) IN
           /\ TableOK(u)
           /\ Used(u) = Used(t) \ {f}
           /\ u.fds = [t.fds EXCEPT ![f] = Unused]
<1> DEFINE c == items_update_fdset_for_fd([t EXCEPT !.fds[f] = Unused], f, {})
           u == selector_unregister_fd(t, f)
<1>1. Unused \in Item /\ Unused.handler = "none"
    BY DEF Unused, Item
<1>2. /\ c.fds = [t.fds EXCEPT ![f] = Unused]
      /\ c.fd_size = t.fd_size /\ c.max_fd = t.max_fd
      /\ c.master_r = t.master_r \ {f} /\ c.master_w = t.master_w \ {f}
      /\ c \in Tables
    BY <1>1 DEF items_update_fdset_for_fd, TableOK, Tables
<1>3. u = [c EXCEPT !.max_fd = items_max_fd(c)]
    BY DEF selector_unregister_fd, Used
<1> HIDE DEF c, u
<1>4. /\ \A g \in Index : g # f => c.fds[g] = t.fds[g]
      /\ c.fds[f] = Unused
    BY <1>2 DEF TableOK, Tables
<1>5. Used(c) = Used(t) \ {f}
    BY <1>1, <1>4 DEF Used
<1>6. \A g \in Used(c) : g <= c.max_fd /\ g < FD_SETSIZE
    BY <1>2, <1>5 DEF TableOK
<1>a. Refreshed(t, c, f, {})
    BY <1>1, <1>2, <1>4 DEF Refreshed
<1>7. MastersExact(c)
    BY <1>a, RefreshKeeps
<1>8. /\ items_max_fd(c) \in Index
      /\ \A g \in Used(c) : g <= items_max_fd(c)
      /\ items_max_fd(c) \in Used(c) \cup {0}
    BY <1>2, <1>6, MaxFd
<1>9. /\ u.fds = c.fds /\ u.fd_size = c.fd_size /\ u.max_fd = items_max_fd(c)
      /\ u.master_r = c.master_r /\ u.master_w = c.master_w
      /\ u \in Tables
    BY <1>2, <1>3, <1>8 DEF Tables
<1>10. Used(u) = Used(c)
    BY <1>9 DEF Used
<1>11. TableOK(u)
    BY <1>2, <1>6, <1>7, <1>8, <1>9, <1>10 DEF TableOK, MastersExact
<1> QED
    BY <1>2, <1>5, <1>9, <1>10, <1>11 DEF u

-----------------------------------------------------------------------------
(* The inductive invariant *)

SessionRecords ==
    [stage : Stages, client : Index \cup {NoFd}, target : Index \cup {NoFd},
     c2t : BOOLEAN, t2c : BOOLEAN, reply : {"none", "SUCCESS", "FAILURE"}]

SessionStates == [Sessions -> SessionRecords]

\* Stages in which a session has no descriptor, and those in which it has two.
Absent == {"UNBORN", "QUEUED", "FREED"}
Coupled == {"CONNECTING", "ANSWERED", "RELAY"}

\* Descriptor f is that of this kind of session s in ses exactly if the item of f
\* says so.
OwnedBy(fds, ses, s) ==
    \A f \in Index :
        /\ ses[s].client = f <=> fds[f].handler = "client" /\ fds[f].data = s
        /\ ses[s].target = f <=> fds[f].handler = "target" /\ fds[f].data = s

\* The table t, the open descriptors o and the sessions ses belong together.
Linked(t, o, ses) ==
    /\ TableOK(t)
    /\ Used(t) = o
    /\ \A s \in Sessions : OwnedBy(t.fds, ses, s)

\* The descriptors and the reply of a session are those of its stage.
StageOK(r) ==
    /\ r.client = NoFd <=> r.stage \in Absent
    /\ r.target = NoFd <=> r.stage \notin Coupled
    /\ r.reply = "SUCCESS" => r.stage \in {"ANSWERED", "RELAY"}

\* Whoever waits to be accepted is queued, and queued once.
BacklogOK ==
    /\ \A i \in 1 .. Len(backlog) : session[backlog[i]].stage = "QUEUED"
    /\ \A i, j \in 1 .. Len(backlog) : backlog[i] = backlog[j] => i = j

\* While errno is still 0 nobody has a descriptor, unless accept_connection is
\* running: its last accept fails and sets errno.
ErrnoOK ==
    errno = "0" /\ (\E s \in Sessions : session[s].stage \notin Absent) =>
        /\ phase = "dispatch" /\ pos = 0
        /\ sel.fds[server_fd].handler = "accept"
        /\ Due(server_fd, "R")

IInv ==
    /\ TypeOK
    /\ Linked(sel, open, session)
    /\ \A s \in Sessions : StageOK(session[s])
    /\ BacklogOK
    /\ ErrnoOK

-----------------------------------------------------------------------------
(* What the operators of selector.c do to the links *)

\* ses2 is ses with another record for s, whose descriptors are c and t.
Relinked(ses, ses2, s, c, t) ==
    /\ ses2 \in SessionStates
    /\ \A q \in Sessions : q # s => ses2[q] = ses[q]
    /\ ses2[s].client = c /\ ses2[s].target = t

\* A change of interest leaves sessions and table linked.
LEMMA LinkInterest ==
    ASSUME NEW t, NEW o, NEW ses, Linked(t, o, ses),
           NEW f \in Index, NEW ops \in SUBSET Ops
    PROVE  Linked(selector_set_interest(t, f, ops), o, ses)
<1> DEFINE u == selector_set_interest(t, f, ops)
<1>1. TableOK(t)
    BY DEF Linked
<1>2. /\ TableOK(u) /\ Used(u) = Used(t)
      /\ \A g \in Index : u.fds[g].handler = t.fds[g].handler /\ u.fds[g].data = t.fds[g].data
    BY <1>1, SetInterestKeeps
<1> HIDE DEF u
<1> QED
    BY <1>2 DEF Linked, OwnedBy, u

\* So does a step that leaves the descriptors of its session alone.
LEMMA LinkSame ==
    ASSUME NEW t, NEW o, NEW ses \in SessionStates, Linked(t, o, ses), NEW s \in Sessions,
           NEW ses2, Relinked(ses, ses2, s, ses[s].client, ses[s].target)
    PROVE  Linked(t, o, ses2)
<1>1. \A q \in Sessions : ses2[q].client = ses[q].client /\ ses2[q].target = ses[q].target
    BY DEF Relinked
<1> QED
    BY <1>1 DEF Linked, OwnedBy

\* selector_register links a new descriptor to its session.
LEMMA LinkRegister ==
    ASSUME NEW t, NEW o, NEW ses \in SessionStates, Linked(t, o, ses),
           NEW s \in Sessions, NEW kind \in Kinds, NEW ops \in SUBSET Ops,
           NEW f \in Index, CanRegister(t, f), NEW ses2,
           IF kind = "client"
           THEN ses[s].client = NoFd /\ Relinked(ses, ses2, s, f, ses[s].target)
           ELSE ses[s].target = NoFd /\ Relinked(ses, ses2, s, ses[s].client, f)
    PROVE  Linked(selector_register(t, f, [handler |-> kind, interest |-> ops, data |-> s]),
                  o \cup {f}, ses2)
<1> DEFINE item == [handler |-> kind, interest |-> ops, data |-> s]
           u == selector_register(t, f, item)
<1>1. item \in Item /\ item.handler = kind /\ item.data = s /\ item.handler # "none"
    BY DEF Item, Kinds
<1>2. TableOK(t) /\ t.fds \in [Index -> Item]
    BY DEF Linked, TableOK, Tables
<1> HIDE DEF item
<1>3. TableOK(u) /\ Used(u) = Used(t) \cup {f} /\ u.fds = [t.fds EXCEPT ![f] = item]
    BY <1>1, <1>2, RegisterKeeps
<1> HIDE DEF u
<1>4. NoFd \notin Index /\ t.fds[f].handler = "none"
    BY DEF CanRegister, NoFd, Index
<1>5. /\ u.fds[f].handler = kind /\ u.fds[f].data = s
      /\ \A g \in Index : g # f => u.fds[g] = t.fds[g]
    BY <1>1, <1>2, <1>3
<1>6. ASSUME NEW q \in Sessions PROVE OwnedBy(u.fds, ses2, q)
    <2>1. OwnedBy(t.fds, ses, q)
        BY DEF Linked
    <2>2. CASE q # s
        BY <1>4, <1>5, <2>1, <2>2 DEF OwnedBy, Relinked
    <2>3. CASE q = s /\ kind = "client"
        BY <1>4, <1>5, <2>1, <2>3 DEF OwnedBy, Relinked
    <2>4. CASE q = s /\ kind = "target"
        BY <1>4, <1>5, <2>1, <2>4 DEF OwnedBy, Relinked
    <2> QED
        BY <2>2, <2>3, <2>4 DEF Kinds
<1>7. Used(u) = o \cup {f}
    BY <1>3 DEF Linked
<1> QED
    BY <1>3, <1>6, <1>7 DEF Linked, u, item

\* selector_unregister_fd unlinks a descriptor from its session.
LEMMA LinkUnregister ==
    ASSUME NEW t, NEW o, NEW ses \in SessionStates, Linked(t, o, ses),
           NEW s \in Sessions, NEW kind \in Kinds, NEW f \in Index, NEW ses2,
           IF kind = "client"
           THEN ses[s].client = f /\ Relinked(ses, ses2, s, NoFd, ses[s].target)
           ELSE ses[s].target = f /\ Relinked(ses, ses2, s, ses[s].client, NoFd)
    PROVE  Linked(selector_unregister_fd(t, f), o \ {f}, ses2)
<1> DEFINE u == selector_unregister_fd(t, f)
<1>1. TableOK(t) /\ t.fds \in [Index -> Item]
    BY DEF Linked, TableOK, Tables
<1>2. t.fds[f].handler = kind /\ t.fds[f].data = s
    BY DEF Linked, OwnedBy, Kinds
<1>3. f \in Used(t)
    BY <1>2 DEF Used, Kinds
<1>4. TableOK(u) /\ Used(u) = Used(t) \ {f} /\ u.fds = [t.fds EXCEPT ![f] = Unused]
    BY <1>1, <1>3, UnregisterKeeps
<1> HIDE DEF u
<1>5. /\ u.fds[f].handler = "none"
      /\ \A g \in Index : g # f => u.fds[g] = t.fds[g]
    BY <1>1, <1>4 DEF Unused
<1>6. NoFd \notin Index
    BY DEF NoFd, Index
<1>7. ASSUME NEW q \in Sessions PROVE OwnedBy(u.fds, ses2, q)
    <2>1. OwnedBy(t.fds, ses, q)
        BY DEF Linked
    <2>2. CASE q # s
        BY <1>2, <1>5, <2>1, <2>2 DEF OwnedBy, Relinked
    <2>3. CASE q = s /\ kind = "client"
        BY <1>2, <1>5, <1>6, <2>1, <2>3 DEF OwnedBy, Relinked
    <2>4. CASE q = s /\ kind = "target"
        BY <1>2, <1>5, <1>6, <2>1, <2>4 DEF OwnedBy, Relinked
    <2> QED
        BY <2>2, <2>3, <2>4 DEF Kinds
<1>8. Used(u) = o \ {f}
    BY <1>4 DEF Linked
<1> QED
    BY <1>4, <1>7, <1>8 DEF Linked, u

-----------------------------------------------------------------------------
(* The initial state and the handlers *)

\* The loop starts with the listening socket registered and no session.
LEMMA Initially == Init => IInv
<1> SUFFICES ASSUME Init PROVE IInv
    OBVIOUS
<1> DEFINE n == selector_new
           item == [handler |-> "accept", interest |-> {"R"}, data |-> NULL]
<1>1. FD_SETSIZE \in Nat /\ FD_SETSIZE > 0 /\ server_fd \in Index /\ server_fd = 0
    BY LoopAssumption DEF server_fd, Index
<1>2. n.fds = [f \in Index |-> Unused] /\ n.fd_size = FD_SETSIZE + 1 /\ n.max_fd = 0
      /\ n.master_r = {} /\ n.master_w = {}
    BY LargestCapacity DEF selector_new, InitialElements
<1>3. Unused \in Item /\ Unused.handler = "none"
    BY DEF Unused, Item
<1>4. n \in Tables
    <2>1. [f \in Index |-> Unused] \in [Index -> Item]
        BY <1>3
    <2>2. next_capacity(InitialElements) \in Nat /\ 0 \in Index
        BY <1>1, LargestCapacity DEF InitialElements
    <2> QED
        BY <2>1, <2>2 DEF selector_new, Tables
<1> HIDE DEF n
<1>5. Used(n) = {}
    BY <1>2, <1>3 DEF Used
<1>6. TableOK(n)
    BY <1>2, <1>4, <1>5 DEF TableOK, MastersExact
<1>7. item \in Item /\ item.handler = "accept" /\ item.handler # "none"
    BY DEF Item, Ops
<1>8. CanRegister(n, server_fd)
    BY <1>1, <1>2, <1>3 DEF CanRegister
<1> HIDE DEF item
<1>9. TableOK(sel) /\ Used(sel) = {server_fd} /\ sel.fds = [n.fds EXCEPT ![server_fd] = item]
    <2>1. sel = selector_register(n, server_fd, item)
        BY DEF Init, n, item
    <2> QED
        BY <1>1, <1>5, <1>6, <1>7, <1>8, <2>1, RegisterKeeps
<1>10. \A f \in Index : sel.fds[f].handler \in {"none", "accept"}
    BY <1>1, <1>2, <1>3, <1>7, <1>9
<1>11. NewSession \in SessionRecords /\ StageOK(NewSession)
       /\ NewSession.client = NoFd /\ NewSession.target = NoFd /\ NoFd \notin Index
    BY DEF NewSession, SessionRecords, StageOK, Stages, Absent, Coupled, NoFd, Index
<1>12. session \in SessionStates /\ \A s \in Sessions : session[s] = NewSession
    BY <1>11 DEF Init, SessionStates
<1>13. Linked(sel, open, session)
    <2>1. \A s \in Sessions : OwnedBy(sel.fds, session, s)
        BY <1>10, <1>11, <1>12 DEF OwnedBy
    <2> QED
        BY <1>9, <2>1 DEF Linked, Init
<1>14. limit \in Limits /\ limit \in Nat /\ limit > 0
    BY LoopAssumption DEF Init
<1>15. TypeOK
    <2>1. sel \in Tables
        BY <1>9 DEF TableOK
    <2>2. open \subseteq 0 .. limit - 1
        BY <1>1, <1>14 DEF Init
    <2>3. 0 \in Index /\ conn \in [Sessions -> {"none", "inprogress", "established", "refused"}]
        BY <1>1 DEF Init
    <2>4. backlog \in Seq(Sessions)
        BY DEF Init
    <2> QED
        BY <1>12, <1>14, <2>1, <2>2, <2>3, <2>4
        DEF TypeOK, Init, Tables, SessionStates, SessionRecords
<1>16. BacklogOK
    BY DEF BacklogOK, Init
<1>17. ErrnoOK
    BY <1>12 DEF ErrnoOK, NewSession, Absent
<1> QED
    BY <1>11, <1>12, <1>13, <1>15, <1>16, <1>17 DEF IInv

\* The number that accept or socket returns is free.
LEMMA LowestIsFree ==
    ASSUME limit \in Nat, NEW o, Free(o) # {}
    PROVE  Lowest(o) \in Free(o)
<1>1. Free(o) \in SUBSET Nat
    BY DEF Free
<1>2. \E f \in Free(o) : \A g \in Free(o) : f <= g
    BY <1>1, LeastExists
<1> QED
    BY <1>2 DEF Lowest

\* A handler of a session runs only once errno is set, and finds the descriptors
\* of its stage.
LEMMA ServesFacts ==
    ASSUME IInv, NEW s \in Sessions, NEW kind \in Kinds, NEW op \in Ops, NEW st,
           Serves(s, kind, op, st)
    PROVE  /\ session[s].stage = st /\ st \notin Absent
           /\ session[s].client \in Index
           /\ kind = "target" => session[s].target \in Index
           /\ errno = "error"
           /\ pos' \in Nat /\ UNCHANGED <<slave, phase, last, limit>>
<1>1. PICK f \in Index : /\ sel.fds[f].handler = kind /\ sel.fds[f].data = s
                         /\ Turn(f, op) /\ Advance(f, op)
    BY DEF Serves
<1>2. session \in SessionStates /\ session[s] \in SessionRecords
      /\ errno \in {"0", "error"} /\ StageOK(session[s]) /\ OwnedBy(sel.fds, session, s)
    BY DEF IInv, TypeOK, SessionStates, SessionRecords, Linked
<1>3. session[s].stage = st
    BY DEF Serves
<1>4. /\ kind = "client" => session[s].client = f
      /\ kind = "target" => session[s].target = f
    BY <1>1, <1>2 DEF OwnedBy
<1>5. NoFd \notin Index /\ f \in Nat
    BY LoopAssumption DEF NoFd, Index
<1>6. st \notin Absent /\ session[s].client \in Index
    BY <1>2, <1>3, <1>4, <1>5 DEF StageOK, Kinds, Absent, Coupled, SessionRecords
<1>7. errno # "0"
    <2> SUFFICES ASSUME errno = "0" PROVE FALSE
        OBVIOUS
    <2>1. /\ pos = 0 /\ sel.fds[server_fd].handler = "accept" /\ Due(server_fd, "R")
        BY <1>3, <1>6 DEF IInv, ErrnoOK
    <2>2. server_fd = 0 /\ server_fd \in Index /\ Place(server_fd, "R") = 0
        BY LoopAssumption DEF server_fd, Index, Place
    <2>3. <<server_fd, "R">> \in Ahead
        BY <2>1, <2>2 DEF Ahead, Ops
    <2>4. Place(f, op) <= Place(server_fd, "R")
        BY <1>1, <2>3 DEF Turn
    <2>5. f = 0
        BY <1>5, <2>2, <2>4 DEF Place
    <2> QED
        BY <1>1, <2>1, <2>2, <2>5 DEF Kinds
<1>8. pos' \in Nat
    <2>1. pos' = Place(f, op) + 1
        BY <1>1 DEF Advance
    <2> QED
        BY <1>5, <2>1 DEF Place
<1> QED
    BY <1>1, <1>2, <1>3, <1>4, <1>6, <1>7, <1>8 DEF Advance

\* A handler of session s that leaves table, descriptors and sessions linked
\* keeps the invariant.
LEMMA HandlerKeeps ==
    ASSUME IInv, NEW s \in Sessions, NEW kind \in Kinds, NEW op \in Ops, NEW st,
           Serves(s, kind, op, st),
           Linked(sel', open', session'), open' \subseteq 0 .. limit - 1,
           session' \in SessionStates, \A q \in Sessions : q # s => session'[q] = session[q],
           StageOK(session'[s]),
           conn' \in [Sessions -> {"none", "inprogress", "established", "refused"}],
           errno' = "error", backlog' = backlog
    PROVE  IInv'
<1>1. /\ session[s].stage # "QUEUED" /\ pos' \in Nat
      /\ UNCHANGED <<slave, phase, last, limit>>
    BY ServesFacts DEF Absent
<1>2. TypeOK'
    <2>1. sel' \in Tables
        BY DEF Linked, TableOK
    <2> QED
        BY <1>1, <2>1 DEF IInv, TypeOK, Tables, SessionStates, SessionRecords
<1>3. BacklogOK'
    <2>1. \A i \in 1 .. Len(backlog) : backlog[i] \in Sessions
        BY DEF IInv, TypeOK
    <2> QED
        BY <1>1, <2>1 DEF IInv, BacklogOK
<1>4. ErrnoOK'
    BY DEF ErrnoOK
<1>5. \A q \in Sessions : StageOK(session'[q])
    BY DEF IInv
<1> QED
    BY <1>2, <1>3, <1>4, <1>5 DEF IInv

\* What a handler of s leaves behind, besides errno and its turn.
Settled(s) ==
    /\ Linked(sel', open', session')
    /\ open' \subseteq 0 .. limit - 1
    /\ session' \in SessionStates
    /\ \A q \in Sessions : q # s => session'[q] = session[q]
    /\ StageOK(session'[s])
    /\ conn' \in [Sessions -> {"none", "inprogress", "established", "refused"}]

\* client_close unregisters the target, if there is one, and then the client.
LEMMA CloseSettles ==
    ASSUME IInv, NEW s \in Sessions, session[s].client \in Index, client_close(s)
    PROVE  Settled(s)
<1> DEFINE r == [NewSession EXCEPT !.stage = "FREED"]
           half == [session EXCEPT ![s].target = NoFd]
<1>1. session \in SessionStates /\ session[s] \in SessionRecords
    BY DEF IInv, TypeOK, SessionStates, SessionRecords
<1>2. /\ r \in SessionRecords /\ StageOK(r)
      /\ r.client = NoFd /\ r.target = NoFd /\ NoFd \notin Index
    <2>1. /\ NewSession \in SessionRecords
          /\ NewSession.client = NoFd /\ NewSession.target = NoFd /\ NewSession.reply = "none"
        BY DEF NewSession, SessionRecords, Stages
    <2>2. /\ r \in SessionRecords /\ r.stage = "FREED"
          /\ r.client = NoFd /\ r.target = NoFd /\ r.reply = "none"
        BY <2>1 DEF SessionRecords, Stages
    <2> HIDE DEF r
    <2> QED
        BY <2>2 DEF StageOK, Absent, Coupled, NoFd, Index
<1>3. session' = [session EXCEPT ![s] = r]
    BY DEF client_close
<1> HIDE DEF r
<1>4. /\ session' \in SessionStates /\ session'[s] = r
      /\ \A q \in Sessions : q # s => session'[q] = session[q]
    BY <1>1, <1>2, <1>3 DEF SessionStates
<1>5. Relinked(session, half, s, session[s].client, NoFd)
    BY <1>1 DEF Relinked, SessionStates, SessionRecords
<1>6. half \in SessionStates /\ half[s].client = session[s].client /\ half[s].target = NoFd
      /\ \A q \in Sessions : q # s => half[q] = session[q]
    BY <1>5 DEF Relinked
<1> HIDE DEF half
<1> DEFINE u == WithoutTarget(s)
           o == IF session[s].target = NoFd THEN open ELSE open \ {session[s].target}
<1>7. Linked(u, o, half)
    <2>1. Linked(sel, open, session)
        BY DEF IInv
    <2>2. CASE session[s].target = NoFd
        <3>1. Linked(sel, open, half)
            BY <1>1, <1>5, <2>1, <2>2, LinkSame
        <3> QED
            BY <2>2, <3>1 DEF WithoutTarget
    <2>3. CASE session[s].target # NoFd
        <3>1. session[s].target \in Index
            BY <1>1, <2>3 DEF SessionRecords
        <3>2. Linked(selector_unregister_fd(sel, session[s].target), open \ {session[s].target}, half)
            BY <1>1, <1>5, <2>1, <3>1, LinkUnregister DEF Kinds
        <3> QED
            BY <2>3, <3>2 DEF WithoutTarget
    <2> QED
        BY <2>2, <2>3
<1>8. sel' = selector_unregister_fd(u, session[s].client)
    BY DEF client_close
<1> HIDE DEF u
<1>9. Relinked(half, session', s, NoFd, half[s].target)
    BY <1>2, <1>4, <1>6 DEF Relinked
<1>10. Linked(sel', o \ {session[s].client}, session')
    <2>1. half[s].client = session[s].client
        BY <1>6
    <2> QED
        BY <1>6, <1>7, <1>8, <1>9, <2>1, LinkUnregister DEF Kinds
<1>11. open \subseteq Nat /\ open \subseteq 0 .. limit - 1
    BY DEF IInv, TypeOK
<1>12. open' = o \ {session[s].client}
    <2>1. NoFd \notin open
        BY <1>11 DEF NoFd
    <2>2. open' = open \ {session[s].client, session[s].target}
        BY DEF client_close
    <2> QED
        BY <2>1, <2>2
<1>13. conn' \in [Sessions -> {"none", "inprogress", "established", "refused"}]
    BY DEF IInv, TypeOK, client_close
<1>14. open' \subseteq 0 .. limit - 1
    BY <1>11, <1>12
<1>15. Linked(sel', open', session')
    BY <1>10, <1>12
<1> QED
    BY <1>2, <1>4, <1>13, <1>14, <1>15 DEF Settled

\* Refuse answers with a failure, whatever is left of the attempt: half is the
\* session without its target, t and o the table and descriptors without it.
LEMMA RefuseSettles ==
    ASSUME IInv, NEW s \in Sessions, session[s].client \in Index,
           NEW t, NEW o, NEW half, Linked(t, o, half), o \subseteq 0 .. limit - 1,
           Relinked(session, half, s, session[s].client, NoFd),
           Refuse(s, t, o, "error")
    PROVE  Settled(s)
<1>1. session \in SessionStates /\ session[s] \in SessionRecords /\ half \in SessionStates
    BY DEF IInv, TypeOK, SessionStates, SessionRecords, Relinked
<1>2. /\ session' = [session EXCEPT ![s].stage = "CLOSING", ![s].target = NoFd,
                                    ![s].reply = "FAILURE"]
      /\ sel' = selector_set_interest(t, session[s].client, {"W"})
      /\ open' = o /\ conn' = [conn EXCEPT ![s] = "none"]
    BY DEF Refuse
<1>3. /\ session' \in SessionStates
      /\ \A q \in Sessions : q # s => session'[q] = session[q]
      /\ session'[s].client = session[s].client /\ session'[s].target = NoFd
      /\ session'[s].stage = "CLOSING" /\ session'[s].reply = "FAILURE"
    BY <1>1, <1>2 DEF SessionStates, SessionRecords, Stages
<1>4. StageOK(session'[s])
    <2>1. session[s].client # NoFd
        BY DEF NoFd, Index
    <2> QED
        BY <1>3, <2>1 DEF StageOK, Absent, Coupled
<1>5. Relinked(half, session', s, half[s].client, half[s].target)
    BY <1>3 DEF Relinked
<1>6. Linked(t, o, session')
    BY <1>1, <1>5, LinkSame
<1>7. {"W"} \in SUBSET Ops
    BY DEF Ops
<1>8. Linked(sel', open', session')
    BY <1>2, <1>6, <1>7, LinkInterest
<1>9. conn' \in [Sessions -> {"none", "inprogress", "established", "refused"}]
    BY <1>2 DEF IInv, TypeOK
<1> QED
    BY <1>2, <1>3, <1>4, <1>8, <1>9 DEF Settled

\* A failed attempt leaves no descriptor behind.
LEMMA FailedLeaveNone ==
    ASSUME NEW o
    PROVE  /\ \A q \in AfterFailed(o) : q = o
           /\ \A f \in Free(o) : ClosedByHand(o \cup {f}, f) = o
<1>1. ASSUME NEW f \in Free(o)
      PROVE  ClosedByHand(o \cup {f}, f) = o
    <2>1. f \notin o
        BY <1>1 DEF Free
    <2> QED
        BY <2>1 DEF ClosedByHand
<1> QED
    BY <1>1 DEF AfterFailed

\* start_target_connection registers a descriptor or refuses, and errno is set.
LEMMA StartSettles ==
    ASSUME IInv, errno = "error", NEW s \in Sessions, session[s].client \in Index,
           NEW t, NEW o, NEW half, Linked(t, o, half), o \subseteq 0 .. limit - 1,
           Relinked(session, half, s, session[s].client, NoFd),
           session[s].reply # "SUCCESS",
           StartConnection(s, t, o)
    PROVE  Settled(s) /\ errno' = "error"
<1>1. CASE errno' = "error" /\ Refuse(s, t, o, "error")
    BY <1>1, RefuseSettles
<1>2. ASSUME Free(o) # {}, NEW c \in {"inprogress", "established"},
             errno' = IF c = "inprogress" THEN "error" ELSE errno,
             NEW f, f = Lowest(o),
             ~CanRegister(t, f),
             Refuse(s, t, ClosedByHand(o \cup {f}, f), RegisterError(errno'))
      PROVE  Settled(s) /\ errno' = "error"
    <2>1. errno' = "error"
        BY <1>2
    <2>2. ClosedByHand(o \cup {f}, f) = o
        <3>1. limit \in Nat
            BY LoopAssumption DEF IInv, TypeOK
        <3>2. f \in Free(o)
            BY <1>2, <3>1, LowestIsFree
        <3> QED
            BY <3>2, FailedLeaveNone
    <2>3. Refuse(s, t, o, "error")
        BY <1>2, <2>1, <2>2 DEF RegisterError
    <2> QED
        BY <2>1, <2>3, RefuseSettles
<1>3. ASSUME Free(o) # {}, NEW c \in {"inprogress", "established"},
             errno' = IF c = "inprogress" THEN "error" ELSE errno,
             NEW f, f = Lowest(o), CanRegister(t, f),
             sel' = selector_set_interest(
                      selector_register(t, f, [handler |-> "target",
                          interest |-> {"W"}, data |-> s]), session[s].client, {}),
             open' = o \cup {f},
             conn' = [conn EXCEPT ![s] = c],
             session' = [session EXCEPT ![s].stage = "CONNECTING", ![s].target = f]
      PROVE  Settled(s) /\ errno' = "error"
    <2>1. session \in SessionStates /\ session[s] \in SessionRecords /\ half \in SessionStates
        BY DEF IInv, TypeOK, SessionStates, SessionRecords, Relinked
    <2>2. limit \in Nat /\ FD_SETSIZE \in Nat
        BY LoopAssumption DEF IInv, TypeOK
    <2>3. f \in 0 .. limit - 1 /\ f \in Index
        BY <1>3, <2>2, LowestIsFree DEF Free, CanRegister, Index
    <2>4. /\ session' \in SessionStates
          /\ \A q \in Sessions : q # s => session'[q] = session[q]
          /\ session'[s].client = session[s].client /\ session'[s].target = f
          /\ session'[s].stage = "CONNECTING" /\ session'[s].reply = session[s].reply
        BY <1>3, <2>1, <2>3 DEF SessionStates, SessionRecords, Stages
    <2>5. StageOK(session'[s])
        <3>1. session[s].client # NoFd /\ f # NoFd
            BY <2>3 DEF NoFd, Index
        <3> QED
            BY <2>4, <3>1 DEF StageOK, Absent, Coupled
    <2>6. half[s].target = NoFd /\ Relinked(half, session', s, half[s].client, f)
        BY <2>4 DEF Relinked
    <2>7. {"W"} \in SUBSET Ops /\ {} \in SUBSET Ops /\ "target" \in Kinds
        BY DEF Ops, Kinds
    <2>8. Linked(selector_register(t, f, [handler |-> "target", interest |-> {"W"}, data |-> s]),
                 open', session')
        BY <1>3, <2>1, <2>3, <2>6, <2>7, LinkRegister
    <2>9. Linked(sel', open', session')
        BY <1>3, <2>7, <2>8, LinkInterest
    <2>10. conn' \in [Sessions -> {"none", "inprogress", "established", "refused"}]
        BY <1>3 DEF IInv, TypeOK
    <2> QED
        BY <1>3, <2>3, <2>4, <2>5, <2>9, <2>10 DEF Settled
<1>4. PICK q \in AfterFailed(o) :
        \/ errno' = "error" /\ Refuse(s, t, q, "error")
        \/ /\ Free(q) # {}
           /\ LET f == Lowest(q) IN
              \E c \in {"inprogress", "established"} :
                /\ errno' = IF c = "inprogress" THEN "error" ELSE errno
                /\ IF CanRegister(t, f)
                   THEN /\ sel' = selector_set_interest(
                                    selector_register(t, f, [handler |-> "target",
                                        interest |-> {"W"}, data |-> s]),
                                    session[s].client, {})
                        /\ open' = q \cup {f}
                        /\ conn' = [conn EXCEPT ![s] = c]
                        /\ session' = [session EXCEPT ![s].stage = "CONNECTING", ![s].target = f]
                   ELSE Refuse(s, t, ClosedByHand(q \cup {f}, f), RegisterError(errno'))
    BY DEF StartConnection
<1>5. q = o
    BY FailedLeaveNone
<1> QED
    BY <1>1, <1>2, <1>3, <1>4, <1>5

\* A handler that has settled, with errno set, keeps the invariant.
LEMMA SettledKeeps ==
    ASSUME IInv, NEW s \in Sessions, NEW kind \in Kinds, NEW op \in Ops, NEW st,
           Serves(s, kind, op, st), Settled(s), errno' = "error", backlog' = backlog
    PROVE  IInv'
BY HandlerKeeps DEF Settled

\* Nothing but interests changed.
LEMMA InterestsSettle ==
    ASSUME IInv, NEW s \in Sessions, Linked(sel', open, session), UNCHANGED <<open, conn>>,
           session' \in SessionStates, \A q \in Sessions : q # s => session'[q] = session[q],
           StageOK(session'[s]),
           session'[s].client = session[s].client, session'[s].target = session[s].target
    PROVE  Settled(s)
<1>1. session \in SessionStates
    BY DEF IInv, TypeOK, SessionStates, SessionRecords
<1>2. Relinked(session, session', s, session[s].client, session[s].target)
    BY DEF Relinked
<1>3. Linked(sel', open', session')
    BY <1>1, <1>2, LinkSame
<1> QED
    BY <1>3 DEF Settled, IInv, TypeOK

\* A request is read: a connection is started, or the request refused.
LEMMA ReadsRequestKeeps ==
    ASSUME IInv, NEW s \in Sessions, ReadsRequest(s)
    PROVE  IInv'
<1>1. Serves(s, "client", "R", "REQUEST") /\ backlog' = backlog
      /\ "client" \in Kinds /\ "R" \in Ops
    BY DEF ReadsRequest, Kinds, Ops
<1>2. /\ session[s].stage = "REQUEST" /\ session[s].client \in Index /\ errno = "error"
    BY <1>1, ServesFacts
<1>3. session \in SessionStates /\ session[s] \in SessionRecords /\ StageOK(session[s])
      /\ Linked(sel, open, session) /\ open \subseteq 0 .. limit - 1
    BY DEF IInv, TypeOK, SessionStates, SessionRecords
<1>4. session[s].target = NoFd /\ session[s].reply # "SUCCESS"
    BY <1>2, <1>3 DEF StageOK, Coupled
<1>5. Relinked(session, session, s, session[s].client, NoFd)
    BY <1>3, <1>4 DEF Relinked
<1>6. CASE UNCHANGED <<sel, open, session, conn, errno>>
    <2>1. Settled(s)
        BY <1>3, <1>6 DEF Settled, IInv, TypeOK
    <2> QED
        BY <1>1, <1>2, <1>6, <2>1, SettledKeeps
<1>7. CASE client_close(s) /\ UNCHANGED errno
    BY <1>1, <1>2, <1>7, CloseSettles, SettledKeeps
<1>8. CASE Refuse(s, sel, open, "error") /\ UNCHANGED errno
    <2>1. Settled(s)
        BY <1>2, <1>3, <1>5, <1>8, RefuseSettles
    <2> QED
        BY <1>1, <1>2, <1>8, <2>1, SettledKeeps
<1>9. CASE StartConnection(s, sel, open)
    <2>1. Settled(s) /\ errno' = "error"
        BY <1>2, <1>3, <1>4, <1>5, <1>9, StartSettles
    <2> QED
        BY <1>1, <2>1, SettledKeeps
<1> QED
    BY <1>6, <1>7, <1>8, <1>9 DEF ReadsRequest

\* The connection succeeds, is replaced by the next one, or is given up.
LEMMA ConnectionReadyKeeps ==
    ASSUME IInv, NEW s \in Sessions, ConnectionReady(s)
    PROVE  IInv'
<1>1. Serves(s, "target", "W", "CONNECTING") /\ backlog' = backlog
      /\ "target" \in Kinds /\ "W" \in Ops
    BY DEF ConnectionReady, Kinds, Ops
<1>2. /\ session[s].stage = "CONNECTING" /\ errno = "error"
      /\ session[s].client \in Index /\ session[s].target \in Index
    BY <1>1, ServesFacts
<1>3. session \in SessionStates /\ session[s] \in SessionRecords /\ StageOK(session[s])
      /\ Linked(sel, open, session) /\ open \subseteq 0 .. limit - 1
    BY DEF IInv, TypeOK, SessionStates, SessionRecords
<1>4. CASE conn[s] = "refused"
    <2> DEFINE half == [session EXCEPT ![s].target = NoFd]
               t == selector_unregister_fd(sel, session[s].target)
               o == open \ {session[s].target}
    <2>1. Relinked(session, half, s, session[s].client, NoFd)
        BY <1>3 DEF Relinked, SessionStates, SessionRecords
    <2> HIDE DEF half
    <2>2. Linked(t, o, half)
        BY <1>2, <1>3, <2>1, LinkUnregister DEF Kinds
    <2>3. StartConnection(s, t, o)
        BY <1>4 DEF ConnectionReady
    <2>4. session[s].reply # "SUCCESS" /\ o \subseteq 0 .. limit - 1
        BY <1>2, <1>3 DEF StageOK
    <2> HIDE DEF t, o
    <2>5. Settled(s) /\ errno' = "error"
        BY <1>2, <2>1, <2>2, <2>3, <2>4, StartSettles
    <2> QED
        BY <1>1, <2>5, SettledKeeps
<1>5. CASE conn[s] # "refused"
    <2> DEFINE u == selector_set_interest(sel, session[s].target, {})
    <2>1. /\ sel' = selector_set_interest(u, session[s].client, {"W"})
          /\ session' = [session EXCEPT ![s].stage = "ANSWERED", ![s].reply = "SUCCESS"]
          /\ UNCHANGED <<open, conn, errno>>
        BY <1>5 DEF ConnectionReady
    <2>2. {"W"} \in SUBSET Ops /\ {} \in SUBSET Ops
        BY DEF Ops
    <2>3. Linked(u, open, session)
        BY <1>2, <1>3, <2>2, LinkInterest
    <2> HIDE DEF u
    <2>4. Linked(sel', open, session)
        BY <1>2, <2>1, <2>2, <2>3, LinkInterest
    <2>5. /\ session' \in SessionStates
          /\ \A q \in Sessions : q # s => session'[q] = session[q]
          /\ session'[s].client = session[s].client /\ session'[s].target = session[s].target
          /\ session'[s].stage = "ANSWERED"
        BY <1>3, <2>1 DEF SessionStates, SessionRecords, Stages
    <2>6. StageOK(session'[s])
        BY <1>2, <1>3, <2>5 DEF StageOK, Absent, Coupled
    <2>7. Settled(s)
        BY <2>1, <2>4, <2>5, <2>6, InterestsSettle
    <2> QED
        BY <1>1, <1>2, <2>1, <2>7, SettledKeeps
<1> QED
    BY <1>4, <1>5

\* client_session_update_relay_interests only changes interests.
LEMMA RelayInterestsLink ==
    ASSUME IInv, NEW s \in Sessions, NEW c2t, NEW t2c,
           session[s].client \in Index, session[s].target \in Index,
           RelayInterests(s, c2t, t2c)
    PROVE  Linked(sel', open, session)
<1> DEFINE ops1 == (IF c2t THEN {} ELSE {"R"}) \cup (IF t2c THEN {"W"} ELSE {})
           ops2 == (IF t2c THEN {} ELSE {"R"}) \cup (IF c2t THEN {"W"} ELSE {})
           u == selector_set_interest(sel, session[s].client, ops1)
<1>1. ops1 \in SUBSET Ops /\ ops2 \in SUBSET Ops
    BY DEF Ops
<1>2. sel' = selector_set_interest(u, session[s].target, ops2)
    BY DEF RelayInterests
<1> HIDE DEF ops1, ops2
<1>3. Linked(u, open, session)
    BY <1>1, LinkInterest DEF IInv
<1> HIDE DEF u
<1> QED
    BY <1>1, <1>2, <1>3, LinkInterest

\* The reply is sent, and the session relays or closes.
LEMMA SendsReplyKeeps ==
    ASSUME IInv, NEW s \in Sessions, NEW st \in {"ANSWERED", "CLOSING"}, SendsReply(s, st)
    PROVE  IInv'
<1>1. Serves(s, "client", "W", st) /\ backlog' = backlog
      /\ "client" \in Kinds /\ "W" \in Ops
    BY DEF SendsReply, Kinds, Ops
<1>2. session[s].stage = st /\ session[s].client \in Index /\ errno = "error"
    BY <1>1, ServesFacts
<1>3. session \in SessionStates /\ session[s] \in SessionRecords /\ StageOK(session[s])
      /\ Linked(sel, open, session) /\ open \subseteq 0 .. limit - 1
    BY DEF IInv, TypeOK, SessionStates, SessionRecords
<1>4. CASE errno' = "error" /\ UNCHANGED <<sel, open, session, conn>>
    <2>1. Settled(s)
        BY <1>3, <1>4 DEF Settled, IInv, TypeOK
    <2> QED
        BY <1>1, <1>4, <2>1, SettledKeeps
<1>5. CASE client_close(s) /\ UNCHANGED errno
    BY <1>1, <1>2, <1>5, CloseSettles, SettledKeeps
<1>6. CASE /\ st = "ANSWERED" /\ RelayInterests(s, FALSE, FALSE)
           /\ session' = [session EXCEPT ![s].stage = "RELAY"]
           /\ UNCHANGED <<open, conn, errno>>
    <2>1. session[s].target \in Index
        BY <1>2, <1>3, <1>6 DEF StageOK, Coupled, SessionRecords
    <2>2. Linked(sel', open, session)
        BY <1>2, <1>6, <2>1, RelayInterestsLink
    <2>3. /\ session' \in SessionStates
          /\ \A q \in Sessions : q # s => session'[q] = session[q]
          /\ session'[s].client = session[s].client /\ session'[s].target = session[s].target
          /\ session'[s].stage = "RELAY"
        BY <1>3, <1>6 DEF SessionStates, SessionRecords, Stages
    <2>4. StageOK(session'[s])
        BY <1>2, <1>3, <1>6, <2>3 DEF StageOK, Absent, Coupled
    <2>5. Settled(s)
        BY <1>6, <2>2, <2>3, <2>4, InterestsSettle
    <2> QED
        BY <1>1, <1>2, <1>6, <2>5, SettledKeeps
<1> QED
    BY <1>4, <1>5, <1>6 DEF SendsReply

\* A handler of a relaying session changes interests or closes it.
LEMMA RelaysKeeps ==
    ASSUME IInv, NEW s \in Sessions, NEW kind \in Kinds, NEW op \in Ops, Relays(s, kind, op)
    PROVE  IInv'
<1>1. Serves(s, kind, op, "RELAY") /\ backlog' = backlog /\ errno' = errno
    BY DEF Relays
<1>2. session[s].stage = "RELAY" /\ session[s].client \in Index /\ errno = "error"
    BY <1>1, ServesFacts
<1>3. session \in SessionStates /\ session[s] \in SessionRecords /\ StageOK(session[s])
    BY DEF IInv, TypeOK, SessionStates, SessionRecords
<1>4. CASE client_close(s)
    BY <1>1, <1>2, <1>4, CloseSettles, SettledKeeps
<1>5. ASSUME NEW c2t \in BOOLEAN, NEW t2c \in BOOLEAN,
             RelayInterests(s, c2t, t2c),
             session' = [session EXCEPT ![s].c2t = c2t, ![s].t2c = t2c],
             UNCHANGED <<open, conn>>
      PROVE  IInv'
    <2>1. session[s].target \in Index
        BY <1>2, <1>3 DEF StageOK, Coupled, SessionRecords
    <2>2. Linked(sel', open, session)
        BY <1>2, <1>5, <2>1, RelayInterestsLink
    <2>3. /\ session' \in SessionStates
          /\ \A q \in Sessions : q # s => session'[q] = session[q]
          /\ session'[s].client = session[s].client /\ session'[s].target = session[s].target
          /\ session'[s].stage = "RELAY"
        BY <1>2, <1>3, <1>5 DEF SessionStates, SessionRecords
    <2>4. StageOK(session'[s])
        BY <1>2, <1>3, <2>3 DEF StageOK, Absent, Coupled
    <2>5. Settled(s)
        BY <1>5, <2>2, <2>3, <2>4, InterestsSettle
    <2> QED
        BY <1>1, <1>2, <2>5, SettledKeeps
<1>6. ASSUME NEW waits \in BOOLEAN,
             LET upstream == <<kind, op>> \in {<<"client", "R">>, <<"target", "W">>}
                 c2t == IF upstream THEN waits ELSE session[s].c2t
                 t2c == IF upstream THEN session[s].t2c ELSE waits
             IN  /\ RelayInterests(s, c2t, t2c)
                 /\ session' = [session EXCEPT ![s].c2t = c2t, ![s].t2c = t2c]
                 /\ UNCHANGED <<open, conn>>
      PROVE  IInv'
    <2>1. session[s].c2t \in BOOLEAN /\ session[s].t2c \in BOOLEAN
        BY <1>3 DEF SessionRecords
    <2>2. CASE <<kind, op>> \in {<<"client", "R">>, <<"target", "W">>}
        BY <1>5, <1>6, <2>1, <2>2
    <2>3. CASE <<kind, op>> \notin {<<"client", "R">>, <<"target", "W">>}
        BY <1>5, <1>6, <2>1, <2>3
    <2> QED
        BY <2>2, <2>3
<1> QED
    BY <1>4, <1>6 DEF Relays

-----------------------------------------------------------------------------
(* The other steps *)

\* Accepting a connection takes the head of the backlog.
LEMMA AcceptKeeps ==
    ASSUME IInv, NEW s \in Sessions, Accept(s)
    PROVE  IInv'
<1>1. /\ Accepting /\ backlog # <<>> /\ s = Head(backlog) /\ Free(open) # {}
      /\ backlog' = Tail(backlog)
      /\ UNCHANGED <<slave, phase, last, pos, limit, conn, errno>>
    BY DEF Accept
<1>2. session \in SessionStates /\ session[s] \in SessionRecords /\ StageOK(session[s])
      /\ Linked(sel, open, session) /\ open \subseteq 0 .. limit - 1
      /\ backlog \in Seq(Sessions) /\ sel \in Tables /\ limit \in Nat /\ FD_SETSIZE \in Nat
    BY LoopAssumption DEF IInv, TypeOK, SessionStates, SessionRecords, Tables
<1>3. s = backlog[1] /\ 1 \in 1 .. Len(backlog)
    BY <1>1, <1>2
<1>4. session[s].stage = "QUEUED"
    BY <1>3 DEF IInv, BacklogOK
<1>5. session[s].client = NoFd /\ session[s].target = NoFd /\ session[s].reply # "SUCCESS"
    BY <1>2, <1>4 DEF StageOK, Absent, Coupled
<1>6. /\ backlog' \in Seq(Sessions) /\ Len(backlog') = Len(backlog) - 1
      /\ \A i \in 1 .. Len(backlog') : i + 1 \in 1 .. Len(backlog) /\ backlog'[i] = backlog[i + 1]
    BY <1>1, <1>2
<1>7. \A i \in 1 .. Len(backlog') :
        backlog'[i] # s /\ backlog'[i] \in Sessions /\ session[backlog'[i]].stage = "QUEUED"
    <2> SUFFICES ASSUME NEW i \in 1 .. Len(backlog')
                 PROVE  backlog'[i] # s /\ backlog'[i] \in Sessions
                        /\ session[backlog'[i]].stage = "QUEUED"
        OBVIOUS
    <2>1. i + 1 \in 1 .. Len(backlog) /\ backlog'[i] = backlog[i + 1] /\ i + 1 # 1
        BY <1>6
    <2> QED
        BY <1>2, <1>3, <2>1 DEF IInv, BacklogOK
<1>8. \A i, j \in 1 .. Len(backlog') : backlog'[i] = backlog'[j] => i = j
    <2> SUFFICES ASSUME NEW i \in 1 .. Len(backlog'), NEW j \in 1 .. Len(backlog'),
                        backlog'[i] = backlog'[j]
                 PROVE  i = j
        OBVIOUS
    <2>1. /\ i + 1 \in 1 .. Len(backlog) /\ j + 1 \in 1 .. Len(backlog)
          /\ backlog[i + 1] = backlog[j + 1]
        BY <1>6
    <2>2. i + 1 = j + 1
        BY <2>1 DEF IInv, BacklogOK
    <2> QED
        BY <2>2
<1>9. ASSUME session' \in SessionStates, \A q \in Sessions : q # s => session'[q] = session[q]
      PROVE  BacklogOK'
    BY <1>7, <1>8, <1>9 DEF BacklogOK
<1>10. server_fd = 0 /\ server_fd \in Index /\ pos = 0 /\ phase = "dispatch"
       /\ sel.fds[server_fd].handler = "accept" /\ Due(server_fd, "R")
    <2>1. server_fd = 0 /\ server_fd \in Index /\ Place(server_fd, "R") = 0 /\ pos \in Nat
        BY <1>2 DEF server_fd, Index, Place, IInv, TypeOK
    <2> QED
        BY <1>1, <2>1 DEF Accepting, Turn
<1>11. ASSUME sel'.fds[server_fd] = sel.fds[server_fd]
       PROVE  ErrnoOK'
    BY <1>1, <1>10, <1>11 DEF ErrnoOK, Due
<1>12. CASE /\ session' = [session EXCEPT ![s].stage = "FREED"]
            /\ UNCHANGED <<sel, open>>
    <2>1. /\ session' \in SessionStates
          /\ \A q \in Sessions : q # s => session'[q] = session[q]
          /\ session'[s].client = session[s].client /\ session'[s].target = session[s].target
          /\ session'[s].stage = "FREED" /\ session'[s].reply = session[s].reply
        BY <1>2, <1>12 DEF SessionStates, SessionRecords, Stages
    <2>2. Relinked(session, session', s, session[s].client, session[s].target)
        BY <2>1 DEF Relinked
    <2>3. Linked(sel', open', session')
        BY <1>2, <1>12, <2>2, LinkSame
    <2>4. \A q \in Sessions : StageOK(session'[q])
        <3>1. StageOK(session'[s])
            BY <1>5, <2>1 DEF StageOK, Absent, Coupled
        <3> QED
            BY <2>1, <3>1 DEF IInv
    <2>5. TypeOK'
        BY <1>1, <1>6, <1>12, <2>1 DEF IInv, TypeOK, SessionStates, SessionRecords
    <2> QED
        BY <1>9, <1>11, <1>12, <2>1, <2>3, <2>4, <2>5 DEF IInv
<1>13. ASSUME NEW f, f = Lowest(open), CanRegister(sel, f),
              sel' = selector_register(sel, f,
                       [handler |-> "client", interest |-> {"R"}, data |-> s]),
              open' = open \cup {f},
              session' = [session EXCEPT ![s].stage = "REQUEST", ![s].client = f]
       PROVE  IInv'
    <2>1. f \in 0 .. limit - 1 /\ f \notin open /\ f \in Index
        BY <1>1, <1>2, <1>13, LowestIsFree DEF Free, CanRegister, Index
    <2>2. /\ session' \in SessionStates
          /\ \A q \in Sessions : q # s => session'[q] = session[q]
          /\ session'[s].client = f /\ session'[s].target = session[s].target
          /\ session'[s].stage = "REQUEST" /\ session'[s].reply = session[s].reply
        BY <1>2, <1>13, <2>1 DEF SessionStates, SessionRecords, Stages
    <2>3. Relinked(session, session', s, f, session[s].target)
        BY <2>2 DEF Relinked
    <2>4. {"R"} \in SUBSET Ops /\ "client" \in Kinds
        BY DEF Ops, Kinds
    <2>5. Linked(sel', open', session')
        BY <1>2, <1>5, <1>13, <2>1, <2>3, <2>4, LinkRegister
    <2>6. \A q \in Sessions : StageOK(session'[q])
        <3>1. f # NoFd
            BY <2>1 DEF NoFd, Index
        <3>2. StageOK(session'[s])
            BY <1>5, <2>2, <3>1 DEF StageOK, Absent, Coupled
        <3> QED
            BY <2>2, <3>2 DEF IInv
    <2>7. sel' \in Tables
        BY <2>5 DEF Linked, TableOK
    <2>8. TypeOK'
        BY <1>1, <1>2, <1>6, <1>13, <2>1, <2>2, <2>7
        DEF IInv, TypeOK, SessionStates, SessionRecords, Tables
    <2>9. sel'.fds[server_fd] = sel.fds[server_fd]
        <3>1. server_fd # f
            BY <1>10, <1>13 DEF CanRegister
        <3>2. [handler |-> "client", interest |-> {"R"}, data |-> s] \in Item
            BY DEF Item, Ops
        <3>3. TableOK(sel)
            BY <1>2 DEF Linked
        <3>4. sel'.fds = [sel.fds EXCEPT ![f] = [handler |-> "client", interest |-> {"R"}, data |-> s]]
            BY <1>13, <2>1, <3>2, <3>3, RegisterKeeps
        <3> QED
            BY <1>2, <1>10, <3>1, <3>4 DEF Tables
    <2> QED
        BY <1>9, <1>11, <2>2, <2>5, <2>6, <2>8, <2>9 DEF IInv
<1> QED
    BY <1>12, <1>13 DEF Accept

\* Without a new connection, accept_connection ends and errno is set.
LEMMA AcceptFailsKeeps ==
    ASSUME IInv, AcceptFails
    PROVE  IInv'
<1>1. /\ errno' = "error" /\ sel' = sel
      /\ UNCHANGED <<open, session, conn, backlog, slave, phase, last, limit>>
      /\ pos' = Place(server_fd, "R") + 1
    BY DEF AcceptFails, Advance, ListeningAfter
<1>2. pos' \in Nat
    BY <1>1 DEF Place, server_fd
<1>3. TypeOK' /\ BacklogOK' /\ ErrnoOK'
    BY <1>1, <1>2 DEF IInv, TypeOK, BacklogOK, ErrnoOK
<1> QED
    BY <1>1, <1>3 DEF IInv

\* The loop itself touches no session.
LEMMA LoopKeeps ==
    ASSUME IInv, Pselect \/ IterationEnds \/ Interrupted
    PROVE  IInv'
<1>1. UNCHANGED <<sel, limit, open, session, conn, backlog>>
    BY DEF Pselect, IterationEnds, Interrupted
<1>2. CASE Pselect
    <2>1. PICK r \in ReadySets(sel.master_r), w \in ReadySets(sel.master_w) :
             slave' = [r |-> r, w |-> w]
        BY <1>2 DEF Pselect
    <2>2. r \subseteq sel.master_r /\ w \subseteq sel.master_w
        BY DEF ReadySets
    <2>3. TypeOK'
        BY <1>1, <1>2, <2>1, <2>2 DEF Pselect, IInv, TypeOK, LastOfIteration
    <2>4. ErrnoOK'
        BY <1>1, <1>2 DEF Pselect, IInv, ErrnoOK
    <2> QED
        BY <1>1, <2>3, <2>4 DEF IInv, BacklogOK
<1>3. CASE IterationEnds
    <2>1. TypeOK'
        BY <1>1, <1>3, LoopAssumption DEF IterationEnds, IInv, TypeOK, Index
    <2>2. ErrnoOK'
        <3>1. ~ (errno = "0" /\ \E s \in Sessions : session[s].stage \notin Absent)
            <4> SUFFICES ASSUME errno = "0" /\ \E s \in Sessions : session[s].stage \notin Absent
                         PROVE  FALSE
                OBVIOUS
            <4>1. pos = 0 /\ Due(server_fd, "R")
                BY DEF IInv, ErrnoOK
            <4>2. server_fd \in Index /\ Place(server_fd, "R") = 0
                BY LoopAssumption DEF server_fd, Index, Place
            <4>3. <<server_fd, "R">> \in Ahead
                BY <4>1, <4>2 DEF Ahead, Ops
            <4> QED
                BY <1>3, <4>3 DEF IterationEnds
        <3> QED
            BY <1>1, <1>3, <3>1 DEF IterationEnds, ErrnoOK
    <2> QED
        BY <1>1, <2>1, <2>2 DEF IInv, BacklogOK
<1>4. CASE Interrupted
    <2>1. TypeOK' /\ ErrnoOK'
        BY <1>1, <1>4 DEF Interrupted, IInv, TypeOK, ErrnoOK
    <2> QED
        BY <1>1, <2>1 DEF IInv, BacklogOK
<1> QED
    BY <1>2, <1>3, <1>4

\* The listening socket belongs to no session.
LEMMA StopAcceptingKeeps ==
    ASSUME IInv, StopAccepting
    PROVE  IInv'
<1> DEFINE u == selector_unregister_fd(sel, server_fd)
<1>1. /\ phase = "select" /\ sel.fds[server_fd].handler = "accept"
      /\ sel' = u /\ open' = open \ {server_fd} /\ backlog' = <<>>
      /\ session' = [s \in Sessions |-> IF session[s].stage = "QUEUED"
                                        THEN [session[s] EXCEPT !.stage = "FREED"]
                                        ELSE session[s]]
      /\ UNCHANGED <<slave, phase, last, pos, limit, conn, errno>>
    BY DEF StopAccepting
<1>2. session \in SessionStates /\ Linked(sel, open, session) /\ TableOK(sel)
      /\ sel.fds \in [Index -> Item] /\ server_fd \in Index
    BY LoopAssumption
    DEF IInv, TypeOK, SessionStates, SessionRecords, Linked, server_fd, Index
<1>3. server_fd \in Used(sel)
    BY <1>1, <1>2 DEF Used
<1>4. TableOK(u) /\ Used(u) = Used(sel) \ {server_fd} /\ u.fds = [sel.fds EXCEPT ![server_fd] = Unused]
    BY <1>2, <1>3, UnregisterKeeps
<1> HIDE DEF u
<1>5. /\ u.fds[server_fd].handler = "none"
      /\ \A g \in Index : g # server_fd => u.fds[g] = sel.fds[g]
    BY <1>2, <1>4 DEF Unused
<1>6. ASSUME NEW s \in Sessions
      PROVE  /\ session'[s] \in SessionRecords /\ StageOK(session'[s])
             /\ session'[s].client = session[s].client /\ session'[s].target = session[s].target
             /\ session'[s].stage \notin Absent => session[s].stage \notin Absent
    <2>1. session[s] \in SessionRecords /\ StageOK(session[s])
        BY <1>2 DEF SessionStates, IInv
    <2>2. CASE session[s].stage = "QUEUED"
        <3>1. session'[s] = [session[s] EXCEPT !.stage = "FREED"]
            BY <1>1, <2>2
        <3>2. /\ session'[s] \in SessionRecords /\ session'[s].stage = "FREED"
              /\ session'[s].client = session[s].client /\ session'[s].target = session[s].target
              /\ session'[s].reply = session[s].reply
            BY <2>1, <3>1 DEF SessionRecords, Stages
        <3> QED
            BY <2>1, <2>2, <3>2 DEF StageOK, Absent, Coupled
    <2>3. CASE session[s].stage # "QUEUED"
        BY <1>1, <2>1, <2>3
    <2> QED
        BY <2>2, <2>3
<1>7. session' \in SessionStates
    <2>1. DOMAIN session' = Sessions /\ session' = [s \in Sessions |-> session'[s]]
        BY <1>1
    <2> QED
        BY <1>6, <2>1 DEF SessionStates
<1>8. Linked(sel', open', session')
    <2>1. ASSUME NEW s \in Sessions PROVE OwnedBy(u.fds, session', s)
        <3>1. OwnedBy(sel.fds, session, s)
            BY <1>2 DEF Linked
        <3> QED
            BY <1>1, <1>5, <1>6, <3>1 DEF OwnedBy
    <2> QED
        BY <1>1, <1>2, <1>4, <2>1 DEF Linked
<1>9. TypeOK'
    <2>1. sel' \in Tables
        BY <1>8 DEF Linked, TableOK
    <2>2. backlog' \in Seq(Sessions)
        BY <1>1
    <2> QED
        BY <1>1, <1>7, <2>1, <2>2 DEF IInv, TypeOK, SessionStates, SessionRecords, Tables
<1>10. BacklogOK'
    BY <1>1 DEF BacklogOK
<1>11. ErrnoOK'
    BY <1>1, <1>6 DEF ErrnoOK, IInv
<1> QED
    BY <1>6, <1>8, <1>9, <1>10, <1>11 DEF IInv

\* A client that connects is queued behind the others.
LEMMA ClientConnectsKeeps ==
    ASSUME IInv, NEW s \in Sessions, ClientConnects(s)
    PROVE  IInv'
<1>1. /\ session[s].stage = "UNBORN" /\ backlog' = Append(backlog, s)
      /\ session' = [session EXCEPT ![s].stage = "QUEUED"]
      /\ UNCHANGED <<sel, slave, phase, last, pos, limit, open, conn, errno>>
    BY DEF ClientConnects
<1>2. session \in SessionStates /\ session[s] \in SessionRecords /\ StageOK(session[s])
      /\ Linked(sel, open, session) /\ backlog \in Seq(Sessions)
    BY DEF IInv, TypeOK, SessionStates, SessionRecords
<1>3. /\ session' \in SessionStates
      /\ \A q \in Sessions : q # s => session'[q] = session[q]
      /\ session'[s].client = session[s].client /\ session'[s].target = session[s].target
      /\ session'[s].stage = "QUEUED" /\ session'[s].reply = session[s].reply
    BY <1>1, <1>2 DEF SessionStates, SessionRecords, Stages
<1>4. Relinked(session, session', s, session[s].client, session[s].target)
    BY <1>3 DEF Relinked
<1>5. Linked(sel', open', session')
    BY <1>1, <1>2, <1>4, LinkSame
<1>6. \A q \in Sessions : StageOK(session'[q])
    <2>1. StageOK(session'[s])
        BY <1>1, <1>2, <1>3 DEF StageOK, Absent, Coupled
    <2> QED
        BY <1>3, <2>1 DEF IInv
<1>7. TypeOK'
    BY <1>1, <1>2, <1>3 DEF IInv, TypeOK, SessionStates, SessionRecords
<1>8. /\ Len(backlog') = Len(backlog) + 1 /\ backlog'[Len(backlog) + 1] = s
      /\ \A i \in 1 .. Len(backlog) : backlog'[i] = backlog[i] /\ backlog[i] \in Sessions
      /\ Len(backlog) \in Nat
    BY <1>1, <1>2
<1>9. \A i \in 1 .. Len(backlog) : backlog[i] # s /\ session[backlog[i]].stage = "QUEUED"
    BY <1>1 DEF IInv, BacklogOK
<1>10. BacklogOK'
    <2>1. ASSUME NEW i \in 1 .. Len(backlog')
          PROVE  i \in 1 .. Len(backlog) \/ i = Len(backlog) + 1
        BY <1>8
    <2>2. ASSUME NEW i \in 1 .. Len(backlog') PROVE session'[backlog'[i]].stage = "QUEUED"
        <3>1. CASE i \in 1 .. Len(backlog)
            BY <1>3, <1>8, <1>9, <3>1
        <3>2. CASE i = Len(backlog) + 1
            BY <1>3, <1>8, <3>2
        <3> QED
            BY <2>1, <3>1, <3>2
    <2>3. ASSUME NEW i \in 1 .. Len(backlog'), NEW j \in 1 .. Len(backlog'),
                 backlog'[i] = backlog'[j]
          PROVE  i = j
        <3>1. CASE i \in 1 .. Len(backlog) /\ j \in 1 .. Len(backlog)
            BY <1>8, <2>3, <3>1 DEF IInv, BacklogOK
        <3>2. CASE i = Len(backlog) + 1 \/ j = Len(backlog) + 1
            BY <1>8, <1>9, <2>1, <2>3, <3>2
        <3> QED
            BY <2>1, <3>1, <3>2
    <2> QED
        BY <2>2, <2>3 DEF BacklogOK
<1>11. ErrnoOK'
    <2>1. (\E q \in Sessions : session'[q].stage \notin Absent)
            => \E q \in Sessions : session[q].stage \notin Absent
        BY <1>3 DEF Absent
    <2> QED
        BY <1>1, <2>1 DEF IInv, ErrnoOK, Due
<1> QED
    BY <1>5, <1>6, <1>7, <1>10, <1>11 DEF IInv

\* The inductive invariant holds of every step.
LEMMA NextKeeps == IInv /\ [Next]_vars => IInv'
<1> SUFFICES ASSUME IInv, [Next]_vars PROVE IInv'
    OBVIOUS
<1>1. CASE UNCHANGED vars
    <2>1. UNCHANGED <<sel, slave, phase, last, pos, limit, open, session, conn, backlog, errno>>
        BY <1>1 DEF vars
    <2>2. TypeOK' /\ BacklogOK' /\ ErrnoOK'
        BY <2>1 DEF IInv, TypeOK, BacklogOK, ErrnoOK, Due
    <2> QED
        BY <2>1, <2>2 DEF IInv
<1>2. ASSUME NEW s \in Sessions, Handlers(s) PROVE IInv'
    <2>1. ASSUME NEW kind \in {"client", "target"}, NEW op \in Ops, Relays(s, kind, op)
          PROVE  IInv'
        BY <2>1, RelaysKeeps DEF Kinds
    <2> QED
        BY <1>2, <2>1, AcceptKeeps, ReadsRequestKeeps, ConnectionReadyKeeps, SendsReplyKeeps
        DEF Handlers
<1>3. ASSUME NEW s \in Sessions, NEW how \in {"established", "refused"}, ConnectionEnds(s, how)
      PROVE  IInv'
    <2>1. /\ conn' = [conn EXCEPT ![s] = how]
          /\ UNCHANGED <<sel, slave, phase, last, pos, limit, open, session, backlog, errno>>
        BY <1>3 DEF ConnectionEnds
    <2>2. TypeOK' /\ BacklogOK' /\ ErrnoOK'
        BY <2>1 DEF IInv, TypeOK, BacklogOK, ErrnoOK, Due
    <2> QED
        BY <2>1, <2>2 DEF IInv
<1>4. ASSUME MainThread PROVE IInv'
    BY <1>2, <1>4, AcceptFailsKeeps, LoopKeeps DEF MainThread
<1> QED
    BY <1>1, <1>3, <1>4, LoopKeeps, StopAcceptingKeeps, ClientConnectsKeeps DEF Next

-----------------------------------------------------------------------------
(* Theorems *)

\* The invariant holds in every state of the loop, for every size of the table
\* and every number of sessions.
THEOREM Invariance == Spec => []IInv
BY Initially, NextKeeps, PTL DEF Spec

\* The table, the snapshot and the sessions keep their types, for every number of
\* sessions and every limit: in particular handle_iteration never goes beyond the
\* table.
THEOREM TypeCorrect == Spec => []TypeOK
<1>1. IInv => TypeOK
    BY DEF IInv
<1> QED
    BY <1>1, Invariance, PTL

\* What selector.c derives from its table is exact, and the table never grows.
THEOREM TableIsExact == Spec => []TableExact
<1>1. IInv => TableExact
    <2> SUFFICES ASSUME IInv PROVE TableExact
        OBVIOUS
    <2>1. TableOK(sel) /\ FD_SETSIZE \in Nat /\ Used(sel) \subseteq Nat
        BY LoopAssumption DEF IInv, Linked, Used, Index
    <2>2. sel.fd_size = next_capacity(FD_SETSIZE)
        BY <2>1, LargestCapacity DEF TableOK
    <2>3. \A f \in Used(sel) : f <= sel.max_fd /\ f < sel.fd_size
        BY <2>1 DEF TableOK
    <2> QED
        BY <2>1, <2>2, <2>3 DEF TableOK, MastersExact, TableExact
<1> QED
    BY <1>1, Invariance, PTL

\* The table holds exactly the open descriptors, each with its owner.
THEOREM DescriptorsAreMirrored == Spec => []TableMirrorsDescriptors
<1>1. IInv => TableMirrorsDescriptors
    BY DEF IInv, Linked, OwnedBy, TableMirrorsDescriptors
<1> QED
    BY <1>1, Invariance, PTL

\* No failed registration is reported as success: errno is set by the accept that
\* ended accept_connection, before any session can ask for anything.
THEOREM SuccessIsBacked == Spec => []SuccessHasTarget
<1>1. IInv => SuccessHasTarget
    <2> SUFFICES ASSUME IInv, NEW s \in Sessions, session[s].reply = "SUCCESS"
                 PROVE  session[s].stage \in {"ANSWERED", "RELAY"} /\ session[s].target \in open
        BY DEF SuccessHasTarget
    <2>1. StageOK(session[s]) /\ session[s] \in SessionRecords /\ OwnedBy(sel.fds, session, s)
          /\ Used(sel) = open
        BY DEF IInv, TypeOK, SessionRecords, Linked
    <2>2. session[s].stage \in {"ANSWERED", "RELAY"}
        BY <2>1 DEF StageOK
    <2>3. session[s].target \in Index
        BY <2>1, <2>2 DEF StageOK, Coupled, SessionRecords
    <2>4. sel.fds[session[s].target].handler = "target"
        BY <2>1, <2>3 DEF OwnedBy
    <2>5. session[s].target \in Used(sel)
        BY <2>3, <2>4 DEF Used
    <2> QED
        BY <2>1, <2>2, <2>5
<1> QED
    BY <1>1, Invariance, PTL
=============================================================================
