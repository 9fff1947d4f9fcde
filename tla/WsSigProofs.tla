---------------------------- MODULE WsSigProofs ----------------------------
(***************************************************************************)
(* Proofs about WsSig, for any peers, connections and messages, with both  *)
(* clients and both servers.  A message is followed through the queues of  *)
(* its connections and the relay (QueuesOf): every step moves the head of  *)
(* one queue to the end of another (Passed), takes a queue over whole      *)
(* (Taken), enters a message that was not sent (Entered) or drops some     *)
(* (Dropped), so that a message stays in one place at most (Once).         *)
(***************************************************************************)
EXTENDS WsSig, SequenceTheorems, TLAPS

ConnType ==
    [peer : Peers \cup {None}, sock : {"none", "connecting", "open", "closed"},
     closeEvent : BOOLEAN, fired : BOOLEAN, user : {"none", "held", "gone"}, handler : BOOLEAN,
     buf : Seq(Msgs), replay : Seq(Msgs), handed : SUBSET Msgs, got : Seq(Msgs),
     leaving : BOOLEAN, asked : BOOLEAN, lefts : Nat,
     sv : {"none", "open", "closed"}, overlapped : BOOLEAN,
     up : Seq([to : Peers, msg : Msgs]), down : Seq(Msgs)]

\* The types of the variables of the clients and the servers.
WsTypeOK ==
    /\ kind \in Kinds /\ server \in {"dc", "node"}
    /\ reg \in [Peers -> Conns \cup {None}] /\ tracked \in [Peers -> Conns \cup {None}]
    /\ pending \in [Peers -> Seq(Msgs)] /\ timers \in [Peers -> Nat]
    /\ conn \in [Conns -> ConnType]
    /\ unsent \in SUBSET Msgs

\* The places and what is in them, of connections k and pending messages w.
Messages(s) == [i \in DOMAIN s |-> s[i].msg]

QueuesOf(k, w) ==
    [x \in Places |->
        CASE x[1] = "up"      -> Messages(k[x[2]].up)
          [] x[1] = "down"    -> k[x[2]].down
          [] x[1] = "buf"     -> k[x[2]].buf
          [] x[1] = "replay"  -> k[x[2]].replay
          [] x[1] = "got"     -> k[x[2]].got
          [] x[1] = "pending" -> w[x[2]]]

\* No message of U is in a queue of q, and every other one is in one at most, once.
Once(q, U) ==
    \A x \in Places : \A i \in DOMAIN q[x] :
        /\ q[x][i] \notin U
        /\ \A y \in Places : \A j \in DOMAIN q[y] : q[y][j] = q[x][i] => y = x /\ j = i

\* A user's messages are all accounted for, and none is replayed before SetHandler.
Kept(r) ==
    /\ r.handed = Elements(r.buf) \cup Elements(r.replay) \cup Elements(r.got)
    /\ ~r.handler => r.replay = <<>>

\* An open server end is of a peer, two open ones of one peer know of each other,
\* and the entries of the servers are as Reachable says; k are the connections, g
\* the registrations.
Registered(k, g) ==
    /\ \A c \in Conns : k[c].sv = "open" => k[c].peer # None
    /\ \A c, d \in Conns :
          k[c].sv = "open" /\ k[d].sv = "open" /\ k[c].peer = k[d].peer /\ c # d => k[c].overlapped
    /\ \A c \in Conns : k[c].sv = "open" /\ ~k[c].overlapped => g[k[c].peer] = c
    /\ \A p \in Peers : g[p] # None => k[g[p]].sv = "open" /\ k[g[p]].peer = p

WsIInv ==
    /\ WsTypeOK
    /\ Once(QueuesOf(conn, pending), unsent)
    /\ \A c \in Conns : Kept(conn[c])
    /\ Registered(conn, reg)

-----------------------------------------------------------------------------
\* What the steps do to the queues
Queues == [Places -> Seq(Msgs)]

\* Dropping messages from the front of queues, or all of a queue.
Fewer(s, t) == t = s \/ t = <<>> \/ (s # <<>> /\ t = Tail(s))

LEMMA Dropped ==
    ASSUME NEW q \in Queues, NEW r \in Queues, NEW U, Once(q, U),
           \A x \in Places : Fewer(q[x], r[x])
    PROVE  Once(r, U)
<1> SUFFICES ASSUME NEW x \in Places, NEW i \in DOMAIN r[x],
                    NEW y \in Places, NEW j \in DOMAIN r[y]
             PROVE  r[x][i] \notin U /\ (r[y][j] = r[x][i] => y = x /\ j = i)
  BY DEF Once
<1> DEFINE Home(z, k, n) == n \in DOMAIN q[z] /\ r[z][k] = q[z][n] /\ n = IF r[z] = q[z] THEN k ELSE k + 1
<1>1. ASSUME NEW z \in Places, NEW k \in DOMAIN r[z] PROVE \E n : Home(z, k, n)
  <2>1. q[z] \in Seq(Msgs) /\ r[z] \in Seq(Msgs) BY DEF Queues
  <2>2. CASE r[z] = q[z] BY <2>2
  <2>3. CASE r[z] # q[z] /\ q[z] # <<>> /\ r[z] = Tail(q[z])
    <3>1. k \in 1 .. Len(q[z]) - 1 BY <2>1, <2>3
    <3>2. k + 1 \in DOMAIN q[z] /\ r[z][k] = q[z][k + 1] BY <2>1, <2>3, <3>1
    <3> QED BY <2>3, <3>2
  <2>4. r[z] # <<>> BY <2>1
  <2> QED BY <2>2, <2>3, <2>4 DEF Fewer
<1>2. PICK n : Home(x, i, n) BY <1>1
<1>3. PICK l : Home(y, j, l) BY <1>1
<1>4. q[x][n] \notin U /\ (q[y][l] = q[x][n] => y = x /\ l = n) BY <1>2, <1>3 DEF Once
<1>5. i \in Nat /\ j \in Nat
  <2>1. r[x] \in Seq(Msgs) /\ r[y] \in Seq(Msgs) BY DEF Queues
  <2> QED BY <2>1
<1> QED BY <1>2, <1>3, <1>4, <1>5

\* The first message of a queue goes to the end of another.
LEMMA Passed ==
    ASSUME NEW q \in Queues, NEW r \in Queues, NEW U, Once(q, U),
           NEW a \in Places, NEW b \in Places, a # b, q[a] # <<>>,
           r[a] = Tail(q[a]), r[b] = Append(q[b], Head(q[a])),
           \A x \in Places \ {a, b} : r[x] = q[x]
    PROVE  Once(r, U)
<1> DEFINE Home(x, i, y, j) ==
        /\ r[x][i] = q[y][j]
        /\ x = a => y = a /\ j = i + 1
        /\ x = b /\ i <= Len(q[b]) => y = b /\ j = i
        /\ x = b /\ i > Len(q[b]) => y = a /\ j = 1 /\ i = Len(q[b]) + 1
        /\ x \notin {a, b} => y = x /\ j = i
<1>1. ASSUME NEW x \in Places, NEW i \in DOMAIN r[x]
      PROVE  \E y \in Places : \E j \in DOMAIN q[y] : Home(x, i, y, j)
  <2>1. CASE x = a BY <2>1, i + 1 \in DOMAIN q[a] DEF Queues
  <2>2. CASE x = b /\ i <= Len(q[b]) BY <2>2, i \in DOMAIN q[b] DEF Queues
  <2>3. CASE x = b /\ i > Len(q[b]) BY <2>3, 1 \in DOMAIN q[a] DEF Queues
  <2>4. CASE x \notin {a, b} BY <2>4
  <2> QED BY <2>1, <2>2, <2>3, <2>4 DEF Queues
<1> SUFFICES ASSUME NEW x \in Places, NEW i \in DOMAIN r[x],
                    NEW y \in Places, NEW j \in DOMAIN r[y]
             PROVE  r[x][i] \notin U /\ (r[y][j] = r[x][i] => y = x /\ j = i)
  BY DEF Once
<1>2. PICK u \in Places : \E k \in DOMAIN q[u] : Home(x, i, u, k) BY <1>1
<1>3. PICK k \in DOMAIN q[u] : Home(x, i, u, k) BY <1>2
<1>4. PICK v \in Places : \E l \in DOMAIN q[v] : Home(y, j, v, l) BY <1>1
<1>5. PICK l \in DOMAIN q[v] : Home(y, j, v, l) BY <1>4
<1>6. q[u][k] \notin U /\ (q[v][l] = q[u][k] => v = u /\ l = k) BY DEF Once
<1>7. i \in Nat \ {0} /\ j \in Nat \ {0}
  <2>1. r[x] \in Seq(Msgs) /\ r[y] \in Seq(Msgs) BY DEF Queues
  <2> QED BY <2>1
<1>8. Len(q[b]) \in Nat BY DEF Queues
<1> QED BY <1>3, <1>5, <1>6, <1>7, <1>8

\* A message that was not sent enters at the end of a queue.
LEMMA Entered ==
    ASSUME NEW q \in Queues, NEW r \in Queues, NEW U, Once(q, U),
           NEW b \in Places, NEW m \in U, r[b] = Append(q[b], m),
           \A x \in Places \ {b} : r[x] = q[x]
    PROVE  Once(r, U \ {m})
<1> SUFFICES ASSUME NEW x \in Places, NEW i \in DOMAIN r[x],
                    NEW y \in Places, NEW j \in DOMAIN r[y]
             PROVE  r[x][i] \notin U \ {m} /\ (r[y][j] = r[x][i] => y = x /\ j = i)
  BY DEF Once
<1>1. ASSUME NEW z \in Places, NEW k \in DOMAIN r[z]
      PROVE  \/ k \in DOMAIN q[z] /\ r[z][k] = q[z][k]
             \/ z = b /\ k = Len(q[b]) + 1 /\ r[z][k] = m
  <2>1. CASE z = b
    <3>1. q[b] \in Seq(Msgs) /\ r[b] \in Seq(Msgs) BY DEF Queues
    <3>2. Len(r[b]) = Len(q[b]) + 1 /\ k \in 1 .. Len(r[b]) BY <2>1, <3>1
    <3>3. r[b][Len(q[b]) + 1] = m /\ \A n \in 1 .. Len(q[b]) : r[b][n] = q[b][n] BY <3>1
    <3> QED BY <2>1, <3>1, <3>2, <3>3
  <2>2. CASE z # b BY <2>2
  <2> QED BY <2>1, <2>2
<1>2. \/ i \in DOMAIN q[x] /\ r[x][i] = q[x][i]
      \/ x = b /\ i = Len(q[b]) + 1 /\ r[x][i] = m
  BY <1>1
<1>3. \/ j \in DOMAIN q[y] /\ r[y][j] = q[y][j]
      \/ y = b /\ j = Len(q[b]) + 1 /\ r[y][j] = m
  BY <1>1
<1> QED BY <1>2, <1>3 DEF Once

\* All of a queue goes to another, in place of what was there.
LEMMA Taken ==
    ASSUME NEW q \in Queues, NEW r \in Queues, NEW U, Once(q, U),
           NEW a \in Places, NEW b \in Places, a # b, r[a] = <<>>, r[b] = q[a],
           \A x \in Places \ {a, b} : r[x] = q[x]
    PROVE  Once(r, U)
<1> SUFFICES ASSUME NEW x \in Places, NEW i \in DOMAIN r[x],
                    NEW y \in Places, NEW j \in DOMAIN r[y]
             PROVE  r[x][i] \notin U /\ (r[y][j] = r[x][i] => y = x /\ j = i)
  BY DEF Once
<1>0. DOMAIN r[a] = {}
  <2>1. DOMAIN <<>> = {} OBVIOUS
  <2> QED BY <2>1, Zenon
<1>1. x # a /\ y # a BY <1>0, Zenon
<1> DEFINE from(z) == IF z = b THEN a ELSE z
<1>2. from(x) \in Places /\ from(y) \in Places /\ r[x] = q[from(x)] /\ r[y] = q[from(y)] BY <1>1
<1> QED BY <1>1, <1>2 DEF Once

\* Sending takes a message off the unsent ones, also when it is dropped at once.
LEMMA Spent == ASSUME NEW q, NEW U, NEW m, Once(q, U) PROVE Once(q, U \ {m})
BY DEF Once

-----------------------------------------------------------------------------
\* What is in the queues of connections and peers.

Datagram == [to : Peers, msg : Msgs]

LEMMA MessagesOf ==
    ASSUME NEW s \in Seq(Datagram)
    PROVE  /\ Messages(s) \in Seq(Msgs)
           /\ s = <<>> => Messages(s) = <<>>
           /\ s # <<>> => Messages(s) # <<>> /\ Head(Messages(s)) = Head(s).msg
           /\ s # <<>> => Messages(Tail(s)) = Tail(Messages(s))
           /\ \A to \in Peers, m \in Msgs :
                 Messages(Append(s, [to |-> to, msg |-> m])) = Append(Messages(s), m)
<1>0. ASSUME NEW t \in Seq(Datagram)
      PROVE  /\ Messages(t) \in Seq(Msgs) /\ Len(Messages(t)) = Len(t)
             /\ \A i \in 1 .. Len(t) : Messages(t)[i] = t[i].msg
  <2>0. Len(t) \in Nat /\ DOMAIN t = 1 .. Len(t) /\ \A i \in 1 .. Len(t) : t[i] \in Datagram
    BY LenProperties, ElementOfSeq
  <2>1. \A i \in 1 .. Len(t) : t[i].msg \in Msgs BY <2>0 DEF Datagram
  <2>2. Messages(t) = [i \in 1 .. Len(t) |-> t[i].msg] BY <2>0 DEF Messages
  <2> QED BY <2>0, <2>1, <2>2
<1>1. Messages(s) \in Seq(Msgs) /\ Len(Messages(s)) = Len(s) /\ \A i \in 1 .. Len(s) : Messages(s)[i] = s[i].msg
  BY <1>0
<1>2. s = <<>> => Messages(s) = <<>> BY <1>1
<1>3. s # <<>> => Messages(s) # <<>> /\ Head(Messages(s)) = Head(s).msg BY <1>1
<1>4. ASSUME s # <<>> PROVE Messages(Tail(s)) = Tail(Messages(s))
  <2>1. Tail(s) \in Seq(Datagram) /\ Len(Tail(s)) = Len(s) - 1 /\ DOMAIN Tail(s) = 1 .. Len(s) - 1
        /\ \A i \in 1 .. Len(s) - 1 : Tail(s)[i] = s[i + 1]
    BY <1>4
  <2>2. Tail(Messages(s)) \in Seq(Msgs) /\ Len(Tail(Messages(s))) = Len(s) - 1
        /\ \A i \in 1 .. Len(s) - 1 : Tail(Messages(s))[i] = s[i + 1].msg
    BY <1>1, <1>3, <1>4
  <2>3. Messages(Tail(s)) \in Seq(Msgs) /\ Len(Messages(Tail(s))) = Len(s) - 1
        /\ \A i \in 1 .. Len(s) - 1 : Messages(Tail(s))[i] = s[i + 1].msg
    <3>1. /\ Messages(Tail(s)) \in Seq(Msgs) /\ Len(Messages(Tail(s))) = Len(Tail(s))
          /\ \A i \in 1 .. Len(Tail(s)) : Messages(Tail(s))[i] = Tail(s)[i].msg
      BY <1>0, <2>1, Zenon
    <3> QED BY <2>1, <3>1, ZenonT(30)
  <2> QED BY <2>2, <2>3, SeqEqual
<1>5. ASSUME NEW to \in Peers, NEW m \in Msgs
      PROVE  Messages(Append(s, [to |-> to, msg |-> m])) = Append(Messages(s), m)
  <2> DEFINE e == [to |-> to, msg |-> m]
             t == Append(s, e)
  <2>1. e \in Datagram /\ e.msg = m BY DEF Datagram
  <2> HIDE DEF e
  <2>2. t \in Seq(Datagram) /\ Len(t) = Len(s) + 1 /\ DOMAIN t = 1 .. Len(s) + 1
        /\ \A i \in 1 .. Len(s) + 1 : t[i].msg = IF i = Len(s) + 1 THEN m ELSE s[i].msg
    BY <2>1
  <2>3. Append(Messages(s), m) \in Seq(Msgs) /\ Len(Append(Messages(s), m)) = Len(s) + 1
        /\ \A i \in 1 .. Len(s) + 1 : Append(Messages(s), m)[i] = IF i = Len(s) + 1 THEN m ELSE s[i].msg
    BY <1>1
  <2> HIDE DEF t
  <2>4. Messages(t) \in Seq(Msgs) /\ Len(Messages(t)) = Len(s) + 1
        /\ \A i \in 1 .. Len(s) + 1 : Messages(t)[i] = IF i = Len(s) + 1 THEN m ELSE s[i].msg
    BY <1>0, <2>2
  <2>5. Messages(t) = Append(Messages(s), m) BY <2>3, <2>4, SeqEqual
  <2> QED BY <2>5 DEF t, e
<1> QED BY <1>1, <1>2, <1>3, <1>4, <1>5

LEMMA ElementsOf ==
    ASSUME NEW s \in Seq(Msgs)
    PROVE  /\ Elements(s) \in SUBSET Msgs
           /\ s = <<>> => Elements(s) = {}
           /\ s # <<>> => Head(s) \in Msgs /\ Tail(s) \in Seq(Msgs) /\ Elements(s) = {Head(s)} \cup Elements(Tail(s))
           /\ \A m \in Msgs : Append(s, m) \in Seq(Msgs) /\ Elements(Append(s, m)) = Elements(s) \cup {m}
<1>1. Elements(s) \in SUBSET Msgs BY DEF Elements
<1>2. s = <<>> => Elements(s) = {} BY DEF Elements
<1>3. ASSUME s # <<>> PROVE Head(s) \in Msgs /\ Tail(s) \in Seq(Msgs) /\ Elements(s) = {Head(s)} \cup Elements(Tail(s))
  <2>1. Head(s) \in Msgs /\ Tail(s) \in Seq(Msgs) /\ Head(s) = s[1] /\ Len(s) >= 1 /\ Len(Tail(s)) = Len(s) - 1
    BY <1>3
  <2>2. \A i \in 1 .. Len(s) - 1 : Tail(s)[i] = s[i + 1] BY <1>3
  <2>3. ASSUME NEW i \in DOMAIN s PROVE s[i] \in {Head(s)} \cup Elements(Tail(s))
    <3>1. CASE i = 1 BY <2>1, <3>1
    <3>2. CASE i # 1
      <4>1. i - 1 \in 1 .. Len(s) - 1 BY <3>2
      <4>2. i - 1 \in DOMAIN Tail(s) /\ Tail(s)[i - 1] = s[i] BY <2>1, <2>2, <4>1
      <4> QED BY <4>2 DEF Elements
    <3> QED BY <3>1, <3>2
  <2>4. ASSUME NEW i \in DOMAIN Tail(s) PROVE Tail(s)[i] \in Elements(s)
    <3>1. i \in 1 .. Len(s) - 1 BY <2>1
    <3>2. i + 1 \in DOMAIN s /\ Tail(s)[i] = s[i + 1] BY <2>2, <3>1
    <3> QED BY <3>2 DEF Elements
  <2>5. Head(s) \in Elements(s) BY <2>1, 1 \in DOMAIN s DEF Elements
  <2> QED BY <2>1, <2>3, <2>4, <2>5 DEF Elements
<1>4. ASSUME NEW m \in Msgs PROVE Append(s, m) \in Seq(Msgs) /\ Elements(Append(s, m)) = Elements(s) \cup {m}
  <2> DEFINE t == Append(s, m)
  <2>1. t \in Seq(Msgs) /\ Len(t) = Len(s) + 1 /\ t[Len(s) + 1] = m /\ \A i \in 1 .. Len(s) : t[i] = s[i] OBVIOUS
  <2> HIDE DEF t
  <2>2. \A i \in DOMAIN s : i \in DOMAIN t /\ t[i] = s[i] BY <2>1
  <2>3. Len(s) + 1 \in DOMAIN t BY <2>1
  <2>4. \A i \in DOMAIN t : t[i] \in Elements(s) \cup {m}
    <3> SUFFICES ASSUME NEW i \in DOMAIN t PROVE t[i] \in Elements(s) \cup {m} OBVIOUS
    <3>1. i \in DOMAIN s \/ i = Len(s) + 1 BY <2>1
    <3> QED BY <3>1, <2>1, <2>2 DEF Elements
  <2>5. Elements(t) = Elements(s) \cup {m} BY <2>1, <2>2, <2>3, <2>4 DEF Elements
  <2> QED BY <2>1, <2>5 DEF t
<1> QED BY <1>1, <1>2, <1>3, <1>4

LEMMA PlacesAre ==
    /\ \A c \in Conns : /\ <<"up", c>> \in Places /\ <<"down", c>> \in Places /\ <<"buf", c>> \in Places
                        /\ <<"replay", c>> \in Places /\ <<"got", c>> \in Places
    /\ \A p \in Peers : <<"pending", p>> \in Places
    /\ \A x \in Places :
          \/ \E c \in Conns : x \in {<<"up", c>>, <<"down", c>>, <<"buf", c>>, <<"replay", c>>, <<"got", c>>}
          \/ \E p \in Peers : x = <<"pending", p>>
BY DEF Places

LEMMA QueuesAt ==
    ASSUME NEW k \in [Conns -> ConnType], NEW w \in [Peers -> Seq(Msgs)]
    PROVE  /\ QueuesOf(k, w) \in Queues
           /\ \A c \in Conns : /\ QueuesOf(k, w)[<<"up", c>>] = Messages(k[c].up)
                               /\ QueuesOf(k, w)[<<"down", c>>] = k[c].down
                               /\ QueuesOf(k, w)[<<"buf", c>>] = k[c].buf
                               /\ QueuesOf(k, w)[<<"replay", c>>] = k[c].replay
                               /\ QueuesOf(k, w)[<<"got", c>>] = k[c].got
           /\ \A p \in Peers : QueuesOf(k, w)[<<"pending", p>>] = w[p]
<1>1. \A c \in Conns : /\ QueuesOf(k, w)[<<"up", c>>] = Messages(k[c].up)
                       /\ QueuesOf(k, w)[<<"down", c>>] = k[c].down
                       /\ QueuesOf(k, w)[<<"buf", c>>] = k[c].buf
                       /\ QueuesOf(k, w)[<<"replay", c>>] = k[c].replay
                       /\ QueuesOf(k, w)[<<"got", c>>] = k[c].got
  BY PlacesAre, Zenon DEF QueuesOf
<1>2. \A p \in Peers : QueuesOf(k, w)[<<"pending", p>>] = w[p] BY PlacesAre, Zenon DEF QueuesOf
<1>3. ASSUME NEW x \in Places PROVE QueuesOf(k, w)[x] \in Seq(Msgs)
  <2>1. CASE \E p \in Peers : x = <<"pending", p>> BY <1>2, <2>1
  <2>2. ASSUME NEW c \in Conns, x \in {<<"up", c>>, <<"down", c>>, <<"buf", c>>, <<"replay", c>>, <<"got", c>>}
        PROVE  QueuesOf(k, w)[x] \in Seq(Msgs)
    <3>1. k[c].up \in Seq(Datagram) /\ k[c].down \in Seq(Msgs) /\ k[c].buf \in Seq(Msgs)
          /\ k[c].replay \in Seq(Msgs) /\ k[c].got \in Seq(Msgs)
      BY Zenon DEF ConnType, Datagram
    <3>2. Messages(k[c].up) \in Seq(Msgs) BY <3>1, MessagesOf
    <3> QED BY <1>1, <2>2, <3>1, <3>2, Zenon
  <2> QED BY <2>1, <2>2, PlacesAre
<1>4. QueuesOf(k, w) \in Queues
  <2> DEFINE at(x) == CASE x[1] = "up"      -> Messages(k[x[2]].up)
                        [] x[1] = "down"    -> k[x[2]].down
                        [] x[1] = "buf"     -> k[x[2]].buf
                        [] x[1] = "replay"  -> k[x[2]].replay
                        [] x[1] = "got"     -> k[x[2]].got
                        [] x[1] = "pending" -> w[x[2]]
  <2>1. QueuesOf(k, w) = [x \in Places |-> at(x)] BY DEF QueuesOf
  <2> HIDE DEF at
  <2> QED BY <1>3, <2>1 DEF Queues
<1> QED BY <1>1, <1>2, <1>4, Zenon

-----------------------------------------------------------------------------
\* Steps that leave the messages of a connection and its server end alone.
Quiet(r, s) ==
    /\ s \in ConnType
    /\ s.peer = r.peer /\ s.sv = r.sv /\ s.overlapped = r.overlapped
    /\ s.up = r.up /\ s.down = r.down /\ s.buf = r.buf /\ s.replay = r.replay /\ s.got = r.got
    /\ s.handed = r.handed /\ (r.handler => s.handler)

LEMMA QuietFields ==
    ASSUME NEW r \in ConnType
    PROVE  /\ \A v \in {"none", "connecting", "open", "closed"} : Quiet(r, [r EXCEPT !.sock = v])
           /\ \A v \in {"none", "held", "gone"} : Quiet(r, [r EXCEPT !.user = v])
           /\ \A v \in BOOLEAN : Quiet(r, [r EXCEPT !.closeEvent = v])
           /\ Quiet(r, [r EXCEPT !.fired = TRUE])
           /\ Quiet(r, [r EXCEPT !.handler = TRUE])
           /\ Quiet(r, [r EXCEPT !.leaving = TRUE])
           /\ \A v \in BOOLEAN : Quiet(r, [r EXCEPT !.asked = v])
           /\ Quiet(r, [r EXCEPT !.lefts = r.lefts + 1])
<1>1. \A v \in {"none", "connecting", "open", "closed"} : Quiet(r, [r EXCEPT !.sock = v])
  BY Zenon DEF Quiet, ConnType
<1>2. \A v \in {"none", "held", "gone"} : Quiet(r, [r EXCEPT !.user = v])
  BY Zenon DEF Quiet, ConnType
<1>3. \A v \in BOOLEAN : Quiet(r, [r EXCEPT !.closeEvent = v]) BY Zenon DEF Quiet, ConnType
<1>4. Quiet(r, [r EXCEPT !.fired = TRUE]) BY Zenon DEF Quiet, ConnType
<1>5. Quiet(r, [r EXCEPT !.handler = TRUE]) BY Zenon DEF Quiet, ConnType
<1>6. Quiet(r, [r EXCEPT !.leaving = TRUE]) BY Zenon DEF Quiet, ConnType
<1>7. \A v \in BOOLEAN : Quiet(r, [r EXCEPT !.asked = v]) BY Zenon DEF Quiet, ConnType
<1>8. Quiet(r, [r EXCEPT !.lefts = r.lefts + 1])
  <2>1. \A v \in Nat : Quiet(r, [r EXCEPT !.lefts = v]) BY Zenon DEF Quiet, ConnType
  <2>2. r.lefts + 1 \in Nat BY DEF ConnType
  <2> QED BY <2>1, <2>2
<1> QED BY <1>1, <1>2, <1>3, <1>4, <1>5, <1>6, <1>7, <1>8

LEMMA QuietTransitive ==
    ASSUME NEW r, NEW s, NEW t, Quiet(r, s), Quiet(s, t) PROVE Quiet(r, t)
BY DEF Quiet

LEMMA QuietSelf == ASSUME NEW r \in ConnType PROVE Quiet(r, r)
BY DEF Quiet

LEMMA LeftQuiet == ASSUME NEW r \in ConnType PROVE Quiet(r, Left(r))
BY QuietFields, QuietSelf, Zenon DEF Left

LEMMA ClosedSocketQuiet == ASSUME NEW r \in ConnType PROVE Quiet(r, ClosedSocket(r))
<1>1. CASE r.sock = "open"
  <2> DEFINE s == [r EXCEPT !.sock = "closed"]
             t == [s EXCEPT !.closeEvent = TRUE]
  <2>1. Quiet(r, s) BY QuietFields, Zenon
  <2>2. s \in ConnType BY <2>1 DEF Quiet
  <2>3. Quiet(s, t) BY <2>2, QuietFields, Zenon
  <2>4. ClosedSocket(r) = t BY <1>1 DEF ClosedSocket
  <2> QED BY <2>1, <2>3, <2>4, QuietTransitive
<1>2. CASE r.sock # "open" BY <1>2, QuietSelf DEF ClosedSocket
<1> QED BY <1>1, <1>2

LEMMA DcOnOpenQuiet == ASSUME NEW r \in ConnType PROVE Quiet(r, DcOnOpen(r))
<1> DEFINE s == [r EXCEPT !.sock = "open"]
           t == [s EXCEPT !.fired = TRUE]
           u == [t EXCEPT !.user = "held"]
<1>1. Quiet(r, s) BY QuietFields, ZenonT(30)
<1>2. Quiet(s, t) BY <1>1, QuietFields, ZenonT(30) DEF Quiet
<1>3. Quiet(t, u) BY <1>2, QuietFields, Zenon DEF Quiet
<1>4. DcOnOpen(r) = u BY DEF DcOnOpen
<1> HIDE DEF s, t, u
<1> QED BY <1>1, <1>2, <1>3, <1>4, QuietTransitive

LEMMA JsOnOpenQuiet == ASSUME NEW r \in ConnType PROVE Quiet(r, JsOnOpen(r))
<1> DEFINE s == DcOnOpen(r)
           t == [s EXCEPT !.handler = TRUE]
<1>1. Quiet(r, s) BY DcOnOpenQuiet
<1>2. s \in ConnType BY <1>1 DEF Quiet
<1>3. Quiet(s, t) BY <1>2, QuietFields, Zenon
<1>4. JsOnOpen(r) = t BY DEF JsOnOpen, DcOnOpen
<1> HIDE DEF s, t
<1> QED BY <1>1, <1>3, <1>4, QuietTransitive

-----------------------------------------------------------------------------
\* Connections k with pending messages w become l and v, with messages dropped.
FewerAt(r, s) ==
    /\ Fewer(r.up, s.up) /\ Fewer(r.down, s.down) /\ Fewer(r.buf, s.buf)
    /\ Fewer(r.replay, s.replay) /\ Fewer(r.got, s.got)

LEMMA ConnsDropped ==
    ASSUME NEW k \in [Conns -> ConnType], NEW l \in [Conns -> ConnType],
           NEW w \in [Peers -> Seq(Msgs)], NEW v \in [Peers -> Seq(Msgs)],
           NEW U, Once(QueuesOf(k, w), U),
           \A c \in Conns : FewerAt(k[c], l[c]), \A p \in Peers : Fewer(w[p], v[p])
    PROVE  Once(QueuesOf(l, v), U)
<1> DEFINE q == QueuesOf(k, w)
           r == QueuesOf(l, v)
<1>1. q \in Queues /\ r \in Queues BY QueuesAt, Zenon
<1>2. ASSUME NEW x \in Places PROVE Fewer(q[x], r[x])
  <2>1. ASSUME NEW p \in Peers, x = <<"pending", p>> PROVE Fewer(q[x], r[x])
    <3>1. q[x] = w[p] /\ r[x] = v[p] BY <2>1, QueuesAt, Zenon
    <3> QED BY <3>1
  <2>2. ASSUME NEW c \in Conns, x \in {<<"up", c>>, <<"down", c>>, <<"buf", c>>, <<"replay", c>>, <<"got", c>>}
        PROVE  Fewer(q[x], r[x])
    <3>1. FewerAt(k[c], l[c]) OBVIOUS
    <3>2. /\ q[<<"up", c>>] = Messages(k[c].up) /\ q[<<"down", c>>] = k[c].down /\ q[<<"buf", c>>] = k[c].buf
          /\ q[<<"replay", c>>] = k[c].replay /\ q[<<"got", c>>] = k[c].got
      BY QueuesAt, ZenonT(30)
    <3>3. /\ r[<<"up", c>>] = Messages(l[c].up) /\ r[<<"down", c>>] = l[c].down /\ r[<<"buf", c>>] = l[c].buf
          /\ r[<<"replay", c>>] = l[c].replay /\ r[<<"got", c>>] = l[c].got
      BY QueuesAt, ZenonT(30)
    <3>4. Fewer(Messages(k[c].up), Messages(l[c].up))
      <4>1. k[c].up \in Seq(Datagram) /\ l[c].up \in Seq(Datagram)
        BY Zenon DEF ConnType, Datagram
      <4> QED BY <3>1, <4>1, MessagesOf DEF FewerAt, Fewer
    <3> HIDE DEF q, r
    <3> QED BY <2>2, <3>1, <3>2, <3>3, <3>4, Zenon DEF FewerAt
  <2> QED BY <2>1, <2>2, PlacesAre
<1> HIDE DEF q, r
<1>3. Once(q, U) BY DEF q
<1>4. Once(r, U) BY <1>1, <1>2, <1>3, Dropped
<1> QED BY <1>4 DEF r

SameEnds(k, l) ==
    \A c \in Conns : l[c].peer = k[c].peer /\ l[c].sv = k[c].sv /\ l[c].overlapped = k[c].overlapped

LEMMA RegisteredKept ==
    ASSUME NEW k, NEW l, NEW g \in [Peers -> Conns \cup {None}], Registered(k, g), SameEnds(k, l)
    PROVE  Registered(l, g)
BY DEF Registered, SameEnds

\* The step of a client changes its connection only.
LEMMA ClientStep ==
    ASSUME WsIInv, NEW c \in Conns, NEW s \in ConnType, Changes(c, s), UNCHANGED <<kind, server, serverVars>>,
           s.peer = conn[c].peer, s.sv = conn[c].sv, s.overlapped = conn[c].overlapped, Kept(s),
           unsent' \in SUBSET Msgs, Once(QueuesOf([conn EXCEPT ![c] = s], pending), unsent')
    PROVE  WsIInv'
<1> USE DEF WsIInv
<1>1. conn' = [conn EXCEPT ![c] = s] BY DEF Changes
<1>2. conn' \in [Conns -> ConnType] /\ conn'[c] = s /\ \A d \in Conns \ {c} : conn'[d] = conn[d]
  BY <1>1 DEF WsTypeOK
<1>3. reg' = reg /\ tracked' = tracked /\ pending' = pending /\ timers' = timers /\ kind' = kind /\ server' = server
  BY DEF serverVars
<1>4. WsTypeOK' BY <1>2, <1>3 DEF WsTypeOK
<1>5. Once(QueuesOf(conn', pending'), unsent') BY <1>1, <1>3
<1>6. \A d \in Conns : Kept(conn'[d]) BY <1>2
<1>7. Registered(conn', reg')
  <2>1. SameEnds(conn, conn') BY <1>2 DEF SameEnds
  <2>2. reg \in [Peers -> Conns \cup {None}] BY DEF WsTypeOK
  <2> QED BY <1>3, <2>1, <2>2, RegisteredKept
<1> QED BY <1>4, <1>5, <1>6, <1>7

LEMMA QuietStep ==
    ASSUME WsIInv, NEW c \in Conns, NEW s, Quiet(conn[c], s), Changes(c, s), ClientOnly
    PROVE  WsIInv'
<1>1. s \in ConnType /\ s.peer = conn[c].peer /\ s.sv = conn[c].sv /\ s.overlapped = conn[c].overlapped
  BY DEF Quiet
<1>2. Kept(s) BY DEF Kept, Quiet, WsIInv
<1>3. UNCHANGED <<kind, server, serverVars>> /\ unsent' = unsent BY DEF ClientOnly, Config
<1>4. unsent' \in SUBSET Msgs BY <1>3 DEF WsIInv, WsTypeOK
<1>5. Once(QueuesOf([conn EXCEPT ![c] = s], pending), unsent)
  <2> DEFINE l == [conn EXCEPT ![c] = s]
  <2>1. conn \in [Conns -> ConnType] /\ pending \in [Peers -> Seq(Msgs)] BY DEF WsIInv, WsTypeOK
  <2>2. l \in [Conns -> ConnType] /\ l[c] = s /\ \A d \in Conns \ {c} : l[d] = conn[d]
    BY <1>1, <2>1
  <2>3. FewerAt(conn[c], s) BY DEF Quiet, FewerAt, Fewer
  <2>4. \A d \in Conns : FewerAt(conn[d], l[d]) BY <2>2, <2>3 DEF FewerAt, Fewer
  <2>5. \A p \in Peers : Fewer(pending[p], pending[p]) BY DEF Fewer
  <2> HIDE DEF l
  <2>6. Once(QueuesOf(l, pending), unsent) BY <2>1, <2>2, <2>4, <2>5, ConnsDropped DEF WsIInv
  <2> QED BY <2>6 DEF l
<1> QED BY <1>1, <1>2, <1>3, <1>4, <1>5, ClientStep

-----------------------------------------------------------------------------
\* The clients' steps

LEMMA OnErrorStep == ASSUME WsIInv, NEW c \in Conns, OnError(c) PROVE WsIInv'
<1> DEFINE s == [conn[c] EXCEPT !.sock = "closed"]
           t == [s EXCEPT !.fired = TRUE]
<1>0. conn[c] \in ConnType BY DEF WsIInv, WsTypeOK
<1>1. Quiet(conn[c], s) BY <1>0, QuietFields, ZenonT(30)
<1>2. Quiet(s, t) BY <1>1, QuietFields, ZenonT(30) DEF Quiet
<1>3. Changes(c, t) /\ ClientOnly BY DEF OnError, Changes
<1> HIDE DEF s, t
<1> QED BY <1>1, <1>2, <1>3, QuietTransitive, QuietStep

LEMMA OnOpenStep == ASSUME WsIInv, NEW c \in Conns, OnOpen(c) PROVE WsIInv'
<1>0. conn[c] \in ConnType BY DEF WsIInv, WsTypeOK
<1>1. CASE Dc(c)
  <2>1. Changes(c, DcOnOpen(conn[c])) /\ ClientOnly BY <1>1 DEF OnOpen
  <2> QED BY <1>0, <2>1, DcOnOpenQuiet, QuietStep
<1>2. CASE ~Dc(c)
  <2>1. Changes(c, JsOnOpen(conn[c])) /\ ClientOnly BY <1>2 DEF OnOpen
  <2> QED BY <1>0, <2>1, JsOnOpenQuiet, QuietStep
<1> QED BY <1>1, <1>2

LEMMA LeaveStep == ASSUME WsIInv, NEW c \in Conns, Leave(c) PROVE WsIInv'
<1> DEFINE r == [conn[c] EXCEPT !.leaving = TRUE]
           s == [r EXCEPT !.asked = conn[c].handler]
<1>0. conn[c] \in ConnType /\ conn[c].handler \in BOOLEAN
  BY ZenonT(30) DEF WsIInv, WsTypeOK, ConnType
<1>1. Quiet(conn[c], r) BY <1>0, QuietFields, Zenon
<1>2. Quiet(r, s)
  <2>1. r \in ConnType BY <1>1 DEF Quiet
  <2> HIDE DEF r
  <2> QED BY <1>0, <2>1, QuietFields, Zenon
<1>3. Changes(c, IF Dc(c) THEN DcLeave(s) ELSE JsLeave(s)) /\ ClientOnly BY DEF Leave
<1> HIDE DEF r, s
<1>4. s \in ConnType BY <1>2 DEF Quiet
<1>5. Quiet(s, DcLeave(s)) BY <1>4, LeftQuiet, ClosedSocketQuiet DEF DcLeave
<1>6. Quiet(s, JsLeave(s))
  <2>1. Quiet(s, ClosedSocket(s)) BY <1>4, ClosedSocketQuiet
  <2>2. ClosedSocket(s) \in ConnType BY <2>1 DEF Quiet
  <2>3. Quiet(ClosedSocket(s), Left(ClosedSocket(s))) BY <2>2, LeftQuiet
  <2> QED BY <2>1, <2>3, QuietTransitive DEF JsLeave
<1>7. Quiet(conn[c], s) BY <1>1, <1>2, QuietTransitive
<1>8. CASE Dc(c)
  <2>1. Quiet(conn[c], DcLeave(s)) BY <1>5, <1>7, QuietTransitive
  <2> QED BY <1>3, <1>8, <2>1, QuietStep
<1>9. CASE ~Dc(c)
  <2>1. Quiet(conn[c], JsLeave(s)) BY <1>6, <1>7, QuietTransitive
  <2> QED BY <1>3, <1>9, <2>1, QuietStep
<1> QED BY <1>8, <1>9

LEMMA DropUserStep == ASSUME WsIInv, NEW c \in Conns, DropUser(c) PROVE WsIInv'
<1> DEFINE s == ClosedSocket(conn[c])
           t == [s EXCEPT !.user = "gone"]
           u == [t EXCEPT !.closeEvent = FALSE]
<1>0. conn[c] \in ConnType BY DEF WsIInv, WsTypeOK
<1>1. Quiet(conn[c], s) BY <1>0, ClosedSocketQuiet
<1>2. Quiet(s, t) BY <1>1, QuietFields, Zenon DEF Quiet
<1>3. Changes(c, t) \/ Changes(c, u) BY DEF DropUser, DcDrop, JsDrop
<1>4. ClientOnly BY DEF DropUser
<1> HIDE DEF s, t
<1>5. Quiet(conn[c], t) BY <1>1, <1>2, QuietTransitive
<1>6. Quiet(t, u) BY <1>5, QuietFields, Zenon DEF Quiet
<1> HIDE DEF u
<1>7. Quiet(conn[c], u) BY <1>5, <1>6, QuietTransitive
<1> QED BY <1>3, <1>4, <1>5, <1>7, QuietStep

LEMMA SocketBreaksStep == ASSUME WsIInv, NEW c \in Conns, SocketBreaks(c) PROVE WsIInv'
<1>0. conn[c] \in ConnType BY DEF WsIInv, WsTypeOK
<1>1. Changes(c, ClosedSocket(conn[c])) /\ ClientOnly BY DEF SocketBreaks
<1> QED BY <1>0, <1>1, ClosedSocketQuiet, QuietStep

LEMMA OnErrorAfterOpenStep == ASSUME WsIInv, NEW c \in Conns, OnErrorAfterOpen(c) PROVE WsIInv'
<1>0. conn[c] \in ConnType BY DEF WsIInv, WsTypeOK
<1>1. Changes(c, [conn[c] EXCEPT !.sock = "closed"]) /\ ClientOnly BY DEF OnErrorAfterOpen
<1>2. Quiet(conn[c], [conn[c] EXCEPT !.sock = "closed"]) BY <1>0, QuietFields, Zenon
<1> QED BY <1>1, <1>2, QuietStep

LEMMA OnClosedStep == ASSUME WsIInv, NEW c \in Conns, OnClosed(c) PROVE WsIInv'
<1> DEFINE s == [conn[c] EXCEPT !.closeEvent = FALSE]
<1>0. conn[c] \in ConnType BY DEF WsIInv, WsTypeOK
<1>1. Quiet(conn[c], s) BY <1>0, QuietFields, Zenon
<1>2. Changes(c, IF ~Held(c) THEN s ELSE IF Dc(c) THEN DcOnClosed(s) ELSE JsOnClose(s)) /\ ClientOnly
  BY DEF OnClosed
<1> HIDE DEF s
<1>3. s \in ConnType BY <1>1 DEF Quiet
<1>4. Quiet(s, Left(s)) /\ Quiet(s, s) BY <1>3, LeftQuiet, QuietSelf
<1>5. Quiet(conn[c], Left(s)) BY <1>1, <1>4, QuietTransitive
<1>6. Changes(c, s) \/ Changes(c, Left(s)) BY <1>2 DEF DcOnClosed, JsOnClose
<1> QED BY <1>1, <1>2, <1>5, <1>6, QuietStep

LEMMA DisconnectPeerStep == ASSUME WsIInv, NEW p \in Peers, DisconnectPeer(p) PROVE WsIInv'
<1>1. tracked[p] \in Conns BY DEF WsIInv, WsTypeOK, DisconnectPeer
<1>2. PICK c \in Conns : c = tracked[p] BY <1>1
<1>3. conn[c] \in ConnType BY DEF WsIInv, WsTypeOK
<1>4. Changes(c, ClosedSocket(conn[c])) /\ ClientOnly BY <1>2 DEF DisconnectPeer
<1> QED BY <1>3, <1>4, ClosedSocketQuiet, QuietStep

\* The queues of one connection change.
PlacesOf(c) == {<<"up", c>>, <<"down", c>>, <<"buf", c>>, <<"replay", c>>, <<"got", c>>}
Holds(q, c, r) ==
    /\ q[<<"up", c>>] = Messages(r.up) /\ q[<<"down", c>>] = r.down /\ q[<<"buf", c>>] = r.buf
    /\ q[<<"replay", c>>] = r.replay /\ q[<<"got", c>>] = r.got
SameBut(q, t, c) == \A x \in Places \ PlacesOf(c) : t[x] = q[x]

LEMMA OneConn ==
    ASSUME NEW k \in [Conns -> ConnType], NEW w \in [Peers -> Seq(Msgs)], NEW c \in Conns,
           NEW l \in [Conns -> ConnType], \A d \in Conns \ {c} : l[d] = k[d]
    PROVE  /\ QueuesOf(k, w) \in Queues /\ QueuesOf(l, w) \in Queues
           /\ Holds(QueuesOf(k, w), c, k[c]) /\ Holds(QueuesOf(l, w), c, l[c])
           /\ SameBut(QueuesOf(k, w), QueuesOf(l, w), c)
<1> DEFINE q == QueuesOf(k, w)
           r == QueuesOf(l, w)
<1>1. q \in Queues /\ r \in Queues BY QueuesAt
<1>2. \A d \in Conns : Holds(q, d, k[d]) BY QueuesAt, ZenonT(30) DEF Holds
<1>3. \A d \in Conns : Holds(r, d, l[d]) BY QueuesAt, ZenonT(30) DEF Holds
<1>4. \A p \in Peers : q[<<"pending", p>>] = w[p] /\ r[<<"pending", p>>] = w[p]
  BY QueuesAt, ZenonT(30)
<1> HIDE DEF q, r
<1>5. ASSUME NEW x \in Places \ PlacesOf(c) PROVE r[x] = q[x]
  <2>1. CASE \E p \in Peers : x = <<"pending", p>> BY <1>4, <2>1
  <2>2. ASSUME NEW d \in Conns, x \in PlacesOf(d) PROVE r[x] = q[x]
    <3>1. l[d] = k[d] BY <2>2
    <3>2. Holds(q, d, k[d]) /\ Holds(r, d, k[d]) BY <1>2, <1>3, <3>1
    <3> QED BY <2>2, <3>2, Zenon DEF Holds, PlacesOf
  <2> QED BY <2>1, <2>2, PlacesAre DEF PlacesOf
<1> QED BY <1>1, <1>2, <1>3, <1>5 DEF q, r, SameBut

LEMMA MessageFields ==
    ASSUME NEW r \in ConnType
    PROVE  /\ \A v \in Seq(Msgs) : [r EXCEPT !.buf = v] \in ConnType /\ [r EXCEPT !.replay = v] \in ConnType
                                   /\ [r EXCEPT !.got = v] \in ConnType /\ [r EXCEPT !.down = v] \in ConnType
           /\ \A v \in SUBSET Msgs : [r EXCEPT !.handed = v] \in ConnType
           /\ \A v \in Seq(Datagram) : [r EXCEPT !.up = v] \in ConnType
<1>1. \A v \in Seq(Msgs) : [r EXCEPT !.buf = v] \in ConnType BY Zenon DEF ConnType
<1>2. \A v \in Seq(Msgs) : [r EXCEPT !.replay = v] \in ConnType BY Zenon DEF ConnType
<1>3. \A v \in Seq(Msgs) : [r EXCEPT !.got = v] \in ConnType BY Zenon DEF ConnType
<1>4. \A v \in Seq(Msgs) : [r EXCEPT !.down = v] \in ConnType BY Zenon DEF ConnType
<1>5. \A v \in SUBSET Msgs : [r EXCEPT !.handed = v] \in ConnType BY Zenon DEF ConnType
<1>6. \A v \in Seq(Datagram) : [r EXCEPT !.up = v] \in ConnType BY Zenon DEF ConnType, Datagram
<1> QED BY <1>1, <1>2, <1>3, <1>4, <1>5, <1>6, Zenon

LEMMA SetHandlerStep == ASSUME WsIInv, NEW c \in Conns, SetHandler(c) PROVE WsIInv'
<1> DEFINE r == conn[c]
           s == [r EXCEPT !.handler = TRUE, !.replay = r.buf, !.buf = <<>>]
           l == [conn EXCEPT ![c] = s]
<1>1. r \in ConnType /\ conn \in [Conns -> ConnType] /\ pending \in [Peers -> Seq(Msgs)]
  BY DEF WsIInv, WsTypeOK
<1>2. Changes(c, s) /\ ClientOnly /\ ~r.handler BY DEF SetHandler
<1> HIDE DEF r
<1>3. s \in ConnType
  <2> DEFINE s1 == [r EXCEPT !.handler = TRUE]
             s2 == [s1 EXCEPT !.replay = r.buf]
             s3 == [s2 EXCEPT !.buf = <<>>]
  <2>1. r.buf \in Seq(Msgs) /\ <<>> \in Seq(Msgs) BY <1>1 DEF ConnType
  <2>2. s1 \in ConnType BY <1>1, QuietFields, Zenon DEF Quiet
  <2>3. s = s3 OBVIOUS
  <2> HIDE DEF s1, s
  <2>4. s2 \in ConnType BY <2>1, <2>2, MessageFields, Zenon
  <2> HIDE DEF s2
  <2> QED BY <2>1, <2>3, <2>4, MessageFields, Zenon
<1>4. /\ s.peer = r.peer /\ s.sv = r.sv /\ s.overlapped = r.overlapped
      /\ s.up = r.up /\ s.down = r.down /\ s.got = r.got /\ s.buf = <<>> /\ s.replay = r.buf
      /\ s.handed = r.handed /\ s.handler
  BY <1>1 DEF ConnType
<1>5. Kept(s)
  <2>1. Kept(r) BY DEF WsIInv, r
  <2>2. Elements(<<>>) = {} BY DEF Elements
  <2> HIDE DEF s
  <2> QED BY <1>2, <1>4, <2>1, <2>2 DEF Kept
<1> HIDE DEF s
<1>6. Once(QueuesOf(l, pending), unsent)
  <2> DEFINE q == QueuesOf(conn, pending)
             t == QueuesOf(l, pending)
             a == <<"buf", c>>
             b == <<"replay", c>>
  <2>1. l \in [Conns -> ConnType] /\ l[c] = s /\ \A d \in Conns \ {c} : l[d] = conn[d]
    BY <1>1, <1>3
  <2> HIDE DEF l
  <2>2. q \in Queues /\ t \in Queues /\ Holds(q, c, conn[c]) /\ Holds(t, c, l[c]) /\ SameBut(q, t, c)
    BY <1>1, <2>1, OneConn
  <2>3. Holds(q, c, r) /\ Holds(t, c, s) BY <2>1, <2>2 DEF r
  <2>4. a \in Places /\ b \in Places /\ a # b BY PlacesAre, Zenon
  <2>5. Once(q, unsent) BY DEF WsIInv
  <2> HIDE DEF q, t
  <2>6. t[a] = <<>> /\ t[b] = q[a] BY <1>4, <2>3 DEF Holds
  <2>7. \A x \in Places \ {a, b} : t[x] = q[x] BY <1>4, <2>2, <2>3 DEF Holds, PlacesOf, SameBut
  <2> HIDE DEF a, b
  <2>8. Once(t, unsent) BY <2>2, <2>4, <2>5, <2>6, <2>7, Taken
  <2> QED BY <2>8 DEF t
<1>7. UNCHANGED <<kind, server, serverVars>> /\ unsent' = unsent /\ unsent' \in SUBSET Msgs
  BY <1>2 DEF ClientOnly, Config, WsIInv, WsTypeOK
<1> QED BY <1>2, <1>3, <1>4, <1>5, <1>6, <1>7, ClientStep DEF r

LEMMA ReplayStep == ASSUME WsIInv, NEW c \in Conns, Replay(c) PROVE WsIInv'
<1> DEFINE r == conn[c]
           m == Head(r.replay)
           s == [r EXCEPT !.replay = Tail(r.replay), !.got = Append(r.got, m)]
           l == [conn EXCEPT ![c] = s]
<1>1. r \in ConnType /\ conn \in [Conns -> ConnType] /\ pending \in [Peers -> Seq(Msgs)]
  BY DEF WsIInv, WsTypeOK
<1>2. Changes(c, s) /\ ClientOnly /\ r.replay # <<>> BY DEF Replay
<1>3. Kept(r) BY DEF WsIInv
<1> HIDE DEF r
<1>4. r.replay \in Seq(Msgs) /\ r.got \in Seq(Msgs) BY <1>1 DEF ConnType
<1>5. m \in Msgs /\ Tail(r.replay) \in Seq(Msgs) /\ Elements(r.replay) = {m} \cup Elements(Tail(r.replay))
  BY <1>2, <1>4, ElementsOf
<1> HIDE DEF m
<1>6. Append(r.got, m) \in Seq(Msgs) /\ Elements(Append(r.got, m)) = Elements(r.got) \cup {m}
  BY <1>4, <1>5, ElementsOf
<1>7. s \in ConnType
  <2> DEFINE s1 == [r EXCEPT !.replay = Tail(r.replay)]
             s2 == [s1 EXCEPT !.got = Append(r.got, m)]
  <2>1. s = s2 OBVIOUS
  <2>2. s1 \in ConnType BY <1>1, <1>5, MessageFields, Zenon
  <2> HIDE DEF s1, s
  <2> QED BY <1>6, <2>1, <2>2, MessageFields, Zenon
<1>8. /\ s.peer = r.peer /\ s.sv = r.sv /\ s.overlapped = r.overlapped
      /\ s.up = r.up /\ s.down = r.down /\ s.buf = r.buf
      /\ s.replay = Tail(r.replay) /\ s.got = Append(r.got, m)
      /\ s.handed = r.handed /\ s.handler = r.handler
  BY <1>1 DEF ConnType
<1> HIDE DEF s
<1>9. Kept(s) BY <1>2, <1>3, <1>5, <1>6, <1>8 DEF Kept
<1>10. Once(QueuesOf(l, pending), unsent)
  <2> DEFINE q == QueuesOf(conn, pending)
             t == QueuesOf(l, pending)
             a == <<"replay", c>>
             b == <<"got", c>>
  <2>1. l \in [Conns -> ConnType] /\ l[c] = s /\ \A d \in Conns \ {c} : l[d] = conn[d]
    BY <1>1, <1>7
  <2> HIDE DEF l
  <2>2. q \in Queues /\ t \in Queues /\ Holds(q, c, conn[c]) /\ Holds(t, c, l[c]) /\ SameBut(q, t, c)
    BY <1>1, <2>1, OneConn
  <2>3. Holds(q, c, r) /\ Holds(t, c, s) BY <2>1, <2>2 DEF r
  <2>4. a \in Places /\ b \in Places /\ a # b BY PlacesAre, Zenon
  <2>5. Once(q, unsent) BY DEF WsIInv
  <2> HIDE DEF q, t
  <2>6. q[a] # <<>> /\ t[a] = Tail(q[a]) /\ t[b] = Append(q[b], Head(q[a]))
    BY <1>2, <1>8, <2>3 DEF Holds, m
  <2>7. \A x \in Places \ {a, b} : t[x] = q[x] BY <1>8, <2>2, <2>3 DEF Holds, PlacesOf, SameBut
  <2> HIDE DEF a, b
  <2>8. Once(t, unsent) BY <2>2, <2>4, <2>5, <2>6, <2>7, Passed
  <2> QED BY <2>8 DEF t
<1>11. UNCHANGED <<kind, server, serverVars>> /\ unsent' = unsent /\ unsent' \in SUBSET Msgs
  BY <1>2 DEF ClientOnly, Config, WsIInv, WsTypeOK
<1> QED BY <1>2, <1>7, <1>8, <1>9, <1>10, <1>11, ClientStep DEF r

\* A message leaves the socket of a client; what becomes of it is one of three.
Taking(r) == [r EXCEPT !.down = Tail(r.down)]
Giving(r, m) == [r EXCEPT !.handed = r.handed \cup {m}, !.got = Append(r.got, m)]
Buffering(r, m) == [r EXCEPT !.handed = r.handed \cup {m}, !.buf = Append(r.buf, m)]

LEMMA TakingFields ==
    ASSUME NEW r \in ConnType, r.down # <<>>, NEW s, s = Taking(r)
    PROVE  /\ s \in ConnType /\ Head(r.down) \in Msgs
           /\ s.peer = r.peer /\ s.sv = r.sv /\ s.overlapped = r.overlapped
           /\ s.up = r.up /\ s.buf = r.buf /\ s.replay = r.replay /\ s.got = r.got
           /\ s.handed = r.handed /\ s.handler = r.handler /\ s.down = Tail(r.down)
<1>1. r.down \in Seq(Msgs) BY DEF ConnType
<1>2. Head(r.down) \in Msgs /\ Tail(r.down) \in Seq(Msgs) BY <1>1
<1>3. s \in ConnType BY <1>2, MessageFields, Zenon DEF Taking
<1> QED BY <1>2, <1>3, Zenon DEF Taking, ConnType

LEMMA GivingFields ==
    ASSUME NEW r \in ConnType, NEW m \in Msgs, Kept(r), NEW s, s = Giving(r, m)
    PROVE  /\ s \in ConnType /\ Kept(s)
           /\ s.peer = r.peer /\ s.sv = r.sv /\ s.overlapped = r.overlapped
           /\ s.up = r.up /\ s.down = r.down /\ s.buf = r.buf /\ s.replay = r.replay
           /\ s.got = Append(r.got, m)
<1>1. r.got \in Seq(Msgs) /\ r.handed \in SUBSET Msgs BY DEF ConnType
<1>2. Append(r.got, m) \in Seq(Msgs) /\ Elements(Append(r.got, m)) = Elements(r.got) \cup {m}
  BY <1>1, ElementsOf
<1> DEFINE u == [r EXCEPT !.handed = r.handed \cup {m}]
<1>3. u \in ConnType BY <1>1, MessageFields, Zenon
<1>4. s = [u EXCEPT !.got = Append(r.got, m)] BY DEF Giving
<1>5. s \in ConnType
  <2> HIDE DEF u
  <2> QED BY <1>2, <1>3, <1>4, MessageFields, ZenonT(30)
<1>6. /\ s.peer = r.peer /\ s.sv = r.sv /\ s.overlapped = r.overlapped
      /\ s.up = r.up /\ s.down = r.down /\ s.buf = r.buf /\ s.replay = r.replay
      /\ s.got = Append(r.got, m) /\ s.handed = r.handed \cup {m} /\ s.handler = r.handler
  BY DEF Giving, ConnType
<1>7. Kept(s) BY <1>2, <1>6 DEF Kept
<1> QED BY <1>5, <1>6, <1>7

LEMMA BufferingFields ==
    ASSUME NEW r \in ConnType, NEW m \in Msgs, Kept(r), NEW s, s = Buffering(r, m)
    PROVE  /\ s \in ConnType /\ Kept(s)
           /\ s.peer = r.peer /\ s.sv = r.sv /\ s.overlapped = r.overlapped
           /\ s.up = r.up /\ s.down = r.down /\ s.got = r.got /\ s.replay = r.replay
           /\ s.buf = Append(r.buf, m)
<1>1. r.buf \in Seq(Msgs) /\ r.handed \in SUBSET Msgs BY DEF ConnType
<1>2. Append(r.buf, m) \in Seq(Msgs) /\ Elements(Append(r.buf, m)) = Elements(r.buf) \cup {m}
  BY <1>1, ElementsOf
<1> DEFINE u == [r EXCEPT !.handed = r.handed \cup {m}]
<1>3. u \in ConnType BY <1>1, MessageFields, Zenon
<1>4. s = [u EXCEPT !.buf = Append(r.buf, m)] BY DEF Buffering
<1>5. s \in ConnType
  <2> HIDE DEF u
  <2> QED BY <1>2, <1>3, <1>4, MessageFields, ZenonT(30)
<1>6. /\ s.peer = r.peer /\ s.sv = r.sv /\ s.overlapped = r.overlapped
      /\ s.up = r.up /\ s.down = r.down /\ s.got = r.got /\ s.replay = r.replay
      /\ s.buf = Append(r.buf, m) /\ s.handed = r.handed \cup {m} /\ s.handler = r.handler
  BY DEF Buffering, ConnType
<1>7. Kept(s) BY <1>2, <1>6 DEF Kept
<1> QED BY <1>5, <1>6, <1>7

LEMMA OnMessageStep == ASSUME WsIInv, NEW c \in Conns, OnMessage(c) PROVE WsIInv'
<1> DEFINE r == conn[c]
           m == Head(r.down)
           rec == Taking(r)
           g == Giving(rec, m)
           f == Buffering(rec, m)
<1>1. r \in ConnType /\ conn \in [Conns -> ConnType] /\ pending \in [Peers -> Seq(Msgs)]
  BY DEF WsIInv, WsTypeOK
<1>2. r.down # <<>> /\ ClientOnly BY DEF OnMessage
<1>3. Changes(c, rec) \/ Changes(c, g) \/ Changes(c, f)
  <2>1. Changes(c, IF ~Held(c) THEN rec ELSE IF Dc(c) THEN DcDeliver(rec, m) ELSE JsDeliver(rec, m))
    BY DEF OnMessage, Taking
  <2> HIDE DEF rec, m
  <2> QED BY <2>1 DEF DcDeliver, JsDeliver, Giving, Buffering
<1>4. Kept(r) BY DEF WsIInv
<1> HIDE DEF r
<1>5. /\ rec \in ConnType /\ m \in Msgs
      /\ rec.peer = r.peer /\ rec.sv = r.sv /\ rec.overlapped = r.overlapped
      /\ rec.up = r.up /\ rec.buf = r.buf /\ rec.replay = r.replay /\ rec.got = r.got
      /\ rec.handed = r.handed /\ rec.handler = r.handler /\ rec.down = Tail(r.down)
  BY <1>1, <1>2, TakingFields
<1>6. Kept(rec) BY <1>4, <1>5 DEF Kept
<1> HIDE DEF rec
<1>7. UNCHANGED <<kind, server, serverVars>> /\ unsent' = unsent /\ unsent' \in SUBSET Msgs
  BY <1>2 DEF ClientOnly, Config, WsIInv, WsTypeOK
<1>8. ASSUME NEW s \in ConnType, s.up = r.up, s.replay = r.replay, s.down = Tail(r.down),
             \/ s.buf = r.buf /\ s.got = r.got
             \/ s.buf = r.buf /\ s.got = Append(r.got, m)
             \/ s.buf = Append(r.buf, m) /\ s.got = r.got
      PROVE  Once(QueuesOf([conn EXCEPT ![c] = s], pending), unsent)
  <2> DEFINE l == [conn EXCEPT ![c] = s]
             q == QueuesOf(conn, pending)
             t == QueuesOf(l, pending)
             a == <<"down", c>>
             b1 == <<"got", c>>
             b2 == <<"buf", c>>
  <2>1. l \in [Conns -> ConnType] /\ l[c] = s /\ \A d \in Conns \ {c} : l[d] = conn[d] BY <1>1
  <2> HIDE DEF l
  <2>2. q \in Queues /\ t \in Queues /\ Holds(q, c, conn[c]) /\ Holds(t, c, l[c]) /\ SameBut(q, t, c)
    BY <1>1, <2>1, OneConn
  <2>3. Holds(q, c, r) /\ Holds(t, c, s) BY <2>1, <2>2 DEF r
  <2>4. a \in Places /\ b1 \in Places /\ b2 \in Places /\ a # b1 /\ a # b2 BY PlacesAre, Zenon
  <2>5. Once(q, unsent) BY DEF WsIInv
  <2> HIDE DEF q, t
  <2>6. q[a] # <<>> /\ t[a] = Tail(q[a]) /\ m = Head(q[a]) BY <1>2, <1>8, <2>3 DEF Holds, m
  <2> HIDE DEF m
  <2>7. CASE s.buf = r.buf /\ s.got = r.got
    <3>1. \A x \in Places \ {a} : t[x] = q[x]
      BY <1>8, <2>2, <2>3, <2>7 DEF Holds, PlacesOf, SameBut
    <3> HIDE DEF a
    <3>2. \A x \in Places : Fewer(q[x], t[x]) BY <2>6, <3>1 DEF Fewer
    <3>3. Once(t, unsent) BY <2>2, <2>5, <3>2, Dropped
    <3> QED BY <3>3 DEF t, l
  <2>8. CASE s.buf = r.buf /\ s.got = Append(r.got, m)
    <3>1. \A x \in Places \ {a, b1} : t[x] = q[x]
      BY <1>8, <2>2, <2>3, <2>8, Zenon DEF Holds, PlacesOf, SameBut
    <3>2. t[b1] = Append(q[b1], Head(q[a])) BY <2>3, <2>6, <2>8 DEF Holds
    <3> HIDE DEF a, b1
    <3>3. Once(t, unsent) BY <2>2, <2>4, <2>5, <2>6, <3>1, <3>2, Passed
    <3> QED BY <3>3 DEF t, l
  <2>9. CASE s.buf = Append(r.buf, m) /\ s.got = r.got
    <3>1. \A x \in Places \ {a, b2} : t[x] = q[x]
      BY <1>8, <2>2, <2>3, <2>9, ZenonT(30) DEF Holds, PlacesOf, SameBut
    <3>2. t[b2] = Append(q[b2], Head(q[a])) BY <2>3, <2>6, <2>9 DEF Holds
    <3> HIDE DEF a, b2
    <3>3. Once(t, unsent) BY <2>2, <2>4, <2>5, <2>6, <3>1, <3>2, Passed
    <3> QED BY <3>3 DEF t, l
  <2> QED BY <1>8, <2>7, <2>8, <2>9
<1> HIDE DEF m
<1>9. CASE Changes(c, rec)
  <2>1. Once(QueuesOf([conn EXCEPT ![c] = rec], pending), unsent) BY <1>5, <1>8
  <2> QED BY <1>5, <1>6, <1>7, <1>9, <2>1, ClientStep DEF r
<1>10. CASE Changes(c, g)
  <2>1. /\ g \in ConnType /\ Kept(g)
        /\ g.peer = r.peer /\ g.sv = r.sv /\ g.overlapped = r.overlapped
        /\ g.up = r.up /\ g.down = Tail(r.down) /\ g.buf = r.buf /\ g.replay = r.replay
        /\ g.got = Append(r.got, m)
    BY <1>5, <1>6, GivingFields
  <2> HIDE DEF g
  <2>2. Once(QueuesOf([conn EXCEPT ![c] = g], pending), unsent) BY <1>8, <2>1
  <2> QED BY <1>7, <1>10, <2>1, <2>2, ClientStep DEF r
<1>11. CASE Changes(c, f)
  <2>1. /\ f \in ConnType /\ Kept(f)
        /\ f.peer = r.peer /\ f.sv = r.sv /\ f.overlapped = r.overlapped
        /\ f.up = r.up /\ f.down = Tail(r.down) /\ f.got = r.got /\ f.replay = r.replay
        /\ f.buf = Append(r.buf, m)
    BY <1>5, <1>6, BufferingFields
  <2> HIDE DEF f
  <2>2. Once(QueuesOf([conn EXCEPT ![c] = f], pending), unsent) BY <1>8, <2>1
  <2> QED BY <1>7, <1>11, <2>1, <2>2, ClientStep DEF r
<1> QED BY <1>3, <1>9, <1>10, <1>11

LEMMA SendStep == ASSUME WsIInv, NEW c \in Conns, NEW to \in Peers, NEW m \in Msgs, Send(c, to, m) PROVE WsIInv'
<1> DEFINE r == conn[c]
           e == [to |-> to, msg |-> m]
           s == [r EXCEPT !.up = Append(r.up, e)]
           l == [conn EXCEPT ![c] = s]
<1>1. r \in ConnType /\ conn \in [Conns -> ConnType] /\ pending \in [Peers -> Seq(Msgs)] /\ unsent \in SUBSET Msgs
  BY DEF WsIInv, WsTypeOK
<1>2. m \in unsent /\ unsent' = unsent \ {m} /\ UNCHANGED <<kind, server, serverVars>>
  BY DEF Send, Config
<1>3. Kept(r) BY DEF WsIInv
<1>4. CASE r.sock = "open"
  <2>1. Changes(c, s) BY <1>4 DEF Send, WsSend
  <2> HIDE DEF r
  <2>2. e \in Datagram /\ r.up \in Seq(Datagram) BY <1>1 DEF Datagram, ConnType
  <2>3. Messages(Append(r.up, e)) = Append(Messages(r.up), m) BY <2>2, MessagesOf
  <2> HIDE DEF e
  <2>4. Append(r.up, e) \in Seq(Datagram) BY <2>2
  <2>5. s \in ConnType BY <1>1, <2>4, MessageFields, Zenon
  <2>6. /\ s.peer = r.peer /\ s.sv = r.sv /\ s.overlapped = r.overlapped
        /\ s.buf = r.buf /\ s.down = r.down /\ s.got = r.got /\ s.replay = r.replay
        /\ s.handed = r.handed /\ s.handler = r.handler /\ s.up = Append(r.up, e)
    BY <1>1 DEF ConnType
  <2> HIDE DEF s
  <2>7. Kept(s) BY <1>3, <2>6 DEF Kept
  <2>8. Once(QueuesOf(l, pending), unsent \ {m})
    <3> DEFINE q == QueuesOf(conn, pending)
               t == QueuesOf(l, pending)
               b == <<"up", c>>
    <3>1. l \in [Conns -> ConnType] /\ l[c] = s /\ \A d \in Conns \ {c} : l[d] = conn[d]
      BY <1>1, <2>5
    <3> HIDE DEF l
    <3>2. q \in Queues /\ t \in Queues /\ Holds(q, c, conn[c]) /\ Holds(t, c, l[c]) /\ SameBut(q, t, c)
      BY <1>1, <3>1, OneConn, Zenon
    <3>3. Holds(q, c, r) /\ Holds(t, c, s) BY <3>1, <3>2 DEF r
    <3>4. b \in Places BY PlacesAre, Zenon
    <3>5. Once(q, unsent) BY DEF WsIInv
    <3> HIDE DEF q, t
    <3>6. t[b] = Append(q[b], m) BY <2>3, <2>6, <3>3 DEF Holds
    <3>7. \A x \in Places \ {b} : t[x] = q[x]
      BY <2>6, <3>2, <3>3, ZenonT(30) DEF Holds, PlacesOf, SameBut
    <3> HIDE DEF b
    <3>8. Once(t, unsent \ {m}) BY <1>2, <3>2, <3>4, <3>5, <3>6, <3>7, Entered
    <3> QED BY <3>8 DEF t
  <2>9. unsent' \in SUBSET Msgs BY <1>1, <1>2
  <2> QED BY <1>2, <2>1, <2>5, <2>6, <2>7, <2>8, <2>9, ClientStep, Zenon DEF r
<1>5. CASE r.sock # "open"
  <2>1. conn' = conn /\ pending' = pending /\ reg' = reg BY <1>2, <1>5 DEF Send, serverVars
  <2>2. Once(QueuesOf(conn, pending), unsent \ {m}) BY Spent, Zenon DEF WsIInv
  <2>3. WsTypeOK' BY <1>1, <1>2, <2>1 DEF WsIInv, WsTypeOK, serverVars
  <2> QED BY <1>2, <2>1, <2>2, <2>3 DEF WsIInv
<1> QED BY <1>4, <1>5

LEMMA NoConnTyped == NoConn \in ConnType
<1>1. <<>> \in Seq(Msgs) /\ <<>> \in Seq([to : Peers, msg : Msgs]) /\ {} \in SUBSET Msgs OBVIOUS
<1> QED BY <1>1 DEF NoConn, ConnType

LEMMA JoinStep == ASSUME WsIInv, NEW p \in Peers, Join(p) PROVE WsIInv'
<1> DEFINE s == [NoConn EXCEPT !.peer = p, !.sock = "connecting"]
<1>1. PICK c \in Conns : conn[c].peer = None /\ Changes(c, s) BY DEF Join, Connect, Unused
<1>2. UNCHANGED <<kind, server, serverVars>> /\ unsent' = unsent BY DEF Join, ClientOnly, Config
<1>3. conn \in [Conns -> ConnType] /\ pending \in [Peers -> Seq(Msgs)] /\ reg \in [Peers -> Conns \cup {None}]
  BY DEF WsIInv, WsTypeOK
<1>4. s \in ConnType
  <2> DEFINE u == [NoConn EXCEPT !.peer = p]
  <2>1. NoConn \in ConnType BY NoConnTyped
  <2>2. u \in ConnType BY <2>1, Zenon DEF ConnType
  <2>3. s = [u EXCEPT !.sock = "connecting"] OBVIOUS
  <2> HIDE DEF u, s
  <2> QED BY <2>2, <2>3, QuietFields, Zenon DEF Quiet
<1>5. /\ s.up = <<>> /\ s.down = <<>> /\ s.buf = <<>> /\ s.replay = <<>> /\ s.got = <<>> /\ s.handed = {}
      /\ s.sv = "none"
  BY DEF NoConn
<1> HIDE DEF s
<1>6. conn' \in [Conns -> ConnType] /\ conn'[c] = s /\ \A d \in Conns \ {c} : conn'[d] = conn[d]
  BY <1>1, <1>3, <1>4 DEF Changes
<1>7. pending' = pending /\ reg' = reg BY <1>2 DEF serverVars
<1>8. WsTypeOK' BY <1>2, <1>6 DEF WsIInv, WsTypeOK, serverVars
<1>9. Once(QueuesOf(conn', pending'), unsent')
  <2>1. \A d \in Conns : FewerAt(conn[d], conn'[d]) BY <1>5, <1>6 DEF FewerAt, Fewer
  <2>2. \A u \in Peers : Fewer(pending[u], pending[u]) BY DEF Fewer
  <2>3. Once(QueuesOf(conn, pending), unsent) BY DEF WsIInv
  <2>4. Once(QueuesOf(conn', pending), unsent)
    BY <1>3, <1>6, <2>1, <2>2, <2>3, ConnsDropped, Zenon
  <2> QED BY <1>2, <1>7, <2>4
<1>10. ASSUME NEW d \in Conns PROVE Kept(conn'[d])
  <2>1. Kept(s) BY <1>5 DEF Kept, Elements
  <2> QED BY <1>6, <2>1 DEF WsIInv
<1>11. Registered(conn', reg)
  <2>1. Registered(conn, reg) BY DEF WsIInv
  <2>2. conn[c].sv # "open" BY <1>1, <2>1 DEF Registered
  <2>3. \A u \in Peers : reg[u] # c BY <1>1, <2>1, <2>2, WsSigAssumption DEF Registered
  <2>4. \A d \in Conns : conn'[d].sv = "open" => d # c /\ conn'[d] = conn[d] BY <1>5, <1>6
  <2>5. \A u \in Peers : reg[u] # None => conn'[reg[u]] = conn[reg[u]] BY <1>3, <1>6, <2>3
  <2> QED BY <2>1, <2>4, <2>5 DEF Registered
<1> QED BY <1>7, <1>8, <1>9, <1>10, <1>11 DEF WsIInv

-----------------------------------------------------------------------------
\* The servers' steps

LEMMA TtlExpiresStep == ASSUME WsIInv, NEW p \in Peers, TtlExpires(p) PROVE WsIInv'
<1>1. conn \in [Conns -> ConnType] /\ pending \in [Peers -> Seq(Msgs)] /\ timers \in [Peers -> Nat]
  BY DEF WsIInv, WsTypeOK
<1>2. UNCHANGED <<kind, server, reg, tracked, conn, unsent>> BY DEF TtlExpires, Config
<1>3. pending' \in [Peers -> Seq(Msgs)] /\ \A u \in Peers : Fewer(pending[u], pending'[u])
  BY <1>1 DEF TtlExpires, Fewer
<1>4. timers' \in [Peers -> Nat]
  <2>1. timers[p] \in Nat /\ timers[p] > 0 BY <1>1 DEF TtlExpires
  <2>2. timers[p] - 1 \in Nat BY <2>1
  <2> QED BY <1>1, <2>2 DEF TtlExpires
<1>5. WsTypeOK' BY <1>2, <1>3, <1>4 DEF WsIInv, WsTypeOK
<1>6. Once(QueuesOf(conn, pending'), unsent)
  <2>1. \A c \in Conns : FewerAt(conn[c], conn[c]) BY DEF FewerAt, Fewer
  <2>2. Once(QueuesOf(conn, pending), unsent) BY DEF WsIInv
  <2> QED BY <1>1, <1>3, <2>1, <2>2, ConnsDropped, Zenon
<1> QED BY <1>2, <1>5, <1>6 DEF WsIInv

LEMMA ServerOnClosedStep ==
    ASSUME WsIInv, NEW c \in Conns, conn[c].peer # None, ServerOnClosed(c) PROVE WsIInv'
<1> DEFINE r == conn[c]
           s == [r EXCEPT !.sv = "closed", !.up = <<>>, !.down = <<>>]
           p == r.peer
<1>1. /\ r \in ConnType /\ p \in Peers /\ conn \in [Conns -> ConnType] /\ pending \in [Peers -> Seq(Msgs)]
      /\ reg \in [Peers -> Conns \cup {None}] /\ tracked \in [Peers -> Conns \cup {None}]
  BY Zenon DEF WsIInv, WsTypeOK, ConnType
<1>2. /\ Changes(c, s) /\ r.sv = "open" /\ reg' = [reg EXCEPT ![p] = None]
      /\ tracked' = [tracked EXCEPT ![p] = None] \/ tracked' = tracked
      /\ UNCHANGED <<kind, server, pending, timers, unsent>>
  BY DEF ServerOnClosed, DcClosed, NodeClosed, Config
<1>3. Kept(r) BY DEF WsIInv
<1> HIDE DEF r
<1>4. s \in ConnType
  <2> DEFINE s1 == [r EXCEPT !.sv = "closed"]
             s2 == [s1 EXCEPT !.up = <<>>]
             s3 == [s2 EXCEPT !.down = <<>>]
  <2>1. s = s3 OBVIOUS
  <2>2. s1 \in ConnType BY <1>1, Zenon DEF ConnType
  <2>3. <<>> \in Seq(Datagram) /\ <<>> \in Seq(Msgs) OBVIOUS
  <2> HIDE DEF s1, s
  <2>4. s2 \in ConnType BY <2>2, <2>3, MessageFields, Zenon
  <2> HIDE DEF s2
  <2> QED BY <2>1, <2>3, <2>4, MessageFields, Zenon
<1>5. /\ s.peer = r.peer /\ s.sv = "closed" /\ s.overlapped = r.overlapped
      /\ s.up = <<>> /\ s.down = <<>> /\ s.buf = r.buf /\ s.replay = r.replay /\ s.got = r.got
      /\ s.handed = r.handed /\ s.handler = r.handler
  BY <1>1 DEF ConnType
<1> HIDE DEF s
<1>6. conn' \in [Conns -> ConnType] /\ conn'[c] = s /\ \A d \in Conns \ {c} : conn'[d] = conn[d]
  BY <1>1, <1>2, <1>4 DEF Changes
<1>7. WsTypeOK' BY <1>1, <1>2, <1>6 DEF WsIInv, WsTypeOK
<1>8. Once(QueuesOf(conn', pending'), unsent')
  <2>1. FewerAt(r, s) BY <1>5 DEF FewerAt, Fewer
  <2>2. \A d \in Conns : FewerAt(conn[d], conn'[d]) BY <1>6, <2>1 DEF FewerAt, Fewer, r
  <2>3. \A u \in Peers : Fewer(pending[u], pending[u]) BY DEF Fewer
  <2>4. Once(QueuesOf(conn, pending), unsent) BY DEF WsIInv
  <2>5. Once(QueuesOf(conn', pending), unsent)
    BY <1>1, <1>6, <2>2, <2>3, <2>4, ConnsDropped, Zenon
  <2> QED BY <1>2, <2>5
<1>9. ASSUME NEW d \in Conns PROVE Kept(conn'[d])
  <2>1. Kept(s) BY <1>3, <1>5 DEF Kept
  <2> QED BY <1>6, <2>1 DEF WsIInv
<1>10. Registered(conn', reg')
  <2>1. Registered(conn, reg) BY DEF WsIInv
  <2>2. \A d \in Conns : conn'[d].sv = "open" => d # c /\ conn'[d] = conn[d] BY <1>5, <1>6
  <2>3. ASSUME NEW d \in Conns, conn'[d].sv = "open", ~conn'[d].overlapped PROVE reg'[conn'[d].peer] = d
    <3>1. d # c /\ conn'[d] = conn[d] BY <2>2, <2>3
    <3>2. conn[d].peer # p BY <1>2, <2>1, <2>3, <3>1 DEF Registered, r
    <3>3. conn[d].peer \in Peers
      <4>1. conn[d] \in ConnType BY <1>1
      <4>2. conn[d].peer \in Peers \cup {None} BY <4>1 DEF ConnType
      <4>3. conn[d].peer # None BY <2>1, <2>3, <3>1 DEF Registered
      <4> QED BY <4>2, <4>3
    <3>4. reg[conn[d].peer] = d BY <2>1, <2>3, <3>1 DEF Registered
    <3> QED BY <1>1, <1>2, <3>1, <3>2, <3>3, <3>4
  <2>4. ASSUME NEW u \in Peers, reg'[u] # None PROVE conn'[reg'[u]].sv = "open" /\ conn'[reg'[u]].peer = u
    <3>1. u # p /\ reg'[u] = reg[u] BY <1>1, <1>2, <2>4
    <3>2. reg[u] \in Conns /\ conn[reg[u]].sv = "open" /\ conn[reg[u]].peer = u
      BY <1>1, <2>1, <2>4, <3>1 DEF Registered
    <3>3. reg[u] # c BY <3>1, <3>2 DEF r
    <3> QED BY <1>6, <3>1, <3>2, <3>3
  <2> QED BY <2>1, <2>2, <2>3, <2>4 DEF Registered
<1> QED BY <1>7, <1>8, <1>9, <1>10 DEF WsIInv

LEMMA AcceptStep == ASSUME WsIInv, NEW c \in Conns, conn[c].peer # None, Accept(c) PROVE WsIInv'
<1> DEFINE r == conn[c]
           p == r.peer
           o == OthersOpen(c)
           v == pending[p]
           s1 == [r EXCEPT !.sv = "open"]
           s2 == [s1 EXCEPT !.overlapped = o # {}]
           s == [s2 EXCEPT !.down = v]
<1>1. /\ r \in ConnType /\ p \in Peers /\ conn \in [Conns -> ConnType] /\ pending \in [Peers -> Seq(Msgs)]
      /\ reg \in [Peers -> Conns \cup {None}] /\ tracked \in [Peers -> Conns \cup {None}]
  BY Zenon DEF WsIInv, WsTypeOK, ConnType
<1>2. /\ conn' = [d \in Conns |-> IF d = c THEN s ELSE IF d \in o THEN [conn[d] EXCEPT !.overlapped = TRUE] ELSE conn[d]]
      /\ reg' = [reg EXCEPT ![p] = c] /\ tracked' \in {[tracked EXCEPT ![p] = c], tracked}
      /\ pending' = [pending EXCEPT ![p] = <<>>] /\ UNCHANGED <<kind, server, timers, unsent>>
      /\ r.sv = "none"
  BY Zenon DEF Accept, DcConnect, NodeConnect, FlushPending, Config
<1>3. o = {d \in Conns \ {c} : conn[d].peer = p /\ conn[d].sv = "open"} BY DEF OthersOpen
<1>4. v \in Seq(Msgs) BY <1>1
<1>5. Kept(r) BY DEF WsIInv
<1>6. Registered(conn, reg) BY DEF WsIInv
<1> HIDE DEF r, o, v
<1>7. s \in ConnType
  <2>1. s1 \in ConnType BY <1>1, Zenon DEF ConnType
  <2> HIDE DEF s1
  <2>2. s2 \in ConnType BY <2>1, Zenon DEF ConnType
  <2> HIDE DEF s2
  <2> QED BY <1>4, <2>2, MessageFields, Zenon
<1>8. /\ s.peer = p /\ s.sv = "open" /\ s.overlapped = (o # {}) /\ s.down = v
      /\ s.up = r.up /\ s.buf = r.buf /\ s.replay = r.replay /\ s.got = r.got
      /\ s.handed = r.handed /\ s.handler = r.handler
  BY <1>1 DEF ConnType
<1> HIDE DEF s, p
<1>9. ASSUME NEW d \in Conns, d # c
      PROVE  /\ conn'[d] \in ConnType
             /\ conn'[d].peer = conn[d].peer /\ conn'[d].sv = conn[d].sv
             /\ conn'[d].overlapped = (conn[d].overlapped \/ d \in o)
             /\ conn'[d].up = conn[d].up /\ conn'[d].down = conn[d].down /\ conn'[d].buf = conn[d].buf
             /\ conn'[d].replay = conn[d].replay /\ conn'[d].got = conn[d].got
             /\ conn'[d].handed = conn[d].handed /\ conn'[d].handler = conn[d].handler
  <2>1. conn[d] \in ConnType /\ conn[d].overlapped \in BOOLEAN BY <1>1, Zenon DEF ConnType
  <2>2. CASE d \in o
    <3>1. conn'[d] = [conn[d] EXCEPT !.overlapped = TRUE] BY <1>2, <1>9, <2>2
    <3>2. [conn[d] EXCEPT !.overlapped = TRUE] \in ConnType BY <2>1, Zenon DEF ConnType
    <3> QED BY <2>1, <2>2, <3>1, <3>2, ZenonT(30) DEF ConnType
  <2>3. CASE d \notin o
    <3>1. conn'[d] = conn[d] BY <1>2, <1>9, <2>3
    <3> QED BY <2>1, <2>3, <3>1
  <2> QED BY <2>2, <2>3
<1>10. conn'[c] = s BY <1>2
<1>11. conn' \in [Conns -> ConnType]
  <2>1. \A d \in Conns : conn'[d] \in ConnType BY <1>7, <1>9, <1>10
  <2>2. conn' = [d \in Conns |-> conn'[d]] BY <1>2
  <2> QED BY <2>1, <2>2
<1>12. WsTypeOK'
  <2>1. reg' \in [Peers -> Conns \cup {None}] /\ tracked' \in [Peers -> Conns \cup {None}]
    BY <1>1, <1>2
  <2>2. pending' \in [Peers -> Seq(Msgs)] BY <1>1, <1>2
  <2> QED BY <1>2, <1>11, <2>1, <2>2 DEF WsIInv, WsTypeOK
<1>13. Once(QueuesOf(conn', pending'), unsent')
  <2> DEFINE q == QueuesOf(conn, pending)
             t == QueuesOf(conn', pending')
             a == <<"pending", p>>
             b == <<"down", c>>
  <2>1. q \in Queues /\ (\A d \in Conns : Holds(q, d, conn[d])) /\ \A u \in Peers : q[<<"pending", u>>] = pending[u]
    BY <1>1, QueuesAt, ZenonT(30) DEF Holds
  <2>2. pending' \in [Peers -> Seq(Msgs)] BY <1>12 DEF WsTypeOK
  <2>3. t \in Queues /\ (\A d \in Conns : Holds(t, d, conn'[d])) /\ \A u \in Peers : t[<<"pending", u>>] = pending'[u]
    BY <1>11, <2>2, QueuesAt, ZenonT(30) DEF Holds
  <2>4. Once(q, unsent) BY DEF WsIInv
  <2>5. a \in Places /\ b \in Places /\ a # b BY <1>1, PlacesAre, Zenon
  <2> HIDE DEF q, t
  <2>6. t[a] = <<>> /\ t[b] = q[a] BY <1>1, <1>2, <1>8, <1>10, <2>1, <2>3, Zenon DEF Holds, v
  <2>7. ASSUME NEW x \in Places \ {a, b} PROVE t[x] = q[x]
    <3>1. ASSUME NEW u \in Peers, x = <<"pending", u>> PROVE t[x] = q[x]
      <4>1. u # p BY <2>7, <3>1
      <4>2. pending'[u] = pending[u] BY <1>1, <1>2, <4>1
      <4> QED BY <2>1, <2>3, <3>1, <4>2
    <3>2. ASSUME NEW d \in Conns, x \in PlacesOf(d) PROVE t[x] = q[x]
      <4>1. Holds(q, d, conn[d]) /\ Holds(t, d, conn'[d]) BY <2>1, <2>3
      <4>2. CASE d = c
        <5>1. Holds(q, c, r) /\ Holds(t, c, s) BY <1>10, <4>1, <4>2 DEF r
        <5> QED BY <1>8, <2>7, <3>2, <4>2, <5>1 DEF Holds, PlacesOf
      <4>3. CASE d # c BY <1>9, <3>2, <4>1, <4>3 DEF Holds, PlacesOf
      <4> QED BY <4>2, <4>3
    <3> QED BY <3>1, <3>2, PlacesAre DEF PlacesOf
  <2> HIDE DEF a, b
  <2>8. Once(t, unsent) BY <2>1, <2>3, <2>4, <2>5, <2>6, <2>7, Taken
  <2> QED BY <1>2, <2>8 DEF t
<1>14. ASSUME NEW d \in Conns PROVE Kept(conn'[d])
  <2>1. Kept(s) BY <1>5, <1>8 DEF Kept
  <2>2. Kept(conn[d]) BY DEF WsIInv
  <2>3. CASE d # c BY <1>9, <2>2, <2>3 DEF Kept
  <2> QED BY <1>10, <2>1, <2>3
<1>15. Registered(conn', reg')
  <2>1. \A d \in Conns : conn'[d].sv = "open" => conn'[d].peer # None
    <3>1. p # None BY <1>1, WsSigAssumption
    <3> QED BY <1>6, <1>8, <1>9, <1>10, <3>1 DEF Registered
  <2>2. ASSUME NEW d \in Conns, NEW e \in Conns, d # e, conn'[d].sv = "open", conn'[e].sv = "open",
               conn'[d].peer = conn'[e].peer
        PROVE  conn'[d].overlapped
    <3>1. CASE d = c
      <4>1. e \in o BY <1>3, <1>8, <1>9, <1>10, <2>2, <3>1
      <4> QED BY <1>8, <1>10, <3>1, <4>1, Zenon
    <3>2. CASE e = c
      <4>1. d \in o BY <1>3, <1>8, <1>9, <1>10, <2>2, <3>2
      <4> QED BY <1>9, <2>2, <3>2, <4>1, Zenon
    <3>3. CASE d # c /\ e # c
      <4>1. /\ conn[d].sv = "open" /\ conn[e].sv = "open" /\ conn[d].peer = conn[e].peer
            /\ conn'[d].overlapped = (conn[d].overlapped \/ d \in o)
        BY <1>9, <2>2, <3>3
      <4>2. conn[d].overlapped BY <1>6, <2>2, <4>1 DEF Registered
      <4> QED BY <4>1, <4>2, Zenon
    <3> QED BY <3>1, <3>2, <3>3
  <2>3. ASSUME NEW d \in Conns, conn'[d].sv = "open", ~conn'[d].overlapped PROVE reg'[conn'[d].peer] = d
    <3>1. CASE d = c BY <1>1, <1>2, <1>8, <1>10, <3>1
    <3>2. CASE d # c
      <4>1. conn[d].sv = "open" /\ ~conn[d].overlapped /\ d \notin o /\ conn'[d].peer = conn[d].peer
        BY <1>9, <2>3, <3>2, Zenon
      <4>2. conn[d].peer # p BY <1>3, <3>2, <4>1
      <4>3. conn[d].peer \in Peers
        <5>1. conn[d].peer \in Peers \cup {None} BY <1>1 DEF ConnType
        <5> QED BY <1>6, <4>1, <5>1 DEF Registered
      <4>4. reg[conn[d].peer] = d BY <1>6, <4>1 DEF Registered
      <4> QED BY <1>1, <1>2, <4>1, <4>2, <4>3, <4>4
    <3> QED BY <3>1, <3>2
  <2>4. ASSUME NEW u \in Peers, reg'[u] # None PROVE conn'[reg'[u]].sv = "open" /\ conn'[reg'[u]].peer = u
    <3>1. CASE u = p BY <1>1, <1>2, <1>8, <1>10, <3>1
    <3>2. CASE u # p
      <4>1. reg'[u] = reg[u] BY <1>1, <1>2, <3>2
      <4>2. reg[u] \in Conns BY <1>1, <2>4, <4>1
      <4>3. conn[reg[u]].sv = "open" /\ conn[reg[u]].peer = u BY <1>6, <2>4, <4>1 DEF Registered
      <4>4. reg[u] # c BY <1>2, <4>3 DEF r
      <4> QED BY <1>9, <4>1, <4>2, <4>3, <4>4
    <3> QED BY <3>1, <3>2
  <2> QED BY <2>1, <2>2, <2>3, <2>4 DEF Registered
<1> QED BY <1>12, <1>13, <1>14, <1>15 DEF WsIInv

\* Only the messages on their way from and to clients differ.
Traffic(k, l) ==
    \A d \in Conns :
        /\ l[d].peer = k[d].peer /\ l[d].sv = k[d].sv /\ l[d].overlapped = k[d].overlapped
        /\ l[d].buf = k[d].buf /\ l[d].replay = k[d].replay /\ l[d].got = k[d].got
        /\ l[d].handed = k[d].handed /\ l[d].handler = k[d].handler

UpBecomes(k, c, v, l) == v \in Seq(Datagram) /\ l = [k EXCEPT ![c].up = v]
DownBecomes(k, c, v, l) == l = [k EXCEPT ![c].down = v]

LEMMA UpChanges ==
    ASSUME NEW k \in [Conns -> ConnType], NEW c \in Conns, NEW v, NEW l, UpBecomes(k, c, v, l)
    PROVE  /\ l \in [Conns -> ConnType] /\ Traffic(k, l) /\ l[c].up = v
           /\ \A d \in Conns : l[d].down = k[d].down /\ (d # c => l[d].up = k[d].up)
<1> DEFINE s == [k[c] EXCEPT !.up = v]
<1>1. k[c] \in ConnType OBVIOUS
<1>2. s \in ConnType BY <1>1, MessageFields DEF UpBecomes
<1>3. /\ s.peer = k[c].peer /\ s.sv = k[c].sv /\ s.overlapped = k[c].overlapped /\ s.buf = k[c].buf
      /\ s.replay = k[c].replay /\ s.got = k[c].got /\ s.handed = k[c].handed /\ s.handler = k[c].handler
      /\ s.down = k[c].down /\ s.up = v
  BY <1>1 DEF ConnType
<1>4. l[c] = s /\ \A d \in Conns \ {c} : l[d] = k[d] BY DEF UpBecomes
<1>5. l = [k EXCEPT ![c] = s] BY DEF UpBecomes
<1> HIDE DEF s
<1>6. l \in [Conns -> ConnType] BY <1>2, <1>5
<1> QED BY <1>3, <1>4, <1>6 DEF Traffic

LEMMA DownChanges ==
    ASSUME NEW k \in [Conns -> ConnType], NEW c \in Conns, NEW v \in Seq(Msgs), NEW l, DownBecomes(k, c, v, l)
    PROVE  /\ l \in [Conns -> ConnType] /\ Traffic(k, l) /\ l[c].down = v
           /\ \A d \in Conns : l[d].up = k[d].up /\ (d # c => l[d].down = k[d].down)
<1> DEFINE s == [k[c] EXCEPT !.down = v]
<1>1. k[c] \in ConnType OBVIOUS
<1>2. s \in ConnType BY <1>1, MessageFields, Zenon
<1>3. /\ s.peer = k[c].peer /\ s.sv = k[c].sv /\ s.overlapped = k[c].overlapped /\ s.buf = k[c].buf
      /\ s.replay = k[c].replay /\ s.got = k[c].got /\ s.handed = k[c].handed /\ s.handler = k[c].handler
      /\ s.up = k[c].up /\ s.down = v
  BY <1>1 DEF ConnType
<1>4. l[c] = s /\ \A d \in Conns \ {c} : l[d] = k[d] BY DEF DownBecomes
<1>5. l = [k EXCEPT ![c] = s] BY DEF DownBecomes
<1> HIDE DEF s
<1>6. l \in [Conns -> ConnType] BY <1>2, <1>5
<1> QED BY <1>3, <1>4, <1>6 DEF Traffic

LEMMA RelayStep == ASSUME WsIInv, NEW c \in Conns, Relay(c) PROVE WsIInv'
<1> DEFINE e == Head(conn[c].up)
           p == e.to
           m == e.msg
           rest == [conn EXCEPT ![c].up = Tail(conn[c].up)]
<1>1. /\ conn \in [Conns -> ConnType] /\ pending \in [Peers -> Seq(Msgs)] /\ timers \in [Peers -> Nat]
      /\ reg \in [Peers -> Conns \cup {None}]
  BY DEF WsIInv, WsTypeOK
<1>2. /\ conn[c].up # <<>> /\ conn' = IF reg[p] # None THEN Forward(rest, reg[p], m) ELSE rest
      /\ UNCHANGED <<kind, server, reg, tracked, unsent>>
  BY DEF Relay, Config
<1>3. /\ reg[p] # None => UNCHANGED <<pending, timers>>
      /\ reg[p] = None => EnqueuePending(p, m) \/ UNCHANGED <<pending, timers>>
  BY DEF Relay, NodeRelay
<1>4. conn[c].up \in Seq(Datagram) BY <1>1, Zenon DEF ConnType, Datagram
<1>5. e \in Datagram /\ Tail(conn[c].up) \in Seq(Datagram) BY <1>2, <1>4
<1>6. p \in Peers /\ m \in Msgs BY <1>5 DEF Datagram
<1>7. Head(Messages(conn[c].up)) = m /\ Messages(conn[c].up) # <<>>
      /\ Messages(Tail(conn[c].up)) = Tail(Messages(conn[c].up))
  BY <1>2, <1>4, MessagesOf
<1> HIDE DEF p, m
<1>8. /\ rest \in [Conns -> ConnType] /\ Traffic(conn, rest) /\ rest[c].up = Tail(conn[c].up)
      /\ \A d \in Conns : rest[d].down = conn[d].down /\ (d # c => rest[d].up = conn[d].up)
  <2>1. PICK v \in Seq(Datagram) : v = Tail(conn[c].up) BY <1>5, Zenon
  <2>2. UpBecomes(conn, c, v, rest) BY <2>1 DEF UpBecomes
  <2> HIDE DEF rest
  <2>3. /\ rest \in [Conns -> ConnType] /\ Traffic(conn, rest) /\ rest[c].up = v
        /\ \A d \in Conns : rest[d].down = conn[d].down /\ (d # c => rest[d].up = conn[d].up)
    <3>1. conn \in [Conns -> ConnType] BY <1>1
    <3>2. rest \in [Conns -> ConnType] BY <2>2, <3>1, UpChanges
    <3>3. Traffic(conn, rest) BY <2>2, <3>1, UpChanges
    <3>4. rest[c].up = v BY <2>2, <3>1, UpChanges
    <3>5. \A d \in Conns : rest[d].down = conn[d].down /\ (d # c => rest[d].up = conn[d].up)
      BY <2>2, <3>1, UpChanges
    <3> QED BY <3>2, <3>3, <3>4, <3>5
  <2> QED BY <2>1, <2>3
<1> HIDE DEF rest, e
<1>9. ASSUME conn' \in [Conns -> ConnType], Traffic(conn, conn'), pending' \in [Peers -> Seq(Msgs)],
             timers' \in [Peers -> Nat], Once(QueuesOf(conn', pending'), unsent)
      PROVE  WsIInv'
  <2>1. WsTypeOK' BY <1>2, <1>9 DEF WsIInv, WsTypeOK
  <2>2. ASSUME NEW d \in Conns PROVE Kept(conn'[d])
    <3>1. Kept(conn[d]) BY DEF WsIInv
    <3> QED BY <1>9, <3>1 DEF Kept, Traffic
  <2>3. Registered(conn', reg)
    <3>1. Registered(conn, reg) BY DEF WsIInv
    <3>2. SameEnds(conn, conn') BY <1>9 DEF SameEnds, Traffic
    <3> QED BY <1>1, <3>1, <3>2, RegisteredKept
  <2> QED BY <1>2, <1>9, <2>1, <2>2, <2>3 DEF WsIInv
<1> DEFINE q == QueuesOf(conn, pending)
           t == QueuesOf(conn', pending')
           a == <<"up", c>>
<1>10. q \in Queues /\ (\A d \in Conns : Holds(q, d, conn[d])) /\ \A u \in Peers : q[<<"pending", u>>] = pending[u]
  BY <1>1, QueuesAt, ZenonT(30) DEF Holds
<1>11. Once(q, unsent) BY DEF WsIInv
<1>12. ASSUME conn' \in [Conns -> ConnType], pending' \in [Peers -> Seq(Msgs)]
       PROVE  t \in Queues /\ (\A d \in Conns : Holds(t, d, conn'[d])) /\ \A u \in Peers : t[<<"pending", u>>] = pending'[u]
  BY <1>12, QueuesAt DEF Holds
<1>13. a \in Places BY PlacesAre, Zenon
<1> HIDE DEF q, t
<1>14. CASE reg[p] # None
  <2>1. PICK f \in Conns : f = reg[p] BY <1>1, <1>6, <1>14
  <2> DEFINE b == <<"down", f>>
             w == Append(rest[f].down, m)
  <2>2. rest[f].down \in Seq(Msgs) /\ rest[f].down = conn[f].down BY <1>8 DEF ConnType
  <2>3. w \in Seq(Msgs) BY <1>6, <2>2
  <2>4. DownBecomes(rest, f, w, conn') /\ pending' = pending /\ timers' = timers
    BY <1>2, <1>3, <1>14, <2>1 DEF Forward, DownBecomes
  <2> HIDE DEF w
  <2>5. /\ conn' \in [Conns -> ConnType] /\ Traffic(rest, conn') /\ conn'[f].down = w
        /\ \A d \in Conns : conn'[d].up = rest[d].up /\ (d # f => conn'[d].down = rest[d].down)
    BY <1>8, <2>3, <2>4, DownChanges
  <2>6. Traffic(conn, conn') BY <1>8, <2>5 DEF Traffic
  <2>7. t \in Queues /\ (\A d \in Conns : Holds(t, d, conn'[d])) /\ \A u \in Peers : t[<<"pending", u>>] = pending[u]
    BY <1>1, <1>12, <2>4, <2>5
  <2>8. b \in Places /\ a # b BY PlacesAre, Zenon
  <2>9. q[a] # <<>> /\ t[a] = Tail(q[a]) /\ Head(q[a]) = m
    <3>1. q[a] = Messages(conn[c].up) /\ t[a] = Messages(conn'[c].up)
      BY <1>10, <2>7, Zenon DEF Holds
    <3>2. conn'[c].up = Tail(conn[c].up) BY <1>8, <2>5
    <3> QED BY <1>7, <3>1, <3>2
  <2>10. t[b] = Append(q[b], m)
    <3>1. q[b] = conn[f].down /\ t[b] = conn'[f].down BY <1>10, <2>7, ZenonT(30) DEF Holds
    <3> QED BY <2>2, <2>5, <3>1 DEF w
  <2>11. ASSUME NEW x \in Places \ {a, b} PROVE t[x] = q[x]
    <3>1. CASE \E u \in Peers : x = <<"pending", u>> BY <1>10, <2>7, <3>1
    <3>2. ASSUME NEW d \in Conns, x \in PlacesOf(d) PROVE t[x] = q[x]
      <4>1. Holds(q, d, conn[d]) /\ Holds(t, d, conn'[d]) BY <1>10, <2>7
      <4>2. conn'[d].buf = conn[d].buf /\ conn'[d].replay = conn[d].replay /\ conn'[d].got = conn[d].got
        BY <2>6 DEF Traffic
      <4>3. d # c => conn'[d].up = conn[d].up BY <1>8, <2>5
      <4>4. d # f => conn'[d].down = conn[d].down BY <1>8, <2>5
      <4> QED BY <2>11, <3>2, <4>1, <4>2, <4>3, <4>4 DEF Holds, PlacesOf
    <3> QED BY <3>1, <3>2, PlacesAre DEF PlacesOf
  <2> HIDE DEF a, b
  <2>12. Once(t, unsent) BY <1>10, <1>11, <1>13, <2>7, <2>8, <2>9, <2>10, <2>11, Passed
  <2> QED BY <1>1, <1>9, <2>4, <2>5, <2>6, <2>12 DEF t
<1>15. CASE reg[p] = None
  <2>1. conn' = rest BY <1>2, <1>15
  <2>2. CASE EnqueuePending(p, m)
    <3> DEFINE b == <<"pending", p>>
    <3>1. pending[p] \in Seq(Msgs) /\ Append(pending[p], m) \in Seq(Msgs) BY <1>1, <1>6
    <3>2. pending' = [pending EXCEPT ![p] = Append(pending[p], m)] BY <2>2 DEF EnqueuePending
    <3>3. pending' \in [Peers -> Seq(Msgs)] BY <1>1, <3>1, <3>2, ZenonT(30)
    <3>4. timers' \in [Peers -> Nat] BY <1>1, <1>6, <2>2 DEF EnqueuePending
    <3>5. t \in Queues /\ (\A d \in Conns : Holds(t, d, rest[d])) /\ \A u \in Peers : t[<<"pending", u>>] = pending'[u]
      BY <1>8, <1>12, <2>1, <3>3
    <3>6. b \in Places /\ a # b BY <1>6, PlacesAre
    <3>7. q[a] # <<>> /\ t[a] = Tail(q[a]) /\ Head(q[a]) = m
      <4>1. q[a] = Messages(conn[c].up) /\ t[a] = Messages(rest[c].up)
        BY <1>10, <3>5, Zenon DEF Holds
      <4> QED BY <1>7, <1>8, <4>1
    <3>8. t[b] = Append(q[b], m) BY <1>1, <1>6, <1>10, <3>2, <3>5, Zenon
    <3>9. ASSUME NEW x \in Places \ {a, b} PROVE t[x] = q[x]
      <4>1. ASSUME NEW u \in Peers, x = <<"pending", u>> PROVE t[x] = q[x]
        <5>1. u # p BY <3>9, <4>1
        <5>2. pending'[u] = pending[u] BY <1>1, <3>2, <5>1
        <5> QED BY <1>10, <3>5, <4>1, <5>2
      <4>2. ASSUME NEW d \in Conns, x \in PlacesOf(d) PROVE t[x] = q[x]
        <5>1. Holds(q, d, conn[d]) /\ Holds(t, d, rest[d]) BY <1>10, <3>5
        <5>2. rest[d].buf = conn[d].buf /\ rest[d].replay = conn[d].replay /\ rest[d].got = conn[d].got
          BY <1>8 DEF Traffic
        <5>3. (d # c => rest[d].up = conn[d].up) /\ rest[d].down = conn[d].down BY <1>8
        <5> QED BY <3>9, <4>2, <5>1, <5>2, <5>3 DEF Holds, PlacesOf
      <4> QED BY <4>1, <4>2, PlacesAre DEF PlacesOf
    <3> HIDE DEF a, b
    <3>10. Once(t, unsent) BY <1>10, <1>11, <1>13, <3>5, <3>6, <3>7, <3>8, <3>9, Passed
    <3> QED BY <1>8, <1>9, <2>1, <3>3, <3>4, <3>10 DEF t
  <2>3. CASE UNCHANGED <<pending, timers>>
    <3>1. FewerAt(conn[c], rest[c]) BY <1>2, <1>8 DEF FewerAt, Fewer, Traffic
    <3>2. \A d \in Conns : FewerAt(conn[d], rest[d])
      BY <1>8, <3>1, Zenon DEF FewerAt, Fewer, Traffic
    <3>3. \A u \in Peers : Fewer(pending[u], pending[u]) BY DEF Fewer
    <3>4. Once(QueuesOf(conn, pending), unsent) BY DEF WsIInv
    <3>5. Once(QueuesOf(rest, pending), unsent)
      BY <1>1, <1>8, <3>2, <3>3, <3>4, ConnsDropped, Zenon
    <3> QED BY <1>1, <1>8, <1>9, <2>1, <2>3, <3>5
  <2> QED BY <1>3, <1>15, <2>2, <2>3
<1> QED BY <1>14, <1>15

-----------------------------------------------------------------------------
LEMMA WsInitially == Init => WsIInv
<1> SUFFICES ASSUME Init PROVE WsIInv OBVIOUS
<1>1. /\ conn = [c \in Conns |-> NoConn] /\ reg = [p \in Peers |-> None] /\ pending = [p \in Peers |-> <<>>]
  BY DEF Init
<1>2. WsTypeOK
  <2>1. conn \in [Conns -> ConnType] BY <1>1, NoConnTyped
  <2>2. pending \in [Peers -> Seq(Msgs)] BY <1>1
  <2>3. reg \in [Peers -> Conns \cup {None}] /\ tracked \in [Peers -> Conns \cup {None}]
    BY DEF Init
  <2> QED BY <2>1, <2>2, <2>3 DEF Init, WsTypeOK
<1>3. /\ NoConn.up = <<>> /\ NoConn.down = <<>> /\ NoConn.buf = <<>> /\ NoConn.replay = <<>> /\ NoConn.got = <<>>
      /\ NoConn.handed = {} /\ NoConn.sv = "none"
  BY DEF NoConn
<1>4. Once(QueuesOf(conn, pending), unsent)
  <2> DEFINE q == QueuesOf(conn, pending)
  <2>1. (\A d \in Conns : Holds(q, d, conn[d])) /\ \A u \in Peers : q[<<"pending", u>>] = pending[u]
    BY <1>2, QueuesAt, ZenonT(30) DEF Holds, WsTypeOK
  <2>2. Messages(<<>>) = <<>> BY <<>> \in Seq(Datagram), MessagesOf, Zenon
  <2> HIDE DEF q
  <2>3. ASSUME NEW x \in Places PROVE q[x] = <<>>
    <3>1. CASE \E u \in Peers : x = <<"pending", u>> BY <1>1, <2>1, <3>1
    <3>2. ASSUME NEW d \in Conns, x \in PlacesOf(d) PROVE q[x] = <<>>
      <4>1. Holds(q, d, NoConn) BY <1>1, <2>1
      <4> QED BY <1>3, <2>2, <3>2, <4>1 DEF Holds, PlacesOf
    <3> QED BY <3>1, <3>2, PlacesAre DEF PlacesOf
  <2>4. Once(q, unsent) BY <2>3 DEF Once
  <2> QED BY <2>4 DEF q
<1>5. Kept(NoConn) BY <1>3 DEF Kept, Elements
<1>6. \A c \in Conns : Kept(conn[c]) BY <1>1, <1>5
<1>7. Registered(conn, reg) BY <1>1, <1>3 DEF Registered
<1> QED BY <1>2, <1>4, <1>6, <1>7 DEF WsIInv

LEMMA WsInductiveStep == WsIInv /\ [Next]_vars => WsIInv'
<1> SUFFICES ASSUME WsIInv, [Next]_vars PROVE WsIInv' OBVIOUS
<1>1. CASE UNCHANGED vars BY <1>1 DEF vars, WsIInv, WsTypeOK
<1>2. ASSUME NEW p \in Peers, Join(p) \/ DisconnectPeer(p) \/ TtlExpires(p) PROVE WsIInv'
  BY <1>2, JoinStep, DisconnectPeerStep, TtlExpiresStep
<1>3. ASSUME NEW c \in Conns, conn[c].peer # None, Client(c) PROVE WsIInv'
  <2>1. CASE \E to \in Peers, m \in Msgs : Send(c, to, m) BY <2>1, SendStep
  <2>2. CASE OnError(c) \/ OnOpen(c) \/ SetHandler(c) \/ Replay(c) \/ OnMessage(c)
    BY <2>2, OnErrorStep, OnOpenStep, SetHandlerStep, ReplayStep, OnMessageStep
  <2>3. CASE Leave(c) \/ DropUser(c) \/ SocketBreaks(c) \/ OnErrorAfterOpen(c) \/ OnClosed(c)
    BY <2>3, LeaveStep, DropUserStep, SocketBreaksStep, OnErrorAfterOpenStep, OnClosedStep
  <2> QED BY <1>3, <2>1, <2>2, <2>3 DEF Client
<1>4. ASSUME NEW c \in Conns, conn[c].peer # None, Accept(c) \/ Relay(c) \/ ServerOnClosed(c) PROVE WsIInv'
  BY <1>4, AcceptStep, RelayStep, ServerOnClosedStep
<1> QED BY <1>1, <1>2, <1>3, <1>4 DEF Next

\* WsIInv holds in every reachable state: no step of a client, a server or the
\* relay's timer leaves it.
THEOREM WsInvariance == Spec => []WsIInv
BY WsInitially, WsInductiveStep, PTL DEF Spec

\* Every field of a connection and every entry of the servers keeps its type,
\* through joins, closes and relays.
THEOREM WsTyping == Spec => []WsTypeOK
<1>1. WsIInv => WsTypeOK BY DEF WsIInv
<1> QED BY <1>1, WsInvariance, PTL

\* A message is in no place before it is sent and in one at most, once, from then
\* on, through relays, queues, flushes, backlogs and replays; and what the users
\* were handed is what their backlogs, replays and handlers have: DeliveredOnce.
THEOREM OneCopy == Spec => []DeliveredOnce
<1>1. WsIInv => DeliveredOnce
  <2> SUFFICES ASSUME WsIInv PROVE DeliveredOnce OBVIOUS
  <2> DEFINE q == QueuesOf(conn, pending)
  <2>1. \A x \in Places : q[x] = Content(x) BY Zenon DEF QueuesOf, Content, Messages
  <2>2. Once(q, unsent) BY DEF WsIInv
  <2> HIDE DEF q
  <2>3. \A c \in Conns : conn[c].handed = Elements(conn[c].buf) \cup Elements(conn[c].replay) \cup Elements(conn[c].got)
    BY DEF WsIInv, Kept
  <2> QED BY <2>1, <2>2, <2>3 DEF Once, DeliveredOnce
<1> QED BY <1>1, WsInvariance, PTL

\* The entry of a peer never outlives its connection, and a connection that was
\* never open beside another of its peer has the entry while it is open: Reachable.
THEOREM EntriesFollow == Spec => []Reachable
<1>1. WsIInv => Reachable BY DEF WsIInv, Registered, Reachable
<1> QED BY <1>1, WsInvariance, PTL
-----------------------------------------------------------------------------
\* Leave()

\* A user belongs to an answered join, Leave() is called by a user, and a Leave()
\* that found the handler bound and has not been answered is a native one whose
\* close callback is due, and will find the handler.
Answering(r, k) ==
    /\ r.user # "none" => r.fired
    /\ r.asked => r.user # "none"
    /\ r.asked /\ r.user = "held" /\ r.lefts = 0 => r.closeEvent /\ r.handler /\ k = "dc"

\* Connection s is r but for what Leave() does not depend on.
SameAnswer(r, s) ==
    /\ s.user = r.user /\ s.asked = r.asked /\ s.lefts = r.lefts /\ s.handler = r.handler
    /\ r.fired => s.fired
    /\ r.closeEvent => s.closeEvent

LeaveInv == \A c \in Conns : Answering(conn[c], kind)

\* The fields the steps change beside these.
LEMMA AnswerFields ==
    ASSUME NEW r \in ConnType
    PROVE  /\ \A v : SameAnswer(r, [r EXCEPT !.sock = v])
           /\ \A v : SameAnswer(r, [r EXCEPT !.up = v])
           /\ \A v : SameAnswer(r, [r EXCEPT !.down = v])
           /\ \A v : SameAnswer(r, [r EXCEPT !.overlapped = v])
           /\ \A v, w : SameAnswer(r, [r EXCEPT !.replay = v, !.got = w])
           /\ \A v, w : SameAnswer(r, [r EXCEPT !.handed = v, !.got = w])
           /\ \A v, w : SameAnswer(r, [r EXCEPT !.handed = v, !.buf = w])
           /\ \A v : SameAnswer(r, [r EXCEPT !.sock = v, !.fired = TRUE])
           /\ \A v : SameAnswer(r, [r EXCEPT !.sock = v, !.closeEvent = TRUE])
           /\ \A u, v, w : SameAnswer(r, [r EXCEPT !.sv = u, !.up = v, !.down = w])
           /\ \A u, v, w : SameAnswer(r, [r EXCEPT !.sv = u, !.overlapped = v, !.down = w])
<1> USE DEF SameAnswer, ConnType
<1>1. \A v : SameAnswer(r, [r EXCEPT !.sock = v]) BY Zenon
<1>2. \A v : SameAnswer(r, [r EXCEPT !.up = v]) BY Zenon
<1>3. \A v : SameAnswer(r, [r EXCEPT !.down = v]) BY Zenon
<1>4. \A v : SameAnswer(r, [r EXCEPT !.overlapped = v]) BY Zenon
<1>5. \A v, w : SameAnswer(r, [r EXCEPT !.replay = v, !.got = w]) BY Zenon
<1>6. \A v, w : SameAnswer(r, [r EXCEPT !.handed = v, !.got = w]) BY Zenon
<1>7. \A v, w : SameAnswer(r, [r EXCEPT !.handed = v, !.buf = w]) BY Zenon
<1>8. \A v : SameAnswer(r, [r EXCEPT !.sock = v, !.fired = TRUE]) BY Zenon
<1>9. \A v : SameAnswer(r, [r EXCEPT !.sock = v, !.closeEvent = TRUE]) BY Zenon
<1>10. \A u, v, w : SameAnswer(r, [r EXCEPT !.sv = u, !.up = v, !.down = w]) BY Zenon
<1>11. \A u, v, w : SameAnswer(r, [r EXCEPT !.sv = u, !.overlapped = v, !.down = w]) BY Zenon
<1> HIDE DEF SameAnswer, ConnType
<1> QED BY <1>1, <1>2, <1>3, <1>4, <1>5, <1>6, <1>7, <1>8, <1>9, <1>10, <1>11, Zenon

LEMMA AnswerTransitive ==
    ASSUME NEW r, NEW s, NEW t, SameAnswer(r, s), SameAnswer(s, t) PROVE SameAnswer(r, t)
BY DEF SameAnswer

\* A step that changes one connection, and one that changes nothing of this.
LEMMA AnswerStep ==
    ASSUME WsIInv, LeaveInv, NEW c \in Conns, NEW s, Changes(c, s), kind' = kind, Answering(s, kind)
    PROVE  LeaveInv'
<1>1. conn'[c] = s /\ \A d \in Conns \ {c} : conn'[d] = conn[d]
  BY Zenon DEF WsIInv, WsTypeOK, Changes
<1> QED BY <1>1 DEF LeaveInv

LEMMA AnswerKept ==
    ASSUME LeaveInv, kind' = kind, \A d \in Conns : SameAnswer(conn[d], conn'[d]) PROVE LeaveInv'
BY DEF LeaveInv, Answering, SameAnswer

LEMMA AnswerSame ==
    ASSUME WsIInv, LeaveInv, NEW c \in Conns, NEW s, Changes(c, s), kind' = kind, SameAnswer(conn[c], s)
    PROVE  LeaveInv'
<1>1. Answering(s, kind) BY DEF LeaveInv, Answering, SameAnswer
<1> QED BY <1>1, AnswerStep

LEMMA LeftAnswers ==
    ASSUME NEW r \in ConnType
    PROVE  /\ Left(r).user = r.user /\ Left(r).asked = r.asked /\ Left(r).fired = r.fired
           /\ Left(r).handler = r.handler /\ Left(r).closeEvent = r.closeEvent
           /\ IF r.handler THEN Left(r).lefts > 0 ELSE Left(r).lefts = r.lefts
<1> DEFINE s == [r EXCEPT !.lefts = r.lefts + 1]
<1>1. r.lefts \in Nat BY DEF ConnType
<1>2. s.lefts = r.lefts + 1 BY Zenon DEF ConnType
<1>3. /\ s.user = r.user /\ s.asked = r.asked /\ s.fired = r.fired /\ s.handler = r.handler
      /\ s.closeEvent = r.closeEvent
  BY Zenon DEF ConnType
<1>4. Left(r) = IF r.handler THEN s ELSE r BY DEF Left
<1> HIDE DEF s
<1>5. s.lefts > 0 BY <1>1, <1>2
<1> QED BY <1>3, <1>4, <1>5

LEMMA ClosedSocketAnswers ==
    ASSUME NEW r \in ConnType
    PROVE  SameAnswer(r, ClosedSocket(r)) /\ (r.sock = "open" => ClosedSocket(r).closeEvent)
<1> DEFINE s == [r EXCEPT !.sock = "closed", !.closeEvent = TRUE]
<1>1. SameAnswer(r, s) BY AnswerFields, Zenon
<1>2. SameAnswer(r, r) BY DEF SameAnswer
<1>3. s.closeEvent BY Zenon DEF ConnType
<1>4. ClosedSocket(r) = IF r.sock = "open" THEN s ELSE r BY DEF ClosedSocket
<1> HIDE DEF s
<1> QED BY <1>1, <1>2, <1>3, <1>4

\* Messages are delivered, relayed and replayed without touching any of this.
LEMMA ReplayAnswers ==
    ASSUME WsIInv, LeaveInv, NEW c \in Conns, Replay(c) PROVE LeaveInv'
<1> DEFINE s == [conn[c] EXCEPT !.replay = Tail(conn[c].replay), !.got = Append(conn[c].got, Head(conn[c].replay))]
<1>1. Changes(c, s) /\ kind' = kind BY DEF Replay, ClientOnly, Config
<1>2. conn[c] \in ConnType BY DEF WsIInv, WsTypeOK
<1>3. SameAnswer(conn[c], s) BY <1>2, AnswerFields, Zenon
<1> HIDE DEF s
<1> QED BY <1>1, <1>3, AnswerSame

LEMMA OnMessageAnswers ==
    ASSUME WsIInv, LeaveInv, NEW c \in Conns, OnMessage(c) PROVE LeaveInv'
<1> DEFINE m == Head(conn[c].down)
           r == [conn[c] EXCEPT !.down = Tail(conn[c].down)]
           s == [r EXCEPT !.handed = r.handed \cup {m}, !.got = Append(r.got, m)]
           t == [r EXCEPT !.handed = r.handed \cup {m}, !.buf = Append(r.buf, m)]
<1>1. (Changes(c, r) \/ Changes(c, s) \/ Changes(c, t)) /\ kind' = kind
  <2>1. /\ Changes(c, IF ~Held(c) THEN r ELSE IF Dc(c) THEN DcDeliver(r, m) ELSE JsDeliver(r, m))
        /\ kind' = kind
    BY DEF OnMessage, ClientOnly, Config
  <2> HIDE DEF r, m
  <2>2. DcDeliver(r, m) \in {s, t} /\ JsDeliver(r, m) \in {r, s} BY DEF DcDeliver, JsDeliver
  <2> HIDE DEF s, t
  <2> QED BY <2>1, <2>2
<1>2. conn[c] \in ConnType /\ Tail(conn[c].down) \in Seq(Msgs)
  <2>1. conn[c] \in ConnType BY DEF WsIInv, WsTypeOK
  <2>2. conn[c].down \in Seq(Msgs) BY <2>1, Zenon DEF ConnType
  <2>3. conn[c].down # <<>> BY DEF OnMessage
  <2> QED BY <2>1, <2>2, <2>3
<1>3. SameAnswer(conn[c], r) BY <1>2, AnswerFields, Zenon
<1>4. r \in ConnType BY <1>2, MessageFields, Zenon
<1> HIDE DEF r
<1>5. SameAnswer(r, s) /\ SameAnswer(r, t) BY <1>4, AnswerFields, Zenon
<1> HIDE DEF s, t
<1>6. SameAnswer(conn[c], s) /\ SameAnswer(conn[c], t) BY <1>3, <1>5, AnswerTransitive
<1> QED BY <1>1, <1>3, <1>6, AnswerSame

LEMMA SendAnswers ==
    ASSUME WsIInv, LeaveInv, NEW c \in Conns, NEW to, NEW m, Send(c, to, m) PROVE LeaveInv'
<1> DEFINE s == [conn[c] EXCEPT !.up = Append(conn[c].up, [to |-> to, msg |-> m])]
<1>1. (Changes(c, s) \/ conn' = conn) /\ kind' = kind BY DEF Send, WsSend, Config
<1>2. conn[c] \in ConnType BY DEF WsIInv, WsTypeOK
<1>3. SameAnswer(conn[c], s) BY <1>2, AnswerFields, Zenon
<1> HIDE DEF s
<1> QED BY <1>1, <1>3, AnswerSame DEF LeaveInv

LEMMA ServerAnswers ==
    ASSUME WsIInv, LeaveInv, NEW c \in Conns, ServerOnClosed(c) \/ Accept(c) \/ Relay(c) PROVE LeaveInv'
<1>1. conn \in [Conns -> ConnType] BY DEF WsIInv, WsTypeOK
<1>2. CASE ServerOnClosed(c)
  <2> DEFINE s == [conn[c] EXCEPT !.sv = "closed", !.up = <<>>, !.down = <<>>]
  <2>1. Changes(c, s) /\ kind' = kind BY <1>2 DEF ServerOnClosed, Config
  <2>2. SameAnswer(conn[c], s) BY <1>1, AnswerFields, Zenon
  <2> HIDE DEF s
  <2> QED BY <2>1, <2>2, AnswerSame
<1>3. CASE Accept(c)
  <2> DEFINE s == [conn[c] EXCEPT !.sv = "open", !.overlapped = OthersOpen(c) # {},
                                  !.down = pending[conn[c].peer]]
             t(d) == [conn[d] EXCEPT !.overlapped = TRUE]
  <2>1. \A d \in Conns : conn'[d] = IF d = c THEN s ELSE IF d \in OthersOpen(c) THEN t(d) ELSE conn[d]
    BY <1>3, Zenon DEF Accept
  <2>2. kind' = kind BY <1>3, Zenon DEF Accept, Config
  <2>3. SameAnswer(conn[c], s) BY <1>1, AnswerFields, Zenon
  <2>4. \A d \in Conns : SameAnswer(conn[d], t(d)) BY <1>1, AnswerFields, Zenon
  <2>5. \A d \in Conns : SameAnswer(conn[d], conn[d]) BY DEF SameAnswer
  <2> HIDE DEF s, t
  <2>6. \A d \in Conns : SameAnswer(conn[d], conn'[d]) BY <2>1, <2>3, <2>4, <2>5
  <2> QED BY <2>2, <2>6, AnswerKept
<1>4. CASE Relay(c)
  <2> DEFINE m == Head(conn[c].up).msg
             s == [conn[c] EXCEPT !.up = Tail(conn[c].up)]
             rest == [conn EXCEPT ![c] = s]
             to == reg[Head(conn[c].up).to]
             t(d) == [rest[d] EXCEPT !.down = Append(rest[d].down, m)]
  <2>1. kind' = kind /\ conn' \in {rest, [rest EXCEPT ![to] = t(to)]}
    BY <1>4, Zenon DEF Relay, Forward, Config
  <2>2. SameAnswer(conn[c], s) /\ s \in ConnType
    <3>1. Tail(conn[c].up) \in Seq(Datagram)
      <4>1. conn[c].up \in Seq(Datagram) BY <1>1, Zenon DEF ConnType, Datagram
      <4>2. conn[c].up # <<>> BY <1>4 DEF Relay
      <4> QED BY <4>1, <4>2
    <3>2. SameAnswer(conn[c], s) BY <1>1, AnswerFields, Zenon
    <3>3. s \in ConnType BY <1>1, <3>1, MessageFields, Zenon
    <3> QED BY <3>2, <3>3
  <2> HIDE DEF s
  <2>3. rest \in [Conns -> ConnType] /\ rest[c] = s /\ \A d \in Conns \ {c} : rest[d] = conn[d] BY <1>1, <2>2
  <2>4. \A d \in Conns : SameAnswer(conn[d], rest[d]) BY <2>2, <2>3 DEF SameAnswer
  <2> HIDE DEF rest
  <2>5. \A d \in Conns : SameAnswer(rest[d], t(d)) BY <2>3, AnswerFields, Zenon
  <2> HIDE DEF t
  <2>6. \A d \in Conns : conn'[d] \in {rest[d], t(d)} BY <2>1, <2>3
  <2>7. \A d \in Conns : SameAnswer(conn[d], conn'[d]) BY <2>4, <2>5, <2>6, AnswerTransitive
  <2> QED BY <2>1, <2>7, AnswerKept
<1> QED BY <1>2, <1>3, <1>4

\* The steps of a client that its Leave() meets.
LEMMA SocketAnswers ==
    ASSUME WsIInv, LeaveInv, NEW c \in Conns, OnError(c) \/ SocketBreaks(c) \/ OnErrorAfterOpen(c)
    PROVE  LeaveInv'
<1> DEFINE s == [conn[c] EXCEPT !.sock = "closed", !.fired = TRUE]
           t == [conn[c] EXCEPT !.sock = "closed"]
<1>1. kind' = kind /\ (Changes(c, s) \/ Changes(c, ClosedSocket(conn[c])) \/ Changes(c, t))
  BY DEF OnError, SocketBreaks, OnErrorAfterOpen, ClientOnly, Config
<1>2. conn[c] \in ConnType BY DEF WsIInv, WsTypeOK
<1>3. SameAnswer(conn[c], s) /\ SameAnswer(conn[c], t) BY <1>2, AnswerFields, Zenon
<1>4. SameAnswer(conn[c], ClosedSocket(conn[c])) BY <1>2, ClosedSocketAnswers
<1> HIDE DEF s, t
<1> QED BY <1>1, <1>3, <1>4, AnswerSame

LEMMA OnOpenAnswers ==
    ASSUME WsIInv, LeaveInv, NEW c \in Conns, OnOpen(c) PROVE LeaveInv'
<1>1. conn[c] \in ConnType BY DEF WsIInv, WsTypeOK
<1>2. ~conn[c].asked BY DEF OnOpen, LeaveInv, Answering
<1>3. DcOnOpen(conn[c]).asked = conn[c].asked /\ DcOnOpen(conn[c]).fired BY <1>1 DEF DcOnOpen, ConnType
<1>4. JsOnOpen(conn[c]).asked = conn[c].asked /\ JsOnOpen(conn[c]).fired BY <1>1 DEF JsOnOpen, ConnType
<1>5. PICK s \in {DcOnOpen(conn[c]), JsOnOpen(conn[c])} : Changes(c, s) BY DEF OnOpen
<1>6. Answering(s, kind) BY <1>2, <1>3, <1>4, <1>5 DEF Answering
<1> QED BY <1>5, <1>6, AnswerStep DEF OnOpen, ClientOnly, Config

LEMMA SetHandlerAnswers ==
    ASSUME WsIInv, LeaveInv, NEW c \in Conns, SetHandler(c) PROVE LeaveInv'
<1> DEFINE r == conn[c]
           s == [r EXCEPT !.handler = TRUE, !.replay = r.buf, !.buf = <<>>]
<1>1. r \in ConnType BY DEF WsIInv, WsTypeOK
<1>2. /\ s.user = r.user /\ s.asked = r.asked /\ s.lefts = r.lefts /\ s.fired = r.fired
      /\ s.closeEvent = r.closeEvent /\ s.handler
  BY <1>1, Zenon DEF ConnType
<1>3. Changes(c, s) /\ kind' = kind BY DEF SetHandler, ClientOnly, Config
<1>4. Answering(r, kind) BY DEF LeaveInv
<1> HIDE DEF r, s
<1>5. Answering(s, kind) BY <1>2, <1>4 DEF Answering
<1> QED BY <1>3, <1>5, AnswerStep

LEMMA DropUserAnswers ==
    ASSUME WsIInv, LeaveInv, NEW c \in Conns, DropUser(c) PROVE LeaveInv'
<1> DEFINE r == ClosedSocket(conn[c])
           s == IF Dc(c) THEN DcDrop(conn[c]) ELSE JsDrop(conn[c])
<1>1. conn[c] \in ConnType BY DEF WsIInv, WsTypeOK
<1>2. SameAnswer(conn[c], r) BY <1>1, ClosedSocketAnswers
<1>3. r \in ConnType BY <1>1, ClosedSocketQuiet DEF Quiet
<1>4. Changes(c, s) /\ kind' = kind /\ Held(c) BY DEF DropUser, ClientOnly, Config
<1>8. s = [r EXCEPT !.user = "gone"] \/ s = [r EXCEPT !.user = "gone", !.closeEvent = FALSE] BY DEF DcDrop, JsDrop
<1> HIDE DEF s
<1> HIDE DEF r
<1>5. s.user = "gone" /\ s.fired = r.fired BY <1>3, <1>8 DEF ConnType
<1>6. conn[c].fired BY <1>4 DEF LeaveInv, Answering, Held
<1>7. Answering(s, kind) BY <1>2, <1>5, <1>6 DEF Answering, SameAnswer
<1> QED BY <1>4, <1>7, AnswerStep

\* Leave() notifies itself, or closes a socket that was open, natively.
LEMMA LeaveAnswers ==
    ASSUME WsIInv, LeaveInv, NEW c \in Conns, conn[c].peer # None, Leave(c) PROVE LeaveInv'
<1> DEFINE r == [conn[c] EXCEPT !.leaving = TRUE, !.asked = conn[c].handler]
           s == IF Dc(c) THEN DcLeave(r) ELSE JsLeave(r)
<1>1. conn[c] \in ConnType BY DEF WsIInv, WsTypeOK
<1>2. /\ r.user = conn[c].user /\ r.asked = conn[c].handler /\ r.fired = conn[c].fired
      /\ r.handler = conn[c].handler
  BY <1>1, Zenon DEF ConnType
<1>3. r \in ConnType
  <2> DEFINE u == [conn[c] EXCEPT !.leaving = TRUE]
  <2>1. conn[c].handler \in BOOLEAN BY <1>1, Zenon DEF ConnType
  <2>2. u \in ConnType BY <1>1, QuietFields, Zenon DEF Quiet
  <2>3. r = [u EXCEPT !.asked = conn[c].handler] OBVIOUS
  <2> HIDE DEF u, r
  <2> QED BY <2>1, <2>2, <2>3, QuietFields, Zenon DEF Quiet
<1>4. Changes(c, s) /\ kind' = kind /\ Held(c) BY DEF Leave, ClientOnly, Config
<1>5. conn[c].fired /\ conn[c].user = "held" BY <1>4 DEF LeaveInv, Answering, Held
<1> HIDE DEF r
<1>6. ClosedSocket(r) \in ConnType BY <1>3, ClosedSocketQuiet DEF Quiet
<1>7. SameAnswer(r, ClosedSocket(r)) /\ (r.sock = "open" => ClosedSocket(r).closeEvent)
  BY <1>3, ClosedSocketAnswers
<1>8. CASE Dc(c) /\ r.sock = "open"
  <2>1. s = ClosedSocket(r) BY <1>8 DEF DcLeave
  <2>2. kind = "dc" BY <1>8 DEF Dc
  <2> HIDE DEF s
  <2>3. Answering(s, kind) BY <1>2, <1>5, <1>7, <1>8, <2>1, <2>2 DEF Answering, SameAnswer
  <2> QED BY <1>4, <2>3, AnswerStep
<1>9. CASE ~(Dc(c) /\ r.sock = "open")
  <2>1. PICK u \in ConnType : s = Left(u) /\ SameAnswer(r, u)
    <3>1. SameAnswer(r, r) BY DEF SameAnswer
    <3> QED BY <1>3, <1>6, <1>7, <1>9, <3>1 DEF DcLeave, JsLeave
  <2>2. /\ s.user = u.user /\ s.asked = u.asked /\ s.fired = u.fired
        /\ IF u.handler THEN s.lefts > 0 ELSE s.lefts = u.lefts
    BY <2>1, LeftAnswers
  <2> HIDE DEF s
  <2>3. Answering(s, kind) BY <1>2, <1>5, <2>1, <2>2 DEF Answering, SameAnswer
  <2> QED BY <1>4, <2>3, AnswerStep
<1> QED BY <1>8, <1>9

LEMMA OnClosedAnswers ==
    ASSUME WsIInv, LeaveInv, NEW c \in Conns, conn[c].peer # None, OnClosed(c) PROVE LeaveInv'
<1> DEFINE r == [conn[c] EXCEPT !.closeEvent = FALSE]
           s == IF ~Held(c) THEN r ELSE IF Dc(c) THEN DcOnClosed(r) ELSE JsOnClose(r)
<1>1. conn[c] \in ConnType BY DEF WsIInv, WsTypeOK
<1>2. /\ r.user = conn[c].user /\ r.asked = conn[c].asked /\ r.fired = conn[c].fired
      /\ r.handler = conn[c].handler /\ r.lefts = conn[c].lefts
  BY <1>1, Zenon DEF ConnType
<1>3. r \in ConnType BY <1>1, QuietFields, Zenon DEF Quiet
<1>4. Changes(c, s) /\ kind' = kind BY DEF OnClosed, ClientOnly, Config
<1>5. Answering(conn[c], kind) BY DEF LeaveInv
<1> HIDE DEF r
<1>6. /\ Left(r).user = r.user /\ Left(r).asked = r.asked /\ Left(r).fired = r.fired
      /\ IF r.handler THEN Left(r).lefts > 0 ELSE Left(r).lefts = r.lefts
  BY <1>3, LeftAnswers
<1>7. Answering(Left(r), kind) BY <1>2, <1>5, <1>6 DEF Answering
<1>8. ~(Held(c) /\ Dc(c)) => Answering(r, kind) BY <1>2, <1>5 DEF Answering, Held, Dc
<1>9. s = Left(r) \/ (s = r /\ ~(Held(c) /\ Dc(c))) BY DEF DcOnClosed, JsOnClose
<1> HIDE DEF s
<1>10. Answering(s, kind) BY <1>7, <1>8, <1>9
<1> QED BY <1>4, <1>10, AnswerStep

LEMMA PeerAnswers ==
    ASSUME WsIInv, LeaveInv, NEW p \in Peers, Join(p) \/ DisconnectPeer(p) \/ TtlExpires(p) PROVE LeaveInv'
<1>1. CASE Join(p)
  <2> DEFINE s == [NoConn EXCEPT !.peer = p, !.sock = "connecting"]
  <2>1. PICK c \in Conns : Changes(c, s) BY <1>1 DEF Join, Connect, Unused
  <2>2. s.user = "none" /\ ~s.asked BY DEF NoConn
  <2> HIDE DEF s
  <2>3. Answering(s, kind) BY <2>2 DEF Answering
  <2> QED BY <1>1, <2>1, <2>3, AnswerStep DEF Join, ClientOnly, Config
<1>2. CASE DisconnectPeer(p)
  <2>1. PICK c \in Conns : c = tracked[p] BY <1>2 DEF WsIInv, WsTypeOK, DisconnectPeer
  <2>2. Changes(c, ClosedSocket(conn[c])) /\ kind' = kind
    BY <1>2, <2>1 DEF DisconnectPeer, ClientOnly, Config
  <2>3. SameAnswer(conn[c], ClosedSocket(conn[c])) BY ClosedSocketAnswers DEF WsIInv, WsTypeOK
  <2> QED BY <2>2, <2>3, AnswerSame
<1>3. CASE TtlExpires(p) BY <1>3 DEF TtlExpires, Config, LeaveInv
<1> QED BY <1>1, <1>2, <1>3

LEMMA LeaveInductive == WsIInv /\ LeaveInv /\ [Next]_vars => LeaveInv'
<1> SUFFICES ASSUME WsIInv, LeaveInv, [Next]_vars PROVE LeaveInv' OBVIOUS
<1>1. CASE UNCHANGED vars BY <1>1 DEF vars, LeaveInv
<1>2. ASSUME NEW c \in Conns, conn[c].peer # None, Client(c) PROVE LeaveInv'
  <2>1. CASE \E to \in Peers, m \in Msgs : Send(c, to, m) BY <2>1, SendAnswers
  <2>2. CASE OnError(c) \/ SocketBreaks(c) \/ OnErrorAfterOpen(c) BY <2>2, SocketAnswers
  <2>3. CASE OnOpen(c) \/ SetHandler(c) \/ Replay(c) \/ OnMessage(c)
    BY <2>3, OnOpenAnswers, SetHandlerAnswers, ReplayAnswers, OnMessageAnswers
  <2>4. CASE Leave(c) \/ DropUser(c) \/ OnClosed(c)
    BY <1>2, <2>4, LeaveAnswers, DropUserAnswers, OnClosedAnswers
  <2> QED BY <1>2, <2>1, <2>2, <2>3, <2>4 DEF Client
<1> QED BY <1>1, <1>2, PeerAnswers, ServerAnswers DEF Next

\* What LeaveAnswered waits for (DcWsSigClient's and JsWsSigClient's Leave()): while the user of a Leave() that found the handler
\* bound lives and OnLeft() has not run, the close callback of the socket is due and
\* will find the handler.  So the answer needs nothing but that this callback runs.
LeavePending ==
    \A c \in Conns :
        conn[c].asked /\ Held(c) /\ conn[c].lefts = 0 => conn[c].closeEvent /\ conn[c].handler

THEOREM LeaveIsAnswerable == Spec => []LeavePending
<1>1. Init => LeaveInv BY DEF Init, LeaveInv, Answering, NoConn
<1>2. LeaveInv => LeavePending BY DEF LeaveInv, Answering, LeavePending, Held
<1> QED BY <1>1, <1>2, WsInvariance, LeaveInductive, PTL DEF Spec
=============================================================================
