------------------------------- MODULE WsSig -------------------------------
(***************************************************************************)
(* WebSocket signaling: the native client (DcWsSigClient), the browser's   *)
(* client (JsWsSigClient) and the two servers they talk to, DcWsSigServer  *)
(* over a SigHub and the relay of the demo (signaling-server.js).          *)
(*                                                                         *)
(* A connection is a WebSocket with a client end and a server end; a peer  *)
(* may join again while its old connection is not closed everywhere.  The  *)
(* native client runs onOpen and onMessage on different threads, so its    *)
(* SetHandler and the replay of its backlog are steps of their own; the    *)
(* browser and the relay run one event at a time.                          *)
(***************************************************************************)
EXTENDS Naturals, Sequences

CONSTANTS Peers,      \* peer ids
          Conns,      \* connections, numbers (bounds how many are made)
          Msgs,       \* messages
          None

ASSUME WsSigAssumption ==
    /\ Conns \subseteq Nat
    /\ None \notin Peers \cup Conns

VARIABLES
    kind,      \* the client the peers use: "dc" or "js"
    server,    \* the server: "dc" or "node"
    reg,       \* the hub's registration of a peer, or the relay's clients[id]
    tracked,   \* DcWsSigServer::Impl::connections
    pending,   \* the relay's messages for peers that are not connected
    timers,    \* the relay's running TTL timers of a peer
    conn,      \* the connections
    unsent     \* messages not sent yet

vars == <<kind, server, reg, tracked, pending, timers, conn, unsent>>
serverVars == <<reg, tracked, pending, timers>>
Config == UNCHANGED <<kind, server>>

(* Client end: sock, the socket; closeEvent, its close callback is due; user, *)
(* the ISigUser; handler, the ISigHandler is bound; buf and replay, messages   *)
(* that wait for it; got, what it was given; lefts, how often OnLeft ran;      *)
(* asked, Leave() was called with the handler bound.  Server end: sv, and     *)
(* whether another connection of the peer was open at the same time.          *)
NoConn == [peer |-> None, sock |-> "none", closeEvent |-> FALSE, fired |-> FALSE, user |-> "none",
           handler |-> FALSE, buf |-> <<>>, replay |-> <<>>, handed |-> {}, got |-> <<>>,
           leaving |-> FALSE, asked |-> FALSE, lefts |-> 0,
           sv |-> "none", overlapped |-> FALSE, up |-> <<>>, down |-> <<>>]

(* WsSigClient::MakeDefault gives the client of the build. *)
Kinds == {"dc", "js"}

Init ==
    /\ kind \in Kinds /\ server \in {"dc", "node"}
    /\ reg = [p \in Peers |-> None] /\ tracked = [p \in Peers |-> None]
    /\ pending = [p \in Peers |-> <<>>] /\ timers = [p \in Peers |-> 0]
    /\ conn = [c \in Conns |-> NoConn]
    /\ unsent = Msgs

Unused == {c \in Conns : conn[c].peer = None}
Dc(c) == conn[c].peer # None /\ kind = "dc"
Held(c) == conn[c].user = "held"
Changes(c, rec) == conn' = [conn EXCEPT ![c] = rec]
ClientOnly == Config /\ UNCHANGED <<serverVars, unsent>>

-----------------------------------------------------------------------------
(* The clients *)

(* Join: the socket begins to connect. *)
Connect(p) == [NoConn EXCEPT !.peer = p, !.sock = "connecting"]

Join(p) ==
    /\ \E c \in Unused :
          /\ \A d \in Unused : c <= d
          /\ Changes(c, Connect(p))
    /\ ClientOnly

(* onError before the socket opened: the join handler gets an error. *)
OnError(c) ==
    /\ conn[c].sock = "connecting" /\ ~conn[c].fired
    /\ Changes(c, [conn[c] EXCEPT !.sock = "closed", !.fired = TRUE])
    /\ ClientOnly

(* onOpen: the user exists before the join handler runs.  In the browser the  *)
(* handler it returns is bound at once; natively SetHandler follows.          *)
DcOnOpen(rec) == [rec EXCEPT !.sock = "open", !.fired = TRUE, !.user = "held"]
JsOnOpen(rec) == [rec EXCEPT !.sock = "open", !.fired = TRUE, !.user = "held", !.handler = TRUE]

OnOpen(c) ==
    /\ conn[c].sock = "connecting" /\ conn[c].sv = "open" /\ ~conn[c].fired
    /\ Changes(c, IF Dc(c) THEN DcOnOpen(conn[c]) ELSE JsOnOpen(conn[c]))
    /\ ClientOnly

SetHandlerKeepsMutant(c) ==
    /\ Dc(c) /\ conn[c].fired /\ conn[c].user # "none" /\ ~conn[c].handler
    /\ Changes(c, [conn[c] EXCEPT !.handler = TRUE, !.replay = conn[c].buf])
    /\ ClientOnly

SetHandler(c) ==
    /\ Dc(c) /\ conn[c].fired /\ conn[c].user # "none" /\ ~conn[c].handler
    /\ Changes(c, [conn[c] EXCEPT !.handler = TRUE, !.replay = conn[c].buf, !.buf = <<>>])
    /\ ClientOnly

Replay(c) ==
    /\ conn[c].replay # <<>>
    /\ Changes(c, [conn[c] EXCEPT !.replay = Tail(@), !.got = Append(@, Head(conn[c].replay))])
    /\ ClientOnly

(* onMessage: dropped without a user; else delivered, natively under the      *)
(* handler's mutex and buffered until there is a handler.                     *)
DcDeliver(rec, m) ==
    IF rec.handler THEN [rec EXCEPT !.handed = @ \cup {m}, !.got = Append(@, m)]
                   ELSE [rec EXCEPT !.handed = @ \cup {m}, !.buf = Append(@, m)]

JsDeliver(rec, m) ==
    IF rec.handler THEN [rec EXCEPT !.handed = @ \cup {m}, !.got = Append(@, m)] ELSE rec

OnMessage(c) ==
    /\ conn[c].sock = "open" /\ conn[c].down # <<>>
    /\ LET rec == [conn[c] EXCEPT !.down = Tail(@)]
           m == Head(conn[c].down)
       IN  Changes(c, IF ~Held(c) THEN rec ELSE IF Dc(c) THEN DcDeliver(rec, m) ELSE JsDeliver(rec, m))
    /\ ClientOnly

(* Send: dropped unless the socket is open. *)
WsSend(rec, to, m) == [rec EXCEPT !.up = Append(@, [to |-> to, msg |-> m])]

Send(c, to, m) ==
    /\ Held(c) /\ m \in unsent
    /\ unsent' = unsent \ {m}
    /\ IF conn[c].sock = "open" THEN Changes(c, WsSend(conn[c], to, m)) ELSE UNCHANGED conn
    /\ Config /\ UNCHANGED serverVars

(* The handler hears of the end, if it is bound. *)
Left(rec) == IF rec.handler THEN [rec EXCEPT !.lefts = @ + 1] ELSE rec
ClosedSocket(rec) ==
    IF rec.sock = "open" THEN [rec EXCEPT !.sock = "closed", !.closeEvent = TRUE] ELSE rec

(* Leave, once.  The native user closes an open socket, whose close callback  *)
(* notifies, and otherwise notifies itself; the browser's closes and notifies *)
(* at once.                                                                   *)
LeaveSilentMutant(c) ==
    /\ Held(c) /\ ~conn[c].leaving
    /\ LET rec == [conn[c] EXCEPT !.leaving = TRUE, !.asked = conn[c].handler]
       IN  Changes(c, ClosedSocket(rec))
    /\ ClientOnly

DcLeave(rec) == IF rec.sock = "open" THEN ClosedSocket(rec) ELSE Left(rec)
JsLeave(rec) == Left(ClosedSocket(rec))

Leave(c) ==
    /\ Held(c) /\ ~conn[c].leaving
    /\ LET rec == [conn[c] EXCEPT !.leaving = TRUE, !.asked = conn[c].handler]
       IN  Changes(c, IF Dc(c) THEN DcLeave(rec) ELSE JsLeave(rec))
    /\ ClientOnly

(* The destructor of the user closes the socket; nobody is told.  That of the *)
(* browser's takes the socket off the map, so that no close event is due.     *)
DcDrop(rec) == [ClosedSocket(rec) EXCEPT !.user = "gone"]
JsDrop(rec) == [ClosedSocket(rec) EXCEPT !.user = "gone", !.closeEvent = FALSE]

DropUser(c) ==
    /\ Held(c) /\ conn[c].handler /\ conn[c].replay = <<>>
    /\ Changes(c, IF Dc(c) THEN DcDrop(conn[c]) ELSE JsDrop(conn[c]))
    /\ ClientOnly

(* The server or the network closes the socket: it is no longer open, and its *)
(* close callback is due.                                                     *)
SocketBreaks(c) ==
    /\ conn[c].sock = "open"
    /\ Changes(c, ClosedSocket(conn[c]))
    /\ ClientOnly

(* ws.onerror of an open socket, in the browser: the handler takes the socket *)
(* off the map, OnError returns because the join was answered, and the close  *)
(* event that follows finds no entry.                                         *)
OnErrorAfterOpen(c) ==
    /\ ~Dc(c) /\ conn[c].sock = "open"
    /\ Changes(c, [conn[c] EXCEPT !.sock = "closed"])
    /\ ClientOnly

(* onClosed: NotifyClosed natively; in the browser nothing after Leave(),     *)
(* which removed the socket from the map.                                     *)
DcOnClosed(rec) == Left(rec)
JsOnClose(rec) == IF rec.leaving THEN rec ELSE Left(rec)

OnClosed(c) ==
    /\ conn[c].closeEvent
    /\ LET rec == [conn[c] EXCEPT !.closeEvent = FALSE]
       IN  Changes(c, IF ~Held(c) THEN rec ELSE IF Dc(c) THEN DcOnClosed(rec) ELSE JsOnClose(rec))
    /\ ClientOnly

-----------------------------------------------------------------------------
(* The servers *)

(* A connection is accepted: DcWsSigServer registers the peer with the hub    *)
(* and tracks the socket, the relay enters it and flushes what is pending     *)
(* (at DcWsSigServer nothing ever is).                                        *)
OthersOpen(c) == {d \in Conns \ {c} : conn[d].peer = conn[c].peer /\ conn[d].sv = "open"}

FlushPending(p) == pending' = [pending EXCEPT ![p] = <<>>]

DcConnect(p, c) == reg' = [reg EXCEPT ![p] = c] /\ tracked' = [tracked EXCEPT ![p] = c]
NodeConnect(p, c) == reg' = [reg EXCEPT ![p] = c] /\ UNCHANGED tracked

Accept(c) ==
    LET p == conn[c].peer IN
    /\ conn[c].sock = "connecting" /\ conn[c].sv = "none"
    /\ conn' = [d \in Conns |->
                   IF d = c THEN [conn[c] EXCEPT !.sv = "open", !.overlapped = OthersOpen(c) # {},
                                                 !.down = pending[p]]
                   ELSE IF d \in OthersOpen(c) THEN [conn[d] EXCEPT !.overlapped = TRUE]
                   ELSE conn[d]]
    /\ IF server = "dc" THEN DcConnect(p, c) ELSE NodeConnect(p, c)
    /\ FlushPending(p)
    /\ Config /\ UNCHANGED <<timers, unsent>>

(* onMessage at the server.  The hub drops a message for an unknown peer, the *)
(* relay queues it; the first one of a queue starts the queue's timer.        *)
EnqueuePending(p, m) ==
    /\ pending' = [pending EXCEPT ![p] = Append(@, m)]
    /\ timers' = IF pending[p] = <<>> THEN [timers EXCEPT ![p] = @ + 1] ELSE timers

NodeRelay(p, m) ==
    IF reg[p] = None THEN EnqueuePending(p, m) ELSE UNCHANGED <<pending, timers>>

(* WsClientHandler::OnMessage, or conn.send of the relay, towards connection d. *)
Forward(conns, d, m) == [conns EXCEPT ![d].down = Append(@, m)]

Relay(c) ==
    LET p == Head(conn[c].up).to
        m == Head(conn[c].up).msg
        rest == [conn EXCEPT ![c].up = Tail(@)]
    IN  /\ conn[c].sv = "open" /\ conn[c].up # <<>>
        /\ conn' = IF reg[p] # None THEN Forward(rest, reg[p], m) ELSE rest
        /\ IF server = "node" THEN NodeRelay(p, m) ELSE UNCHANGED <<pending, timers>>
        /\ Config /\ UNCHANGED <<reg, tracked, unsent>>

(* The close event of a server end removes the peer's entries, whichever      *)
(* connection they are of.                                                    *)
ServerOnClosedKeepsMutant(c) ==
    LET p == conn[c].peer IN
    /\ conn[c].sv = "open" /\ conn[c].sock = "closed"
    /\ Changes(c, [conn[c] EXCEPT !.sv = "closed", !.up = <<>>, !.down = <<>>])
    /\ tracked' = [tracked EXCEPT ![p] = None]
    /\ Config /\ UNCHANGED <<reg, pending, timers, unsent>>

DcClosed(p) == reg' = [reg EXCEPT ![p] = None] /\ tracked' = [tracked EXCEPT ![p] = None]
NodeClosed(p) == reg' = [reg EXCEPT ![p] = None] /\ UNCHANGED tracked

ServerOnClosed(c) ==
    LET p == conn[c].peer IN
    /\ conn[c].sv = "open" /\ conn[c].sock = "closed"
    /\ Changes(c, [conn[c] EXCEPT !.sv = "closed", !.up = <<>>, !.down = <<>>])
    /\ IF server = "dc" THEN DcClosed(p) ELSE NodeClosed(p)
    /\ Config /\ UNCHANGED <<pending, timers, unsent>>

(* DcWsSigServer::DisconnectPeer closes the tracked socket, if it is open. *)
DisconnectPeer(p) ==
    /\ tracked[p] # None /\ conn[tracked[p]].sock = "open"
    /\ Changes(tracked[p], ClosedSocket(conn[tracked[p]]))
    /\ ClientOnly

(* The relay's timer drops whatever is pending for the peer when it runs. *)
TtlExpires(p) ==
    /\ timers[p] > 0
    /\ timers' = [timers EXCEPT ![p] = @ - 1]
    /\ pending' = [pending EXCEPT ![p] = <<>>]
    /\ Config /\ UNCHANGED <<reg, tracked, conn, unsent>>

-----------------------------------------------------------------------------
Client(c) ==
    \/ OnError(c) \/ OnOpen(c) \/ SetHandler(c) \/ Replay(c) \/ OnMessage(c) \/ Leave(c) \/ DropUser(c)
    \/ SocketBreaks(c) \/ OnErrorAfterOpen(c) \/ OnClosed(c) \/ \E to \in Peers, m \in Msgs : Send(c, to, m)

Next ==
    \/ \E p \in Peers : Join(p) \/ DisconnectPeer(p) \/ TtlExpires(p)
    \/ \E c \in Conns : conn[c].peer # None /\ (Client(c) \/ Accept(c) \/ Relay(c) \/ ServerOnClosed(c))

(* A close callback that is due runs, and SetHandler ends. *)
Fairness == \A c \in Conns : WF_vars(conn[c].peer # None /\ (OnClosed(c) \/ SetHandler(c) \/ Replay(c)))

Spec == Init /\ [][Next]_vars /\ Fairness

-----------------------------------------------------------------------------
(* Properties *)

(* Where a message may be: on its way from or to a client, in a client's        *)
(* backlog, its replay or its handler, or pending at the relay.                 *)
Places == {"up", "down", "buf", "replay", "got"} \X Conns \cup {"pending"} \X Peers

Content(x) ==
    CASE x[1] = "up"      -> [i \in DOMAIN conn[x[2]].up |-> conn[x[2]].up[i].msg]
      [] x[1] = "down"    -> conn[x[2]].down
      [] x[1] = "buf"     -> conn[x[2]].buf
      [] x[1] = "replay"  -> conn[x[2]].replay
      [] x[1] = "got"     -> conn[x[2]].got
      [] x[1] = "pending" -> pending[x[2]]

Elements(s) == {s[i] : i \in DOMAIN s}

(* Relays, queues, a flush on connect, the backlog of SetHandler and its        *)
(* replay outside of the lock: a message is in no place before it is sent and   *)
(* in one at most, once, from then on, and every message a user was handed is   *)
(* buffered, being replayed or was given to the handler.                        *)
DeliveredOnce ==
    /\ \A x \in Places : \A i \in DOMAIN Content(x) :
          /\ Content(x)[i] \notin unsent
          /\ \A y \in Places : \A j \in DOMAIN Content(y) : Content(y)[j] = Content(x)[i] => y = x /\ j = i
    /\ \A c \in Conns :
          conn[c].handed = Elements(conn[c].buf) \cup Elements(conn[c].replay) \cup Elements(conn[c].got)

(* The servers remove entries by peer id, so a connection that closes late      *)
(* takes the entry of the one that replaced it.  A connection that was never    *)
(* open beside another of its peer is reachable while it is open, and an entry  *)
(* never outlives its connection.                                               *)
Reachable ==
    /\ \A c \in Conns : conn[c].sv = "open" /\ ~conn[c].overlapped => reg[conn[c].peer] = c
    /\ \A p \in Peers : reg[p] # None => conn[reg[p]].sv = "open" /\ conn[reg[p]].peer = p

(* Leave() with the handler bound is answered by OnLeft, unless the user is     *)
(* destroyed first: natively by the close callback or, when the socket is       *)
(* closed already, by Leave() itself.                                           *)
LeaveAnswered == \A c \in Conns : conn[c].asked ~> (conn[c].lefts > 0 \/ ~Held(c))
=============================================================================
