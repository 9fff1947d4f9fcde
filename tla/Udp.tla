-------------------------------- MODULE Udp --------------------------------
(***************************************************************************)
(* UdpServer, UdpClient and UdpLink, with the demo that runs on them:      *)
(* RttBridge, ServerTask and ClientTask.                                   *)
(*                                                                         *)
(* Each program has one thread: a completion of Asio and a resumption of   *)
(* its coroutine run to their end.  A completed await only schedules the   *)
(* coroutine, which goes on in a later update of its domain.  Clients send *)
(* their greeting, the server answers and both disconnect.  A send is only *)
(* begun by its caller, and is over when a socket that closes drops it.    *)
(* The network may lose and repeat datagrams.                              *)
(***************************************************************************)
EXTENDS Naturals, Sequences

CONSTANTS Clients,    \* client programs, each with its own endpoint
          Links,      \* links of the server (bounds how many are made)
          MaxCopies,  \* bound on the datagrams in the network to one receiver
          None

ASSUME UdpAssumption == MaxCopies \in Nat /\ None \notin Clients \cup Links

VARIABLES
    keepAlive,  \* -k of the server
    lossy,      \* whether the network misbehaves
    up, down,   \* datagrams in the network, to the server and to each client
    upOut, downOut, \* sends begun and not done, of each client and to each client
    cut,        \* history: clients to whom a send was dropped when the server closed
    listen,     \* the server's socket: "no", "receiving", "deaf" or "closed"
    links,      \* ListenState::links
    link,       \* the server's UdpLinks
    bridge,     \* the server's RttBridge
    task,       \* ServerTask: where it is, its link and the payload it was given
    client      \* the clients, each with task, link and bridge

sendVars == <<upOut, downOut, cut>>
netVars == <<keepAlive, lossy, up, down, sendVars>>
serverVars == <<listen, links, link, bridge, task>>
vars == <<netVars, serverVars, client>>

NoUdpLink == [remote |-> None, closed |-> FALSE, told |-> 0]
NewBridge == [onLink |-> FALSE, onMessage |-> FALSE, pending |-> <<>>]
NoPayload == [from |-> None, gone |-> FALSE]

(* main() of the server takes -k and hands ServerTask to its domain; main() of *)
(* a client does so with ClientTask, unless its port is no number.             *)
ServerMain ==
    /\ keepAlive \in BOOLEAN
    /\ task = [at |-> "start", link |-> None, payload |-> NoPayload]

ClientMain == [at : {"start", "failed"}, bridge : {NewBridge}, open : {FALSE}, payload : {NoPayload}]

Init ==
    /\ ServerMain /\ client \in [Clients -> ClientMain] /\ lossy \in BOOLEAN
    /\ up = [c \in Clients |-> 0] /\ down = [c \in Clients |-> 0]
    /\ upOut = [c \in Clients |-> 0] /\ downOut = [c \in Clients |-> 0] /\ cut = {}
    /\ listen = "no" /\ links = [c \in Clients |-> None]
    /\ link = [l \in Links |-> NoUdpLink]
    /\ bridge = NewBridge

(* A sent datagram arrives once; on a lossy network as often as it likes. *)
Arrivals(n) == IF lossy THEN n .. MaxCopies ELSE {n + 1}

(* UdpLink::Send begins async_send or async_send_to: one more of n sends of   *)
(* its peer is under way.  A closed link sends nothing.                       *)
Send(closed, n) == IF closed THEN n ELSE n + 1

(* Asio does what was begun, on a socket that is still open. *)
ServerSent(c) ==
    /\ downOut[c] > 0
    /\ downOut' = [downOut EXCEPT ![c] = @ - 1]
    /\ \E n \in Arrivals(down[c]) : down' = [down EXCEPT ![c] = IF client[c].open THEN n ELSE 0]
    /\ UNCHANGED <<keepAlive, lossy, up, upOut, cut, serverVars, client>>

ClientSent(c) ==
    /\ upOut[c] > 0
    /\ upOut' = [upOut EXCEPT ![c] = @ - 1]
    /\ \E n \in Arrivals(up[c]) : up' = [up EXCEPT ![c] = n]
    /\ UNCHANGED <<keepAlive, lossy, down, downOut, cut, serverVars, client>>

-----------------------------------------------------------------------------
(* RttBridge.  AwaitLink waits for a link; OnLink of the acceptor gives link   *)
(* l to the coroutine that waits, if one does.                                *)
AwaitLink(b) == [b EXCEPT !.onLink = TRUE]

OnLink(b, t, l) ==
    [bridge |-> [b EXCEPT !.onLink = FALSE],
     task |-> IF b.onLink THEN [t EXCEPT !.at = "linked", !.link = l] ELSE t]

(* Deliver completes the waiting AwaitMessage or queues; an AwaitMessage       *)
(* takes what is queued or waits.  Both return the new bridge and coroutine   *)
(* t, which "message" schedules.                                              *)
DeliverQueuesMutant(b, t, payload) ==
    [bridge |-> [b EXCEPT !.pending = Append(@, payload)], task |-> t]

Deliver(b, t, payload) ==
    IF b.onMessage
    THEN [bridge |-> [b EXCEPT !.onMessage = FALSE],
          task |-> [t EXCEPT !.at = "message", !.payload = payload]]
    ELSE [bridge |-> [b EXCEPT !.pending = Append(@, payload)], task |-> t]

AwaitMessageIgnoresQueueMutant(b, t) ==
    [bridge |-> [b EXCEPT !.onMessage = TRUE], task |-> [t EXCEPT !.at = "awaitMessage"]]

AwaitMessage(b, t) ==
    IF b.pending # <<>>
    THEN [bridge |-> [b EXCEPT !.pending = Tail(@)],
          task |-> [t EXCEPT !.at = "message", !.payload = Head(b.pending)]]
    ELSE [bridge |-> [b EXCEPT !.onMessage = TRUE], task |-> [t EXCEPT !.at = "awaitMessage"]]

-----------------------------------------------------------------------------
(* ServerTask and UdpServer *)

(* The task opens the server and awaits a link; a failed Open gives the       *)
(* acceptor an error, which the bridge ignores.                               *)
ServerStart ==
    /\ task.at = "start"
    /\ listen' \in {"receiving", "no"}
    /\ bridge' = AwaitLink(bridge)
    /\ task' = [task EXCEPT !.at = "awaitLink"]
    /\ UNCHANGED <<netVars, links, link, client>>

(* OnReceived from a known endpoint: its link's handler. *)
ReceiveKnown(c) ==
    LET r == Deliver(bridge, task, [from |-> links[c], gone |-> FALSE]) IN
    /\ listen = "receiving" /\ up[c] > 0 /\ links[c] # None
    /\ up' = [up EXCEPT ![c] = @ - 1]
    /\ bridge' = r.bridge /\ task' = r.task
    /\ UNCHANGED <<keepAlive, lossy, down, sendVars, listen, links, link, client>>

(* ... from a new one: a link on the shared socket, given to the acceptor     *)
(* (who passes it to a waiting AwaitLink and otherwise lets it be), and then  *)
(* the datagram.                                                              *)
SharedLink(c) == [NoUdpLink EXCEPT !.remote = c]
Unused == {l \in Links : link[l].remote = None}

ReceiveNew(c) ==
    LET l == CHOOSE k \in Unused : TRUE
        given == OnLink(bridge, task, l)
        r == Deliver(given.bridge, given.task, [from |-> l, gone |-> FALSE])
    IN  /\ listen = "receiving" /\ up[c] > 0 /\ links[c] = None /\ Unused # {}
        /\ up' = [up EXCEPT ![c] = @ - 1]
        /\ links' = [links EXCEPT ![c] = l]
        /\ link' = [link EXCEPT ![l] = SharedLink(c)]
        /\ bridge' = r.bridge /\ task' = r.task
        /\ UNCHANGED <<keepAlive, lossy, down, sendVars, listen, client>>

(* A receive error ends the receive loop for good. *)
ReceiveError ==
    /\ listen = "receiving" /\ lossy
    /\ listen' = "deaf"
    /\ UNCHANGED <<netVars, links, link, bridge, task, client>>

(* The task goes on with a link: it begins to send, then awaits a message. *)
ServerLinked ==
    LET c == link[task.link].remote
        r == AwaitMessage(bridge, task)
    IN  /\ task.at = "linked"
        /\ downOut' = [downOut EXCEPT ![c] = Send(link[task.link].closed, @)]
        /\ bridge' = r.bridge /\ task' = r.task
        /\ UNCHANGED <<keepAlive, lossy, up, down, upOut, cut, listen, links, link, client>>

(* UdpLink::Disconnect of a shared link: once; out of the map, then the       *)
(* handler, whose bridge has nobody waiting.                                  *)
DisconnectKeepsEntryMutant(l) ==
    /\ link' = [link EXCEPT ![l].closed = TRUE, ![l].told = 1]
    /\ links' = links

Disconnect(l) ==
    IF link[l].closed THEN UNCHANGED <<link, links>>
    ELSE /\ link' = [link EXCEPT ![l].closed = TRUE, ![l].told = @ + 1]
         /\ links' = [links EXCEPT ![link[l].remote] = None]

(* ~UdpServer closes the socket, which drops the sends that are not done. *)
CloseServer ==
    /\ listen' = "closed"
    /\ downOut' = [c \in Clients |-> 0]
    /\ cut' = cut \cup {c \in Clients : downOut[c] > 0}

ServeNext(b) ==
    /\ bridge' = IF keepAlive THEN AwaitLink(b) ELSE b
    /\ task' = [at |-> IF keepAlive THEN "awaitLink" ELSE "done", link |-> None, payload |-> NoPayload]
    /\ IF keepAlive THEN UNCHANGED <<listen, downOut, cut>> ELSE CloseServer

(* The task goes on with a payload.  Without one the peer is taken to have    *)
(* gone and its link is left as it is.  Leaving the loop destroys the server. *)
ServerMessage ==
    LET told == Deliver(bridge, task, [from |-> task.link, gone |-> TRUE]).bridge IN
    /\ task.at = "message"
    /\ IF task.payload.gone
       THEN UNCHANGED <<link, links>> /\ ServeNext(bridge)
       ELSE /\ Disconnect(task.link)
            /\ ServeNext(IF link[task.link].closed THEN bridge ELSE told)
    /\ UNCHANGED <<keepAlive, lossy, up, down, upOut, client>>

-----------------------------------------------------------------------------
(* ClientTask and UdpClient *)

Client(c, rec) == client' = [client EXCEPT ![c] = rec]
ClientBridge(rec, r) ==
    [rec EXCEPT !.at = r.task.at, !.payload = r.task.payload, !.bridge = r.bridge]

ClientStart(c) ==
    /\ client[c].at = "start"
    /\ Client(c, [client[c] EXCEPT !.at = "awaitLink", !.bridge = AwaitLink(@)])
    /\ UNCHANGED <<netVars, serverVars>>

(* The resolver answers: a link on a socket of its own.  An error reaches the *)
(* acceptor, which ignores it.                                                *)
ConnectedLink(rec) == [rec EXCEPT !.at = "linked", !.bridge.onLink = FALSE, !.open = TRUE]

ClientOpen(c) ==
    /\ client[c].at = "awaitLink" /\ client[c].bridge.onLink
    /\ \/ Client(c, ConnectedLink(client[c]))
       \/ lossy /\ Client(c, [client[c] EXCEPT !.at = "stuck"])
    /\ UNCHANGED <<netVars, serverVars>>

ClientLinked(c) ==
    /\ client[c].at = "linked"
    /\ upOut' = [upOut EXCEPT ![c] = Send(~client[c].open, @)]
    /\ Client(c, ClientBridge(client[c], AwaitMessage(client[c].bridge, client[c])))
    /\ UNCHANGED <<keepAlive, lossy, up, down, downOut, cut, serverVars>>

(* The receive of the client's own socket completes: with data, which goes    *)
(* to the handler, or with an error (nobody listened to the greeting), which  *)
(* disconnects the link.                                                      *)
ClientReceive(c) ==
    /\ client[c].open /\ down[c] > 0
    /\ down' = [down EXCEPT ![c] = @ - 1]
    /\ Client(c, ClientBridge(client[c], Deliver(client[c].bridge, client[c], [from |-> c, gone |-> FALSE])))
    /\ UNCHANGED <<keepAlive, lossy, up, sendVars, serverVars>>

ClientError(c) ==
    /\ client[c].open
    /\ \/ lossy /\ UNCHANGED up
       \/ listen \in {"no", "closed"} /\ up[c] > 0 /\ up' = [up EXCEPT ![c] = @ - 1]
    /\ Client(c, ClientBridge([client[c] EXCEPT !.open = FALSE],
                              Deliver(client[c].bridge, client[c], [from |-> c, gone |-> TRUE])))
    /\ upOut' = [upOut EXCEPT ![c] = 0]
    /\ UNCHANGED <<keepAlive, lossy, down, downOut, cut, serverVars>>

ClientMessage(c) ==
    /\ client[c].at = "message"
    /\ Client(c, [client[c] EXCEPT !.at = IF client[c].payload.gone THEN "failed" ELSE "done",
                                   !.open = FALSE, !.payload = NoPayload, !.bridge.pending = <<>>])
    /\ down' = [down EXCEPT ![c] = 0] /\ upOut' = [upOut EXCEPT ![c] = 0]
    /\ UNCHANGED <<keepAlive, lossy, up, downOut, cut, serverVars>>

-----------------------------------------------------------------------------
ServerStep == ServerStart \/ ServerLinked \/ ServerMessage
ClientStep(c) == ClientStart(c) \/ ClientLinked(c) \/ ClientReceive(c) \/ ClientMessage(c)

Next ==
    \/ ServerStep \/ ReceiveError
    \/ \E c \in Clients : \/ ReceiveKnown(c) \/ ReceiveNew(c) \/ ClientStep(c) \/ ClientOpen(c)
                          \/ ClientError(c) \/ ServerSent(c) \/ ClientSent(c)

(* The programs run their loops, Asio does what an open socket was given, and *)
(* a client receives the datagram that is there.                              *)
Fairness ==
    /\ WF_vars(ServerStep)
    /\ \A c \in Clients : WF_vars(ClientStep(c)) /\ WF_vars(ServerSent(c)) /\ WF_vars(ClientSent(c))

Spec == Init /\ [][Next]_vars /\ Fairness

-----------------------------------------------------------------------------
(* Properties *)

(* A peer whose link was disconnected is accepted again when a late datagram  *)
(* arrives, and Disconnect erases by endpoint: the dispatch map is always      *)
(* exactly the open links, under the endpoint of each, and a link tells its    *)
(* handler once, when it closes.                                               *)
MapIsOpenLinks ==
    \A l \in Links :
        link[l].remote # None =>
            /\ ~link[l].closed <=> links[link[l].remote] = l
            /\ link[l].told = IF link[l].closed THEN 1 ELSE 0

(* AwaitMessage and Deliver meet without a lock: nobody waits on onMessage     *)
(* while a message is queued, and a waiting coroutine has its slot filled.     *)
Waits(at, b) == (at = "awaitMessage" <=> b.onMessage) /\ (b.onMessage => b.pending = <<>>)

NoMissedMessage ==
    /\ Waits(task.at, bridge)
    /\ \A c \in Clients : Waits(client[c].at, client[c].bridge)

(* On a network that loses nothing, a client whose link the server task took   *)
(* is answered, its greeting queued before the task awaits it included: the     *)
(* client's program ends with success.  Not so where the reply is dropped: no   *)
(* one awaits a send (the TODO of ServerTask), and without -k the task may      *)
(* return and close the socket before Asio has done it.                         *)
Answered ==
    \A c \in Clients :
        (~lossy /\ task.at = "linked" /\ link[task.link].remote = c)
            ~> (client[c].at = "done" \/ (c \in cut /\ ~keepAlive))
=============================================================================
