----------------------------- MODULE NetProofs -----------------------------
(***************************************************************************)
(* Proofs about the two demo services that talk to a network: Udp, for any *)
(* clients, any supply of links and any network within its bound; and      *)
(* HttpGet, for any finite set of requests, any number of endpoints, and   *)
(* each client in builds with and without exceptions and TLS.              *)
(***************************************************************************)
EXTENDS Udp, HttpGet, FiniteSetTheorems, TLAPS

-----------------------------------------------------------------------------
(* Udp: the state *)

LinkType == [remote : Clients \cup {None}, closed : BOOLEAN, told : Nat]
Payload == [from : Links \cup Clients \cup {None}, gone : BOOLEAN]
Bridge == [onLink : BOOLEAN, onMessage : BOOLEAN, pending : Seq(Payload)]
At == {"start", "awaitLink", "linked", "awaitMessage", "message", "stuck", "done", "failed"}
Task == [at : At, link : Links \cup {None}, payload : Payload]
Program == [at : At, bridge : Bridge, open : BOOLEAN, payload : Payload]

Network ==
    /\ up \in [Clients -> Nat] /\ down \in [Clients -> Nat]
    /\ upOut \in [Clients -> Nat] /\ downOut \in [Clients -> Nat] /\ cut \in SUBSET Clients

TypeOK ==
    /\ keepAlive \in BOOLEAN /\ lossy \in BOOLEAN /\ Network
    /\ listen \in {"no", "receiving", "deaf", "closed"}
    /\ links \in [Clients -> Links \cup {None}]
    /\ link \in [Links -> LinkType]
    /\ bridge \in Bridge /\ task \in Task
    /\ client \in [Clients -> Program]

\* An entry of the map is an open link of its endpoint, an open link has the entry
\* of its endpoint, and a link tells its handler when it closes.
MapInv ==
    /\ \A c \in Clients : links[c] # None => link[links[c]].remote = c /\ ~link[links[c]].closed
    /\ \A l \in Links : link[l].remote # None /\ ~link[l].closed => links[link[l].remote] = l
    /\ \A l \in Links : link[l].told = IF link[l].closed THEN 1 ELSE 0
    /\ \A l \in Links : link[l].closed => link[l].remote # None

\* The task has a link in use between AwaitLink and the end of its message, and
\* the slots of its bridge are filled while it waits in them.
TaskInv ==
    /\ task.at \in {"linked", "awaitMessage", "message"} =>
         task.link # None /\ link[task.link].remote # None
    /\ bridge.onLink => task.at = "awaitLink"

IInv == TypeOK /\ MapInv /\ TaskInv /\ NoMissedMessage

-----------------------------------------------------------------------------
(* RttBridge *)

\* What a bridge and a coroutine t look like after an operation of the bridge: the
\* coroutine is where it was, scheduled with a payload or waiting.
Turns(r, b, t, T) ==
    /\ r.bridge \in Bridge /\ r.bridge.onLink = b.onLink
    /\ r.task \in T /\ Waits(r.task.at, r.bridge)

\* The Deliver of a coroutine's bridge leaves its wait consistent.
LEMMA DeliverTask ==
    ASSUME NEW b \in Bridge, NEW t \in Task, Waits(t.at, b), NEW payload \in Payload
    PROVE  /\ Turns(Deliver(b, t, payload), b, t, Task)
           /\ Deliver(b, t, payload).task.link = t.link
           /\ \/ Deliver(b, t, payload).task.at = t.at
              \/ b.onMessage /\ Deliver(b, t, payload).task.at = "message"
<1> DEFINE r == Deliver(b, t, payload)
<1>1. CASE b.onMessage
  <2>1. /\ r.bridge = [b EXCEPT !.onMessage = FALSE]
        /\ r.task = [t EXCEPT !.at = "message", !.payload = payload]
    BY <1>1 DEF Deliver
  <2>2. r.bridge \in Bridge /\ r.bridge.onLink = b.onLink /\ ~r.bridge.onMessage
    BY <2>1, Zenon DEF Bridge
  <2>3. r.task \in Task /\ r.task.at = "message" /\ r.task.link = t.link BY <2>1, Zenon DEF Task, At
  <2> QED BY <1>1, <2>2, <2>3 DEF Turns, Waits
<1>2. CASE ~b.onMessage
  <2>1. r.bridge = [b EXCEPT !.pending = Append(b.pending, payload)] /\ r.task = t
    BY <1>2 DEF Deliver
  <2>2. Append(b.pending, payload) \in Seq(Payload) BY DEF Bridge
  <2>3. r.bridge \in Bridge /\ r.bridge.onLink = b.onLink /\ ~r.bridge.onMessage
    BY <1>2, <2>1, <2>2 DEF Bridge
  <2>4. t.at # "awaitMessage" BY <1>2 DEF Waits
  <2> QED BY <2>1, <2>3, <2>4 DEF Turns, Waits
<1> QED BY <1>1, <1>2

LEMMA DeliverProgram ==
    ASSUME NEW b \in Bridge, NEW t \in Program, Waits(t.at, b), NEW payload \in Payload
    PROVE  Turns(Deliver(b, t, payload), b, t, Program)
<1> DEFINE r == Deliver(b, t, payload)
<1>1. CASE b.onMessage
  <2>1. /\ r.bridge = [b EXCEPT !.onMessage = FALSE]
        /\ r.task = [t EXCEPT !.at = "message", !.payload = payload]
    BY <1>1 DEF Deliver
  <2>2. r.bridge \in Bridge /\ r.bridge.onLink = b.onLink /\ ~r.bridge.onMessage
    BY <2>1, Zenon DEF Bridge
  <2>3. r.task \in Program /\ r.task.at = "message" BY <2>1, Zenon DEF Program, At
  <2> QED BY <1>1, <2>2, <2>3 DEF Turns, Waits
<1>2. CASE ~b.onMessage
  <2>1. r.bridge = [b EXCEPT !.pending = Append(b.pending, payload)] /\ r.task = t
    BY <1>2 DEF Deliver
  <2>2. Append(b.pending, payload) \in Seq(Payload) BY DEF Bridge
  <2>3. r.bridge \in Bridge /\ r.bridge.onLink = b.onLink /\ ~r.bridge.onMessage
    BY <1>2, <2>1, <2>2 DEF Bridge
  <2>4. t.at # "awaitMessage" BY <1>2 DEF Waits
  <2> QED BY <2>1, <2>3, <2>4 DEF Turns, Waits
<1> QED BY <1>1, <1>2

\* An AwaitMessage takes what is queued, or waits with nothing queued.
LEMMA AwaitMessageTask ==
    ASSUME NEW b \in Bridge, NEW t \in Task, ~b.onMessage
    PROVE  /\ Turns(AwaitMessage(b, t), b, t, Task)
           /\ AwaitMessage(b, t).task.link = t.link
           /\ AwaitMessage(b, t).task.at \in {"awaitMessage", "message"}
<1> DEFINE r == AwaitMessage(b, t)
<1>1. CASE b.pending # <<>>
  <2>1. /\ r.bridge = [b EXCEPT !.pending = Tail(b.pending)]
        /\ r.task = [t EXCEPT !.at = "message", !.payload = Head(b.pending)]
    BY <1>1 DEF AwaitMessage
  <2>2. Tail(b.pending) \in Seq(Payload) /\ Head(b.pending) \in Payload BY <1>1 DEF Bridge
  <2>3. r.bridge \in Bridge /\ r.bridge.onLink = b.onLink /\ ~r.bridge.onMessage
    BY <2>1, <2>2, Zenon DEF Bridge
  <2>4. r.task \in Task /\ r.task.at = "message" /\ r.task.link = t.link BY <2>1, <2>2, Zenon DEF Task, At
  <2> QED BY <2>3, <2>4 DEF Turns, Waits
<1>2. CASE b.pending = <<>>
  <2>1. r.bridge = [b EXCEPT !.onMessage = TRUE] /\ r.task = [t EXCEPT !.at = "awaitMessage"]
    BY <1>2 DEF AwaitMessage
  <2>2. /\ r.bridge \in Bridge /\ r.bridge.onLink = b.onLink /\ r.bridge.onMessage
        /\ r.bridge.pending = <<>>
    BY <1>2, <2>1, Zenon DEF Bridge
  <2>3. r.task \in Task /\ r.task.at = "awaitMessage" /\ r.task.link = t.link BY <2>1 DEF Task, At
  <2> QED BY <2>2, <2>3 DEF Turns, Waits
<1> QED BY <1>1, <1>2

LEMMA AwaitMessageProgram ==
    ASSUME NEW b \in Bridge, NEW t \in Program, ~b.onMessage
    PROVE  Turns(AwaitMessage(b, t), b, t, Program)
<1> DEFINE r == AwaitMessage(b, t)
<1>1. CASE b.pending # <<>>
  <2>1. /\ r.bridge = [b EXCEPT !.pending = Tail(b.pending)]
        /\ r.task = [t EXCEPT !.at = "message", !.payload = Head(b.pending)]
    BY <1>1 DEF AwaitMessage
  <2>2. Tail(b.pending) \in Seq(Payload) /\ Head(b.pending) \in Payload BY <1>1 DEF Bridge
  <2>3. r.bridge \in Bridge /\ r.bridge.onLink = b.onLink /\ ~r.bridge.onMessage
    BY <2>1, <2>2, Zenon DEF Bridge
  <2>4. r.task \in Program /\ r.task.at = "message" BY <2>1, <2>2, Zenon DEF Program, At
  <2> QED BY <2>3, <2>4 DEF Turns, Waits
<1>2. CASE b.pending = <<>>
  <2>1. r.bridge = [b EXCEPT !.onMessage = TRUE] /\ r.task = [t EXCEPT !.at = "awaitMessage"]
    BY <1>2 DEF AwaitMessage
  <2>2. /\ r.bridge \in Bridge /\ r.bridge.onLink = b.onLink /\ r.bridge.onMessage
        /\ r.bridge.pending = <<>>
    BY <1>2, <2>1, Zenon DEF Bridge
  <2>3. r.task \in Program /\ r.task.at = "awaitMessage" BY <2>1 DEF Program, At
  <2> QED BY <2>2, <2>3 DEF Turns, Waits
<1> QED BY <1>1, <1>2

-----------------------------------------------------------------------------
\* A step of client c touches neither the server nor another client.
LEMMA ProgramStep ==
    ASSUME IInv, NEW c \in Clients, NEW rec \in Program, Waits(rec.at, rec.bridge), Client(c, rec),
           UNCHANGED <<keepAlive, lossy, serverVars>>, Network'
    PROVE IInv'
<1>1. /\ client \in [Clients -> Program] /\ client' = [client EXCEPT ![c] = rec]
      /\ \A d \in Clients : Waits(client[d].at, client[d].bridge)
  BY DEF IInv, TypeOK, NoMissedMessage, Client
<1>2. client' \in [Clients -> Program] BY <1>1
<1>3. \A d \in Clients : Waits(client'[d].at, client'[d].bridge) BY <1>1
<1>4. TypeOK' BY <1>2 DEF IInv, TypeOK, serverVars
<1>5. MapInv' /\ TaskInv' BY DEF IInv, MapInv, TaskInv, serverVars
<1>6. Waits(task'.at, bridge') BY DEF IInv, NoMissedMessage, serverVars
<1>7. NoMissedMessage' BY <1>3, <1>6 DEF NoMissedMessage
<1> QED BY <1>4, <1>5, <1>7 DEF IInv

\* A step of the server touches no client.
LEMMA ServerFrame ==
    ASSUME IInv, UNCHANGED <<keepAlive, lossy, client>>,
           Network', listen' \in {"no", "receiving", "deaf", "closed"},
           links' \in [Clients -> Links \cup {None}], link' \in [Links -> LinkType], MapInv',
           bridge' \in Bridge, task' \in Task, TaskInv', Waits(task'.at, bridge')
    PROVE IInv'
<1>1. TypeOK' BY DEF IInv, TypeOK
<1>2. NoMissedMessage' BY DEF IInv, NoMissedMessage
<1> QED BY <1>1, <1>2 DEF IInv

\* One more or less of a peer's datagrams or sends.
LEMMA ArrivalsNat ==
    ASSUME TypeOK, NEW n \in Nat
    PROVE Arrivals(n) \subseteq Nat
BY UdpAssumption DEF TypeOK, Arrivals

LEMMA CountNat ==
    ASSUME NEW f \in [Clients -> Nat], NEW c \in Clients
    PROVE /\ f[c] > 0 => [f EXCEPT ![c] = @ - 1] \in [Clients -> Nat]
          /\ \A n \in Nat : [f EXCEPT ![c] = n] \in [Clients -> Nat]
          /\ \A closed \in BOOLEAN : [f EXCEPT ![c] = Send(closed, @)] \in [Clients -> Nat]
BY DEF Send

\* A send that is done adds to the network what the network makes of it.
LEMMA SentStep ==
    ASSUME IInv, NEW c \in Clients, ServerSent(c) \/ ClientSent(c)
    PROVE IInv'
<1>1. UNCHANGED <<keepAlive, lossy, serverVars, client, cut>> BY DEF ServerSent, ClientSent
<1>2. Network /\ Arrivals(up[c]) \subseteq Nat /\ Arrivals(down[c]) \subseteq Nat
  BY ArrivalsNat DEF IInv, TypeOK, Network
<1>3. Network'
  <2>1. CASE ServerSent(c)
    <3>1. PICK n \in Arrivals(down[c]) : down' = [down EXCEPT ![c] = IF client[c].open THEN n ELSE 0]
      BY <2>1, Zenon DEF ServerSent
    <3>2. down' \in [Clients -> Nat] BY <1>2, <3>1 DEF Network
    <3>3. downOut' \in [Clients -> Nat] BY <1>2, <2>1, CountNat DEF ServerSent, Network
    <3> QED BY <1>1, <1>2, <2>1, <3>2, <3>3 DEF ServerSent, Network
  <2>2. CASE ClientSent(c)
    <3>1. PICK n \in Arrivals(up[c]) : up' = [up EXCEPT ![c] = n] BY <2>2, Zenon DEF ClientSent
    <3>2. up' \in [Clients -> Nat] BY <1>2, <3>1 DEF Network
    <3>3. upOut' \in [Clients -> Nat] BY <1>2, <2>2, CountNat DEF ClientSent, Network
    <3> QED BY <1>1, <1>2, <2>2, <3>2, <3>3 DEF ClientSent, Network
  <2> QED BY <2>1, <2>2
<1>4. TypeOK' BY <1>1, <1>3 DEF IInv, TypeOK, serverVars
<1>5. MapInv' /\ TaskInv' /\ NoMissedMessage'
  BY <1>1 DEF IInv, MapInv, TaskInv, NoMissedMessage, serverVars
<1> QED BY <1>4, <1>5 DEF IInv

LEMMA ServerStartStep == ASSUME IInv, ServerStart PROVE IInv'
<1>1. /\ bridge \in Bridge /\ task \in Task /\ task.at = "start" /\ ~bridge.onMessage
  BY DEF IInv, TypeOK, NoMissedMessage, Waits, ServerStart
<1>2. bridge' = [bridge EXCEPT !.onLink = TRUE] /\ task' = [task EXCEPT !.at = "awaitLink"]
  BY DEF ServerStart, AwaitLink
<1>3. bridge' \in Bridge /\ ~bridge'.onMessage BY <1>1, <1>2, Zenon DEF Bridge
<1>4. task' \in Task /\ task'.at = "awaitLink" BY <1>1, <1>2 DEF Task, At
<1>5. TaskInv' /\ Waits(task'.at, bridge') BY <1>3, <1>4 DEF TaskInv, Waits
<1>6. UNCHANGED <<keepAlive, lossy, up, down, upOut, downOut, cut, links, link, client>>
  BY DEF ServerStart, netVars, sendVars
<1>7. listen' \in {"no", "receiving", "deaf", "closed"} BY DEF ServerStart
<1>8. MapInv' BY <1>6 DEF IInv, MapInv
<1>9. Network' /\ links' \in [Clients -> Links \cup {None}] /\ link' \in [Links -> LinkType]
  BY <1>6 DEF IInv, TypeOK, Network
<1> QED BY <1>3, <1>4, <1>5, <1>6, <1>7, <1>8, <1>9, ServerFrame

LEMMA ReceiveKnownStep == ASSUME IInv, NEW c \in Clients, ReceiveKnown(c) PROVE IInv'
<1> DEFINE payload == [from |-> links[c], gone |-> FALSE]
           r == Deliver(bridge, task, payload)
<1>1. bridge \in Bridge /\ task \in Task /\ Waits(task.at, bridge) /\ payload \in Payload
  BY DEF IInv, TypeOK, NoMissedMessage, Payload
<1>2. bridge' = r.bridge /\ task' = r.task BY DEF ReceiveKnown
<1> HIDE DEF payload
<1>3. /\ Turns(r, bridge, task, Task) /\ r.task.link = task.link
      /\ r.task.at = task.at \/ (bridge.onMessage /\ r.task.at = "message")
  BY <1>1, DeliverTask
<1> HIDE DEF r
<1>4. /\ bridge' \in Bridge /\ task' \in Task /\ Waits(task'.at, bridge')
      /\ bridge'.onLink = bridge.onLink
  BY <1>2, <1>3 DEF Turns
<1>5. UNCHANGED <<keepAlive, lossy, down, upOut, downOut, cut, listen, links, link, client>>
  BY DEF ReceiveKnown, sendVars
<1>6. bridge.onMessage => task.at = "awaitMessage" BY <1>1 DEF Waits
<1>7. TaskInv' BY <1>2, <1>3, <1>4, <1>5, <1>6 DEF IInv, TaskInv
<1>8. MapInv' BY <1>5 DEF IInv, MapInv
<1>9. Network' BY <1>5, CountNat DEF IInv, TypeOK, Network, ReceiveKnown
<1>10. /\ links' \in [Clients -> Links \cup {None}] /\ link' \in [Links -> LinkType]
       /\ listen' \in {"no", "receiving", "deaf", "closed"}
  BY <1>5 DEF IInv, TypeOK
<1> QED BY <1>4, <1>5, <1>7, <1>8, <1>9, <1>10, ServerFrame

\* A datagram of an unknown endpoint: its new link is the only open one there.
LEMMA ReceiveNewStep == ASSUME IInv, NEW c \in Clients, ReceiveNew(c) PROVE IInv'
<1> DEFINE l == CHOOSE k \in Unused : TRUE
           given == OnLink(bridge, task, l)
           payload == [from |-> l, gone |-> FALSE]
           r == Deliver(given.bridge, given.task, payload)
<1>1. /\ links[c] = None /\ up[c] > 0 /\ Unused # {}
      /\ up' = [up EXCEPT ![c] = @ - 1] /\ links' = [links EXCEPT ![c] = l]
      /\ link' = [link EXCEPT ![l] = SharedLink(c)] /\ bridge' = r.bridge /\ task' = r.task
      /\ UNCHANGED <<keepAlive, lossy, down, upOut, downOut, cut, listen, client>>
  BY DEF ReceiveNew, sendVars
<1>2. l \in Links /\ link[l].remote = None BY <1>1 DEF Unused
<1> HIDE DEF l
<1>3. bridge \in Bridge /\ task \in Task /\ Waits(task.at, bridge) /\ payload \in Payload
  BY <1>2 DEF IInv, TypeOK, NoMissedMessage, Payload
<1>4. bridge.onLink => task.at = "awaitLink" /\ ~bridge.onMessage
  BY <1>3 DEF IInv, TaskInv, Waits
<1>5. /\ given.bridge \in Bridge /\ ~given.bridge.onLink
      /\ given.bridge.onMessage = bridge.onMessage /\ given.bridge.pending = bridge.pending
  BY <1>3, Zenon DEF OnLink, Bridge
<1>6. /\ given.task \in Task
      /\ \/ ~bridge.onLink /\ given.task = task
         \/ bridge.onLink /\ given.task.at = "linked" /\ given.task.link = l
  BY <1>2, <1>3, Zenon DEF OnLink, Task, At
<1>7. Waits(given.task.at, given.bridge) BY <1>3, <1>4, <1>5, <1>6 DEF Waits
<1> HIDE DEF given, payload
<1>8. /\ Turns(r, given.bridge, given.task, Task) /\ r.task.link = given.task.link
      /\ r.task.at = given.task.at \/ (given.bridge.onMessage /\ r.task.at = "message")
  BY <1>3, <1>5, <1>6, <1>7, DeliverTask
<1> HIDE DEF r
<1>9. bridge' \in Bridge /\ task' \in Task /\ Waits(task'.at, bridge') /\ ~bridge'.onLink
  BY <1>1, <1>5, <1>8 DEF Turns
<1>10. /\ link' \in [Links -> LinkType] /\ links' \in [Clients -> Links \cup {None}]
       /\ link'[l].remote = c /\ ~link'[l].closed /\ link'[l].told = 0
       /\ \A k \in Links \ {l} : link'[k] = link[k]
       /\ links'[c] = l /\ \A d \in Clients \ {c} : links'[d] = links[d]
  BY <1>1, <1>2 DEF IInv, TypeOK, LinkType, SharedLink, NoUdpLink
<1>11. MapInv'
  <2>1. ~link'[l].closed BY <1>10
  <2>2. \A d \in Clients : links'[d] # None => link'[links'[d]].remote = d /\ ~link'[links'[d]].closed
    <3> SUFFICES ASSUME NEW d \in Clients, links'[d] # None
                 PROVE link'[links'[d]].remote = d /\ ~link'[links'[d]].closed
      OBVIOUS
    <3>1. CASE d = c BY <1>10, <2>1, <3>1
    <3>2. CASE d # c
      <4>1. links'[d] = links[d] /\ links[d] \in Links BY <1>10, <3>2 DEF IInv, TypeOK
      <4>2. link[links[d]].remote = d /\ ~link[links[d]].closed BY <4>1 DEF IInv, MapInv
      <4>3. links[d] # l BY <1>2, <4>2, UdpAssumption
      <4> QED BY <1>10, <4>1, <4>2, <4>3
    <3> QED BY <3>1, <3>2
  <2>3. \A k \in Links : link'[k].remote # None /\ ~link'[k].closed => links'[link'[k].remote] = k
    BY <1>1, <1>10, UdpAssumption DEF IInv, MapInv, TypeOK, LinkType
  <2>4. \A k \in Links : /\ link'[k].told = IF link'[k].closed THEN 1 ELSE 0
                         /\ link'[k].closed => link'[k].remote # None
    BY <1>10, UdpAssumption DEF IInv, MapInv
  <2> QED BY <2>2, <2>3, <2>4 DEF MapInv
<1>12. TaskInv'
  <2>1. given.bridge.onMessage => task.at = "awaitMessage" /\ given.task = task
    BY <1>3, <1>4, <1>5, <1>6 DEF Waits
  <2>2. \A k \in Links : link[k].remote # None => link'[k].remote # None
    BY <1>10, UdpAssumption
  <2>3. task'.at \in {"linked", "awaitMessage", "message"} =>
          task'.link # None /\ link'[task'.link].remote # None
    <3>1. CASE given.task = task
      <4>1. /\ task'.link = task.link
            /\ task'.at \in {"linked", "awaitMessage", "message"} =>
                 task.at \in {"linked", "awaitMessage", "message"}
        BY <1>1, <1>8, <2>1, <3>1
      <4> QED BY <1>3, <2>2, <4>1 DEF IInv, TaskInv, Task
    <3>2. CASE bridge.onLink /\ given.task.link = l
      <4>1. task'.link = l BY <1>1, <1>8, <3>2
      <4> QED BY <1>2, <1>10, <4>1, UdpAssumption
    <3> QED BY <1>6, <3>1, <3>2
  <2> QED BY <1>9, <2>3 DEF TaskInv
<1>13. Network' /\ listen' \in {"no", "receiving", "deaf", "closed"}
  BY <1>1, CountNat DEF IInv, TypeOK, Network
<1> QED BY <1>1, <1>9, <1>10, <1>11, <1>12, <1>13, ServerFrame

LEMMA ReceiveErrorStep == ASSUME IInv, ReceiveError PROVE IInv'
<1>1. /\ UNCHANGED <<keepAlive, lossy, up, down, upOut, downOut, cut, links, link, bridge, task, client>>
      /\ listen' = "deaf"
  BY DEF ReceiveError, netVars, sendVars
<1>2. TypeOK' BY <1>1 DEF IInv, TypeOK, Network
<1>3. MapInv' /\ TaskInv' BY <1>1 DEF IInv, MapInv, TaskInv
<1>4. NoMissedMessage' BY <1>1 DEF IInv, NoMissedMessage
<1> QED BY <1>2, <1>3, <1>4 DEF IInv

LEMMA ServerLinkedStep == ASSUME IInv, ServerLinked PROVE IInv'
<1> DEFINE c == link[task.link].remote
           r == AwaitMessage(bridge, task)
<1>1. /\ task.at = "linked" /\ bridge' = r.bridge /\ task' = r.task
      /\ UNCHANGED <<keepAlive, lossy, up, down, upOut, cut, listen, links, link, client>>
      /\ downOut' = [downOut EXCEPT ![c] = Send(link[task.link].closed, @)]
  BY ZenonT(30) DEF ServerLinked
<1>2. bridge \in Bridge /\ task \in Task /\ ~bridge.onMessage
  BY <1>1 DEF IInv, TypeOK, NoMissedMessage, Waits
<1>3. task.link \in Links /\ c \in Clients
  BY <1>1, <1>2 DEF IInv, TypeOK, TaskInv, Task, LinkType
<1>4. link[task.link].closed \in BOOLEAN BY <1>3 DEF IInv, TypeOK, LinkType
<1>5. downOut \in [Clients -> Nat] BY DEF IInv, TypeOK, Network
<1>6. Network'
  <2> HIDE DEF c
  <2>1. downOut' \in [Clients -> Nat] BY <1>1, <1>3, <1>4, <1>5, CountNat
  <2> QED BY <1>1, <2>1 DEF IInv, TypeOK, Network
<1>7. /\ Turns(r, bridge, task, Task) /\ r.task.link = task.link
      /\ r.task.at \in {"awaitMessage", "message"}
  BY <1>2, AwaitMessageTask
<1> HIDE DEF r
<1>8. /\ bridge' \in Bridge /\ task' \in Task /\ Waits(task'.at, bridge')
      /\ bridge'.onLink = bridge.onLink
  BY <1>1, <1>7 DEF Turns
<1>9. TaskInv' BY <1>1, <1>7, <1>8 DEF IInv, TaskInv
<1>10. MapInv' BY <1>1 DEF IInv, MapInv
<1>11. /\ links' \in [Clients -> Links \cup {None}] /\ link' \in [Links -> LinkType]
       /\ listen' \in {"no", "receiving", "deaf", "closed"}
  BY <1>1 DEF IInv, TypeOK
<1> QED BY <1>1, <1>6, <1>8, <1>9, <1>10, <1>11, ServerFrame

\* The task's Disconnect takes its link out of the map, if it is open.
LEMMA DisconnectMap ==
    ASSUME IInv, NEW l \in Links, link[l].remote # None, Disconnect(l)
    PROVE  /\ link' \in [Links -> LinkType] /\ links' \in [Clients -> Links \cup {None}] /\ MapInv'
<1>1. CASE link[l].closed BY <1>1 DEF Disconnect, IInv, TypeOK, MapInv
<1>2. CASE ~link[l].closed
  <2> DEFINE c == link[l].remote
  <2>1. /\ link \in [Links -> LinkType] /\ links \in [Clients -> Links \cup {None}]
        /\ link[l] \in LinkType
    BY DEF IInv, TypeOK
  <2>2. c \in Clients /\ links[c] = l /\ link[l].told = 0 BY <1>2, <2>1 DEF IInv, MapInv, LinkType
  <2> DEFINE rec == [link[l] EXCEPT !.closed = TRUE, !.told = link[l].told + 1]
  <2>3. link' = [link EXCEPT ![l] = rec] /\ links' = [links EXCEPT ![c] = None]
    BY <1>2, <2>1 DEF Disconnect, LinkType
  <2>4. rec \in LinkType /\ rec.remote = c /\ rec.closed /\ rec.told = 1
    <3> DEFINE n == link[l].told + 1
    <3>1. n = 1 BY <2>2
    <3> HIDE DEF n
    <3>2. rec = [link[l] EXCEPT !.closed = TRUE, !.told = n] BY DEF n
    <3> HIDE DEF rec
    <3> QED BY <2>1, <3>1, <3>2, Zenon DEF LinkType
  <2> HIDE DEF rec, c
  <2>5. /\ link' \in [Links -> LinkType] /\ link'[l] = rec
        /\ \A k \in Links \ {l} : link'[k] = link[k]
    BY <2>1, <2>3, <2>4
  <2>6. /\ links' \in [Clients -> Links \cup {None}] /\ links'[c] = None
        /\ \A d \in Clients \ {c} : links'[d] = links[d]
    BY <2>1, <2>2, <2>3
  <2>7. ASSUME NEW d \in Clients, links'[d] # None
        PROVE link'[links'[d]].remote = d /\ ~link'[links'[d]].closed
    <3>1. d # c /\ links'[d] = links[d] /\ links[d] \in Links BY <2>1, <2>6, <2>7
    <3>2. link[links[d]].remote = d /\ ~link[links[d]].closed BY <3>1, <2>7 DEF IInv, MapInv
    <3>3. links[d] # l BY <3>1, <3>2 DEF c
    <3> QED BY <2>5, <3>1, <3>2, <3>3
  <2>8. ASSUME NEW k \in Links, link'[k].remote # None, ~link'[k].closed
        PROVE links'[link'[k].remote] = k
    <3>1. k # l /\ link'[k] = link[k] BY <2>4, <2>5, <2>8
    <3>2. links[link[k].remote] = k /\ link[k].remote \in Clients
      BY <2>1, <2>8, <3>1 DEF IInv, MapInv, LinkType
    <3>3. link[k].remote # c BY <2>2, <3>1, <3>2
    <3> QED BY <2>6, <3>1, <3>2, <3>3
  <2>9. \A k \in Links : /\ link'[k].told = IF link'[k].closed THEN 1 ELSE 0
                         /\ link'[k].closed => link'[k].remote # None
    <3>1. c # None BY <2>2, UdpAssumption
    <3> QED BY <2>4, <2>5, <3>1 DEF IInv, MapInv
  <2> QED BY <2>5, <2>6, <2>7, <2>8, <2>9 DEF MapInv
<1> QED BY <1>1, <1>2

LEMMA ServerMessageStep == ASSUME IInv, ServerMessage PROVE IInv'
<1> DEFINE payload == [from |-> task.link, gone |-> TRUE]
           told == Deliver(bridge, task, payload).bridge
<1>1. bridge \in Bridge /\ task \in Task /\ Waits(task.at, bridge) /\ task.at = "message"
  BY DEF IInv, TypeOK, NoMissedMessage, ServerMessage
<1>2. task.link \in Links /\ link[task.link].remote # None
  BY <1>1 DEF IInv, TypeOK, TaskInv, Task
<1>3. payload \in Payload BY <1>2 DEF Payload
<1>4. ~bridge.onMessage BY <1>1 DEF Waits
<1>5. told = [bridge EXCEPT !.pending = Append(bridge.pending, payload)] BY <1>4 DEF Deliver
<1>6. Append(bridge.pending, payload) \in Seq(Payload) BY <1>1, <1>3 DEF Bridge
<1>7. told \in Bridge /\ ~told.onMessage BY <1>1, <1>4, <1>5, <1>6, Zenon DEF Bridge
<1> HIDE DEF payload
<1>8. PICK b \in {bridge, told} : ServeNext(b) BY DEF ServerMessage, payload
<1> HIDE DEF told
<1>9. b \in Bridge /\ ~b.onMessage BY <1>1, <1>4, <1>7
<1>10. /\ bridge' \in Bridge /\ ~bridge'.onMessage
       /\ bridge'.onLink => keepAlive \/ b.onLink
  BY <1>8, <1>9, Zenon DEF ServeNext, AwaitLink, Bridge
<1>11. ~b.onLink BY <1>1, <1>5, <1>8 DEF IInv, TaskInv, Bridge
<1>12. task' \in Task /\ task'.at = (IF keepAlive THEN "awaitLink" ELSE "done")
  BY <1>8 DEF ServeNext, Task, At, NoPayload, Payload
<1>13. TaskInv' /\ Waits(task'.at, bridge')
  BY <1>10, <1>11, <1>12 DEF TaskInv, Waits
<1>14. /\ link' \in [Links -> LinkType] /\ links' \in [Clients -> Links \cup {None}] /\ MapInv'
  <2>1. CASE Disconnect(task.link) BY <1>2, <2>1, DisconnectMap
  <2>2. CASE UNCHANGED <<link, links>> BY <2>2 DEF IInv, TypeOK, MapInv
  <2> QED BY <2>1, <2>2 DEF ServerMessage
<1>15. UNCHANGED <<keepAlive, lossy, up, down, upOut, client>> BY DEF ServerMessage
<1>16. Network' /\ listen' \in {"no", "receiving", "deaf", "closed"}
  BY <1>8, <1>15 DEF ServeNext, CloseServer, IInv, TypeOK, Network
<1> QED BY <1>10, <1>12, <1>13, <1>14, <1>15, <1>16, ServerFrame

-----------------------------------------------------------------------------
(* ClientTask and UdpClient *)

LEMMA ClientStartStep ==
    ASSUME IInv, NEW c \in Clients, ClientStart(c) \/ ClientOpen(c) \/ ClientMessage(c)
    PROVE IInv'
<1> DEFINE old == client[c]
<1>1. /\ old \in Program /\ Waits(old.at, old.bridge) /\ old.bridge \in Bridge
      /\ old.at \in {"start", "awaitLink", "message"}
  BY DEF IInv, TypeOK, NoMissedMessage, Program, ClientStart, ClientOpen, ConnectedLink, ClientMessage
<1>2. ~old.bridge.onMessage BY <1>1 DEF Waits
<1>3. PICK rec : Client(c, rec)
                 /\ \/ rec = [old EXCEPT !.at = "awaitLink", !.bridge = [old.bridge EXCEPT !.onLink = TRUE]]
                    \/ rec = [old EXCEPT !.at = "linked", !.bridge.onLink = FALSE, !.open = TRUE]
                    \/ rec = [old EXCEPT !.at = "stuck"]
                    \/ rec = [old EXCEPT !.at = IF old.payload.gone THEN "failed" ELSE "done",
                                         !.open = FALSE, !.payload = NoPayload,
                                         !.bridge.pending = <<>>]
  BY DEF ClientStart, ClientOpen, ConnectedLink, ClientMessage, AwaitLink
<1>4. \A b \in BOOLEAN : [old.bridge EXCEPT !.onLink = b] \in Bridge
                         /\ ~[old.bridge EXCEPT !.onLink = b].onMessage
  BY <1>1, <1>2 DEF Bridge
<1>5. [old.bridge EXCEPT !.pending = <<>>] \in Bridge
      /\ ~[old.bridge EXCEPT !.pending = <<>>].onMessage
  <2> DEFINE none == <<>>
  <2>1. none \in Seq(Payload) OBVIOUS
  <2> HIDE DEF none
  <2>2. [old.bridge EXCEPT !.pending = none] \in Bridge
        /\ ~[old.bridge EXCEPT !.pending = none].onMessage
    BY <1>1, <1>2, <2>1 DEF Bridge
  <2> QED BY <2>2 DEF none
<1>6. NoPayload \in Payload BY DEF NoPayload, Payload
<1>7. /\ rec \in Program /\ ~rec.bridge.onMessage
      /\ rec.at \in {"awaitLink", "linked", "stuck", "failed", "done"}
  BY <1>1, <1>2, <1>3, <1>4, <1>5, <1>6, ZenonT(30) DEF Program, At
<1>8. Waits(rec.at, rec.bridge) BY <1>7 DEF Waits
<1>9. /\ UNCHANGED <<keepAlive, lossy, up, downOut, cut, serverVars>>
      /\ down' = down \/ down' = [down EXCEPT ![c] = 0]
      /\ upOut' = upOut \/ upOut' = [upOut EXCEPT ![c] = 0]
  BY DEF ClientStart, ClientOpen, ClientMessage, netVars, sendVars
<1>10. Network' BY <1>9 DEF IInv, TypeOK, Network
<1> QED BY <1>3, <1>7, <1>8, <1>9, <1>10, ProgramStep

\* What a client's program makes of an operation of its bridge.
LEMMA ClientBridgeProgram ==
    ASSUME NEW rec \in Program, NEW r, NEW b, NEW t, Turns(r, b, t, Program)
    PROVE  /\ ClientBridge(rec, r) \in Program
           /\ Waits(ClientBridge(rec, r).at, ClientBridge(rec, r).bridge)
<1>1. r.task.at \in At /\ r.task.payload \in Payload /\ r.bridge \in Bridge
  BY DEF Turns, Program
<1>2. /\ ClientBridge(rec, r) \in Program
      /\ ClientBridge(rec, r).at = r.task.at /\ ClientBridge(rec, r).bridge = r.bridge
  BY <1>1, Zenon DEF ClientBridge, Program
<1> QED BY <1>2 DEF Turns

LEMMA ClientLinkedStep == ASSUME IInv, NEW c \in Clients, ClientLinked(c) PROVE IInv'
<1> DEFINE old == client[c]
           r == AwaitMessage(old.bridge, old)
<1>1. /\ old \in Program /\ old.bridge \in Bridge /\ ~old.bridge.onMessage /\ old.open \in BOOLEAN
  BY DEF IInv, TypeOK, NoMissedMessage, Waits, Program, ClientLinked
<1>2. Turns(r, old.bridge, old, Program) BY <1>1, AwaitMessageProgram
<1>3. /\ Client(c, ClientBridge(old, r)) /\ UNCHANGED <<keepAlive, lossy, up, down, downOut, cut, serverVars>>
      /\ upOut' = [upOut EXCEPT ![c] = Send(~old.open, @)]
  BY DEF ClientLinked
<1>4. (~old.open) \in BOOLEAN /\ upOut \in [Clients -> Nat] BY <1>1 DEF IInv, TypeOK, Network
<1>5. upOut' \in [Clients -> Nat] BY <1>3, <1>4, CountNat, Zenon
<1>7. Network' BY <1>3, <1>5 DEF IInv, TypeOK, Network
<1> HIDE DEF r
<1>8. /\ ClientBridge(old, r) \in Program
      /\ Waits(ClientBridge(old, r).at, ClientBridge(old, r).bridge)
  BY <1>1, <1>2, ClientBridgeProgram
<1> QED BY <1>3, <1>7, <1>8, ProgramStep

LEMMA ClientReceiveStep ==
    ASSUME IInv, NEW c \in Clients, ClientReceive(c) \/ ClientError(c)
    PROVE IInv'
<1> DEFINE old == client[c]
           r(gone) == Deliver(old.bridge, old, [from |-> c, gone |-> gone])
<1>1. old \in Program /\ old.bridge \in Bridge /\ Waits(old.at, old.bridge)
  BY DEF IInv, TypeOK, NoMissedMessage, Program
<1>2. \A gone \in BOOLEAN : [from |-> c, gone |-> gone] \in Payload BY DEF Payload
<1>3. \A gone \in BOOLEAN : Turns(r(gone), old.bridge, old, Program)
  BY <1>1, <1>2, DeliverProgram
<1>4. PICK gone \in BOOLEAN, rec \in {old, [old EXCEPT !.open = FALSE]} :
        Client(c, ClientBridge(rec, r(gone)))
  BY Zenon DEF ClientReceive, ClientError
<1>5. rec \in Program BY <1>1, Zenon DEF Program
<1> HIDE DEF r
<1>6. /\ ClientBridge(rec, r(gone)) \in Program
      /\ Waits(ClientBridge(rec, r(gone)).at, ClientBridge(rec, r(gone)).bridge)
  BY <1>3, <1>5, ClientBridgeProgram
<1>7. Network BY DEF IInv, TypeOK
<1>8. Network'
  <2>1. CASE ClientReceive(c)
    <3>1. /\ down[c] > 0 /\ down' = [down EXCEPT ![c] = @ - 1] /\ UNCHANGED <<up, upOut, downOut, cut>>
      BY <2>1 DEF ClientReceive, sendVars
    <3> QED BY <1>7, <3>1, CountNat DEF Network
  <2>2. CASE ClientError(c)
    <3>1. /\ UNCHANGED up \/ (up[c] > 0 /\ up' = [up EXCEPT ![c] = @ - 1])
          /\ upOut' = [upOut EXCEPT ![c] = 0] /\ UNCHANGED <<down, downOut, cut>>
      BY <2>2 DEF ClientError
    <3> QED BY <1>7, <3>1, CountNat DEF Network
  <2> QED BY <2>1, <2>2
<1>9. UNCHANGED <<keepAlive, lossy, serverVars>> BY DEF ClientReceive, ClientError
<1> QED BY <1>4, <1>6, <1>8, <1>9, ProgramStep

-----------------------------------------------------------------------------
LEMMA InductiveStep == IInv /\ [Next]_vars => IInv'
<1> SUFFICES ASSUME IInv, [Next]_vars PROVE IInv'
  OBVIOUS
<1>1. CASE UNCHANGED vars
  <2>1. TypeOK' BY <1>1 DEF IInv, TypeOK, Network, vars, netVars, sendVars, serverVars
  <2>2. MapInv' /\ TaskInv' BY <1>1, Zenon DEF IInv, MapInv, TaskInv, vars, netVars, serverVars
  <2>3. NoMissedMessage' BY <1>1 DEF IInv, NoMissedMessage, vars, netVars, serverVars
  <2> QED BY <2>1, <2>2, <2>3 DEF IInv
<1>2. ASSUME NEW c \in Clients, ClientStep(c) PROVE IInv'
  BY <1>2, ClientStartStep, ClientLinkedStep, ClientReceiveStep DEF ClientStep
<1>3. CASE ServerStep BY <1>3, ServerStartStep, ServerLinkedStep, ServerMessageStep DEF ServerStep
<1> HIDE DEF IInv
<1> QED BY <1>1, <1>2, <1>3, ReceiveErrorStep, ReceiveKnownStep, ReceiveNewStep, ClientStartStep,
           ClientReceiveStep, SentStep DEF Next

LEMMA Initially == Init => IInv
<1> SUFFICES ASSUME Init PROVE IInv OBVIOUS
<1>1. /\ NewBridge \in Bridge /\ ~NewBridge.onLink /\ ~NewBridge.onMessage /\ NewBridge.pending = <<>>
  BY DEF NewBridge, Bridge
<1>2. NoPayload \in Payload BY DEF NoPayload, Payload
<1>3. NoUdpLink \in LinkType BY DEF NoUdpLink, LinkType
<1>4. task \in Task /\ task.at = "start" BY <1>2 DEF Init, ServerMain, Task, At
<1>5. client \in [Clients -> Program]
      /\ \A c \in Clients : client[c].at \in {"start", "failed"} /\ client[c].bridge = NewBridge
  <2>1. client \in [Clients -> ClientMain] BY DEF Init
  <2>2. ClientMain \subseteq Program BY <1>1, <1>2 DEF ClientMain, Program, At
  <2>3. \A r \in ClientMain : r.at \in {"start", "failed"} /\ r.bridge = NewBridge BY DEF ClientMain
  <2> HIDE DEF ClientMain
  <2> QED BY <2>1, <2>2, <2>3
<1>6. TypeOK
  <2>1. Network BY DEF Init, ServerMain, Network
  <2>2. keepAlive \in BOOLEAN BY Zenon DEF Init, ServerMain
  <2> QED BY <1>1, <1>3, <1>4, <1>5, <2>1, <2>2, ZenonT(30) DEF Init, TypeOK
<1>7. MapInv BY DEF Init, MapInv, NoUdpLink
<1>8. TaskInv BY <1>1, <1>4 DEF Init, TaskInv
<1>9. NoMissedMessage BY <1>1, <1>4, <1>5 DEF Init, NoMissedMessage, Waits
<1> QED BY <1>6, <1>7, <1>8, <1>9 DEF IInv

\* The invariant holds in every state.
THEOREM Invariance == Spec => []IInv
BY Initially, InductiveStep, PTL DEF Spec

\* The variables keep their types.
THEOREM Typing == Spec => []TypeOK
<1>1. IInv => TypeOK BY DEF IInv
<1> QED BY <1>1, Invariance, PTL

\* UdpLink::Disconnect erases by endpoint and OnReceived accepts by endpoint: the
\* dispatch map stays exactly the open links.
THEOREM DispatchExact == Spec => []MapIsOpenLinks
<1>1. IInv => MapIsOpenLinks
  <2> SUFFICES ASSUME IInv, NEW l \in Links, link[l].remote # None
               PROVE  /\ ~link[l].closed <=> links[link[l].remote] = l
                      /\ link[l].told = IF link[l].closed THEN 1 ELSE 0
    BY DEF MapIsOpenLinks
  <2>1. link[l].remote \in Clients /\ l # None
    BY UdpAssumption DEF IInv, TypeOK, LinkType
  <2> QED BY <2>1 DEF IInv, MapInv
<1> QED BY <1>1, Invariance, PTL

\* RttBridge's Deliver and AwaitMessage: nobody waits while a message is queued.
THEOREM NoLostWakeup == Spec => []NoMissedMessage
<1>1. IInv => NoMissedMessage BY DEF IInv
<1> QED BY <1>1, Invariance, PTL

-----------------------------------------------------------------------------
(* HttpGet: the state *)

Early == {"idle", "spawned", "parse", "resolve", "fetch", "text"}

RequestType ==
    [at : Early \cup Pending \cup {"over", "aborted"}, stop : BOOLEAN, cancelled : BOOLEAN,
     tls : BOOLEAN, left : Nat, holds : [Objects -> Holding], finisher : BOOLEAN,
     connected : Nat, finished : Nat, calls : Nat, ok : BOOLEAN]

HttpTypeOK ==
    /\ httpClient \in {"beast", "js", "em"} /\ exceptions \in BOOLEAN /\ withSsl \in BOOLEAN
    /\ selectedUrls \in SUBSET Requests
    /\ req \in [selectedUrls -> RequestType]
    /\ main \in [at : {"start", "receive", "done"}, received : Nat, code : Nat]
    /\ completions \in Nat /\ errorCount \in Nat

\* The one object that holds the request's socket, or no object; with a finished TLS
\* session only in an SslConnection.  A connected socket has left TcpConnect.
HeldBy(q, o) ==
    /\ \A p \in Objects : q.holds[p] # "nothing" <=> p = o
    /\ \A p \in Objects : q.holds[p] = "session" => p \in {"sslConnection", "resultSslConnection"}
    /\ q.connected = (IF o \in {"none", "socket"} THEN 0 ELSE 1) /\ q.finished = 0

\* A request that is over has ended its connected socket, or has its shutdown running.
Ended(q) ==
    /\ \A o \in Objects : q.holds[o] # "nothing" <=> o = "finisher" /\ q.finisher
    /\ q.finisher => q.holds["finisher"] = "session"
    /\ q.connected = q.finished + (IF q.finisher THEN 1 ELSE 0)

\* A request before its connect has no socket, a pending operation has it where it uses
\* it; only a request that is over has been handled, has its shutdown running or has
\* succeeded.
Sound(q) ==
    /\ q.calls = IF q.at = "over" THEN 1 ELSE 0
    /\ q.at \in Early => HeldBy(q, "none")
    /\ q.at \in Pending => HeldBy(q, User(q))
    /\ q.at = "handshake" => q.tls
    /\ q.at = "over" => Ended(q)
    /\ q.at # "over" => ~q.finisher /\ ~q.ok
SoundInv == \A r \in selectedUrls : Sound(req[r])

\* Nothing is asked for before CoroMain, whose channel and error count follow the
\* handlers; when it ends every request is over.
Overs == {r \in selectedUrls : req[r].at = "over"}
Failures == {r \in selectedUrls : req[r].at = "over" /\ ~req[r].ok}

MainInv ==
    /\ main.at = "start" => \A r \in selectedUrls : req[r].at = "idle"
    /\ main.at = "receive" => selectedUrls # {}
    /\ completions + main.received = Cardinality(Overs)
    /\ errorCount = Cardinality(Failures)
    /\ main.at = "done" =>
          /\ main.code = IF selectedUrls = {} THEN 1 ELSE errorCount
          /\ \A r \in selectedUrls : req[r].at = "over"

HttpIInv == HttpTypeOK /\ SoundInv /\ MainInv

-----------------------------------------------------------------------------
\* A request on its way to its end: not handled yet, its socket in at most one of the
\* objects of GetAsyncImpl and SslConnect.
Scoped == {"none", "tcpConnection", "sslConnection", "resultSslConnection"}
Ending(q) ==
    /\ q \in RequestType /\ q.calls = 0 /\ ~q.finisher /\ ~q.ok
    /\ \E o \in Scoped : HeldBy(q, o)
Valid(q) == q \in RequestType /\ Sound(q)

\* n differs from q in its sockets only.
Keeps(q, n) ==
    /\ n \in RequestType /\ n.at = q.at /\ n.stop = q.stop /\ n.cancelled = q.cancelled
    /\ n.tls = q.tls /\ n.left = q.left /\ n.calls = q.calls /\ n.ok = q.ok

LEMMA MoveFacts ==
    ASSUME NEW q \in RequestType, NEW from \in Objects, NEW to \in Objects, from # to
    PROVE  LET n == Move(q, from, to) IN
           /\ Keeps(q, n) /\ n.finisher = q.finisher
           /\ n.connected = q.connected /\ n.finished = q.finished
           /\ n.holds[to] = q.holds[from] /\ n.holds[from] = "nothing"
           /\ \A o \in Objects \ {from, to} : n.holds[o] = q.holds[o]
<1> DEFINE h == [q.holds EXCEPT ![to] = q.holds[from], ![from] = "nothing"]
           n == [q EXCEPT !.holds = h]
<1>1. Move(q, from, to) = n BY DEF Move
<1>2. q.holds \in [Objects -> Holding] BY DEF RequestType
<1>3. h \in [Objects -> Holding] BY <1>2 DEF Holding
<1>4. /\ h[to] = q.holds[from] /\ h[from] = "nothing"
      /\ \A o \in Objects \ {from, to} : h[o] = q.holds[o]
  BY <1>2
<1> HIDE DEF h
<1>5. Keeps(q, n) /\ n.finisher = q.finisher /\ n.connected = q.connected /\ n.finished = q.finished
      /\ n.holds = h
  BY <1>3, ZenonT(30) DEF Keeps, RequestType
<1> HIDE DEF n
<1> QED BY <1>1, <1>4, <1>5

LEMMA FinishFacts ==
    ASSUME NEW q \in RequestType, NEW o \in Objects
    PROVE  LET n == SocketFinish(q, o) IN
           /\ Keeps(q, n) /\ n.finisher = q.finisher /\ n.connected = q.connected
           /\ q.holds[o] = "nothing" => n = q
           /\ q.holds[o] # "nothing" => n.finished = q.finished + 1
           /\ n.holds[o] = "nothing" /\ \A p \in Objects \ {o} : n.holds[p] = q.holds[p]
<1>1. CASE q.holds[o] = "nothing" BY <1>1 DEF SocketFinish, Keeps
<1>2. CASE q.holds[o] # "nothing"
  <2> DEFINE h == [q.holds EXCEPT ![o] = "nothing"]
             k == q.finished + 1
             n == [q EXCEPT !.holds = h, !.finished = k]
  <2>1. SocketFinish(q, o) = n BY <1>2 DEF SocketFinish
  <2>2. q.holds \in [Objects -> Holding] /\ k \in Nat BY DEF RequestType
  <2>3. h \in [Objects -> Holding] BY <2>2 DEF Holding
  <2>4. h[o] = "nothing" /\ \A p \in Objects \ {o} : h[p] = q.holds[p] BY <2>2
  <2> HIDE DEF h, k
  <2>5. /\ Keeps(q, n) /\ n.finisher = q.finisher /\ n.connected = q.connected
        /\ n.finished = k /\ n.holds = h
    BY <2>2, <2>3, ZenonT(30) DEF Keeps, RequestType
  <2> HIDE DEF n
  <2>6. n.finished = q.finished + 1 BY <2>5 DEF k
  <2> QED BY <1>2, <2>1, <2>4, <2>5, <2>6, Zenon
<1> QED BY <1>1, <1>2

\* ~SslConnection looks at its own object: it finishes its socket, hands its session
\* over, or, moved from, does nothing.
LEMMA GoneFacts ==
    ASSUME NEW q \in RequestType, NEW o \in {"sslConnection", "resultSslConnection"}
    PROVE  LET n == SslGone(q, o) IN
           /\ Keeps(q, n) /\ n.connected = q.connected
           /\ q.holds[o] = "nothing" => n = q
           /\ q.holds[o] = "socket" => n.finisher = q.finisher /\ n.finished = q.finished + 1
                                      /\ \A p \in Objects \ {o} : n.holds[p] = q.holds[p]
           /\ q.holds[o] = "session" => n.finisher /\ n.finished = q.finished
                                       /\ n.holds["finisher"] = "session"
                                       /\ \A p \in Objects \ {o, "finisher"} : n.holds[p] = q.holds[p]
           /\ n.holds[o] = "nothing"
<1>0. o \in Objects /\ "finisher" \in Objects /\ o # "finisher" BY DEF Objects
<1>1. CASE q.holds[o] # "session"
  <2>1. SslGone(q, o) = SocketFinish(q, o) BY <1>1 DEF SslGone
  <2> QED BY <1>0, <1>1, <2>1, FinishFacts
<1>2. CASE q.holds[o] = "session"
  <2> DEFINE m == Move(q, o, "finisher")
             n == [m EXCEPT !.finisher = TRUE]
  <2>1. SslGone(q, o) = n BY <1>2 DEF SslGone
  <2>2. /\ Keeps(q, m) /\ m.connected = q.connected /\ m.finished = q.finished
        /\ m.holds["finisher"] = "session" /\ m.holds[o] = "nothing"
        /\ \A p \in Objects \ {o, "finisher"} : m.holds[p] = q.holds[p]
    BY <1>0, <1>2, MoveFacts
  <2> HIDE DEF m
  <2>3. Keeps(m, n) /\ n.finisher /\ n.holds = m.holds /\ n.connected = m.connected
        /\ n.finished = m.finished
    BY <2>2, ZenonT(30) DEF Keeps, RequestType
  <2> HIDE DEF n
  <2>4. Keeps(q, n) BY <2>2, <2>3 DEF Keeps
  <2> QED BY <1>2, <2>1, <2>2, <2>3, <2>4
<1> QED BY <1>1, <1>2

\* Whichever object holds the socket, the destructors end it once or hand it to the
\* shutdown.
LEMMA ReleaseEnds ==
    ASSUME NEW q, Ending(q)
    PROVE  Keeps(q, Release(q)) /\ Ended(Release(q))
<1> DEFINE a == SslGone(q, "sslConnection")
           b == SslGone(a, "resultSslConnection")
           c == SocketFinish(b, "tcpConnection")
<1>0. PICK o \in Scoped : HeldBy(q, o) BY DEF Ending
<1>1. q \in RequestType /\ ~q.finisher BY DEF Ending
<1>2. \A p \in Objects : q.holds[p] \in Holding BY <1>1 DEF RequestType
<1>3. Release(q) = c BY DEF Release
<1>4. Keeps(q, a) /\ a.connected = q.connected BY <1>1, GoneFacts
<1>5. a \in RequestType BY <1>4 DEF Keeps
<1>6. Keeps(a, b) /\ b.connected = a.connected BY <1>5, GoneFacts
<1>7. b \in RequestType BY <1>6 DEF Keeps
<1>8. Keeps(b, c) /\ c.connected = b.connected BY <1>7, FinishFacts DEF Objects
<1>9. Keeps(q, c) BY <1>4, <1>6, <1>8 DEF Keeps
<1>10. Ended(c)
  <2>1. CASE o = "none"
    <3>1. \A p \in Objects : q.holds[p] = "nothing" BY <1>0, <2>1 DEF HeldBy, Objects
    <3>2. a = q BY <1>1, <3>1, GoneFacts DEF Objects
    <3>3. b = q BY <1>1, <3>1, <3>2, GoneFacts DEF Objects
    <3>4. c = q BY <1>1, <3>1, <3>3, FinishFacts DEF Objects
    <3>5. q.connected = 0 /\ q.finished = 0 BY <1>0, <2>1 DEF HeldBy
    <3> HIDE DEF a, b, c
    <3> QED BY <1>1, <3>1, <3>4, <3>5 DEF Ended
  <2>2. CASE o = "tcpConnection"
    <3>1. /\ q.holds["tcpConnection"] # "nothing"
          /\ \A p \in Objects \ {"tcpConnection"} : q.holds[p] = "nothing"
      BY <1>0, <2>2 DEF HeldBy, Objects
    <3>2. a = q BY <1>1, <3>1, GoneFacts DEF Objects
    <3>3. b = q BY <1>1, <3>1, <3>2, GoneFacts DEF Objects
    <3> HIDE DEF a, b
    <3>4. /\ c.finished = q.finished + 1 /\ ~c.finisher
          /\ \A p \in Objects : c.holds[p] = "nothing"
      BY <1>1, <3>1, <3>3, FinishFacts DEF Objects
    <3>5. q.connected = 1 /\ q.finished = 0 BY <1>0, <2>2 DEF HeldBy
    <3> HIDE DEF c
    <3> QED BY <1>4, <1>6, <1>8, <3>4, <3>5 DEF Ended
  <2>3. CASE o = "sslConnection"
    <3>1. /\ q.holds["sslConnection"] \in {"socket", "session"}
          /\ \A p \in Objects \ {"sslConnection"} : q.holds[p] = "nothing"
      BY <1>0, <1>2, <2>3 DEF HeldBy, Objects, Holding
    <3>2. /\ \A p \in Objects \ {"finisher"} : a.holds[p] = "nothing"
          /\ q.holds["sslConnection"] = "socket" =>
                ~a.finisher /\ a.finished = q.finished + 1 /\ a.holds["finisher"] = "nothing"
          /\ q.holds["sslConnection"] = "session" =>
                a.finisher /\ a.finished = q.finished /\ a.holds["finisher"] = "session"
      BY <1>1, <3>1, GoneFacts DEF Objects
    <3>3. b = a BY <1>5, <3>2, GoneFacts DEF Objects
    <3>4. c = a BY <1>5, <3>2, <3>3, FinishFacts DEF Objects
    <3>5. q.connected = 1 /\ q.finished = 0 BY <1>0, <2>3 DEF HeldBy
    <3> HIDE DEF a, b, c
    <3> QED BY <1>4, <3>1, <3>2, <3>4, <3>5 DEF Ended, Objects
  <2>4. CASE o = "resultSslConnection"
    <3>1. /\ q.holds["resultSslConnection"] \in {"socket", "session"}
          /\ \A p \in Objects \ {"resultSslConnection"} : q.holds[p] = "nothing"
      BY <1>0, <1>2, <2>4 DEF HeldBy, Objects, Holding
    <3>2. a = q BY <1>1, <3>1, GoneFacts DEF Objects
    <3> HIDE DEF a
    <3>3. /\ \A p \in Objects \ {"finisher"} : b.holds[p] = "nothing"
          /\ q.holds["resultSslConnection"] = "socket" =>
                ~b.finisher /\ b.finished = q.finished + 1 /\ b.holds["finisher"] = "nothing"
          /\ q.holds["resultSslConnection"] = "session" =>
                b.finisher /\ b.finished = q.finished /\ b.holds["finisher"] = "session"
      BY <1>1, <3>1, <3>2, GoneFacts DEF Objects
    <3>5. q.connected = 1 /\ q.finished = 0 BY <1>0, <2>4 DEF HeldBy
    <3>6. "tcpConnection" \in Objects /\ b.holds["tcpConnection"] = "nothing" BY <3>3 DEF Objects
    <3> HIDE DEF b
    <3>4. c = b BY <1>7, <3>6, FinishFacts
    <3> HIDE DEF c
    <3> QED BY <1>4, <1>6, <3>1, <3>3, <3>4, <3>5 DEF Ended, Objects
  <2> QED BY <2>1, <2>2, <2>3, <2>4 DEF Scoped
<1> QED BY <1>3, <1>9, <1>10

\* The end of the coroutine also calls the handler, once.
LEMMA OverValid ==
    ASSUME NEW q, Ending(q), NEW ok \in BOOLEAN
    PROVE Valid(Over(q, ok))
<1> DEFINE rel == Release(q)
<1>1. rel \in RequestType /\ rel.calls = 0 /\ Ended(rel) BY ReleaseEnds DEF Keeps, Ending
<1>2. Over(q, ok) = [rel EXCEPT !.at = "over", !.ok = ok, !.calls = rel.calls + 1] BY DEF Over
<1> HIDE DEF rel
<1>3. Over(q, ok) = [rel EXCEPT !.at = "over", !.ok = ok, !.calls = 1] BY <1>1, <1>2
<1> DEFINE rec == [rel EXCEPT !.at = "over", !.ok = ok, !.calls = 1]
<1>4. /\ rec \in RequestType /\ rec.at = "over" /\ rec.calls = 1
      /\ rec.holds = rel.holds /\ rec.finisher = rel.finisher
      /\ rec.connected = rel.connected /\ rec.finished = rel.finished
  BY <1>1, ZenonT(30) DEF RequestType
<1> HIDE DEF rec
<1>5. Ended(rec) BY <1>1, <1>4 DEF Ended
<1>6. Valid(rec) BY <1>4, <1>5 DEF Valid, Sound, Early, Pending
<1> QED BY <1>3, <1>6 DEF rec

\* Moving to another place changes nothing else.
LEMMA AtFacts ==
    ASSUME NEW q \in RequestType, NEW at \in Early \cup Pending \cup {"over", "aborted"}
    PROVE  LET n == [q EXCEPT !.at = at] IN
           /\ n \in RequestType /\ n.at = at /\ n.calls = q.calls /\ n.finisher = q.finisher
           /\ n.ok = q.ok /\ n.tls = q.tls /\ n.stop = q.stop /\ n.cancelled = q.cancelled
           /\ \A o : HeldBy(q, o) => HeldBy(n, o)
<1> DEFINE n == [q EXCEPT !.at = at]
<1>1. /\ n \in RequestType /\ n.at = at /\ n.calls = q.calls /\ n.finisher = q.finisher
      /\ n.ok = q.ok /\ n.tls = q.tls /\ n.stop = q.stop /\ n.cancelled = q.cancelled
      /\ n.holds = q.holds /\ n.connected = q.connected /\ n.finished = q.finished
  BY ZenonT(30) DEF RequestType
<1> HIDE DEF n
<1>2. \A o : HeldBy(q, o) => HeldBy(n, o) BY <1>1 DEF HeldBy
<1> QED BY <1>1, <1>2 DEF n

LEMMA ThrowValid == ASSUME NEW q, Ending(q) PROVE Valid(Throw(q))
<1>1. Valid([q EXCEPT !.at = "aborted"])
  <2> DEFINE n == [q EXCEPT !.at = "aborted"]
  <2>1. n \in RequestType /\ n.at = "aborted" /\ n.calls = 0 /\ ~n.finisher /\ ~n.ok
    BY AtFacts DEF Ending
  <2> HIDE DEF n
  <2>2. Valid(n) BY <2>1 DEF Valid, Sound, Early, Pending
  <2> QED BY <2>2 DEF n
<1> QED BY <1>1, OverValid, Zenon DEF Throw

\* The object that the operation a request suspends in will use.
UserAt(q, at) ==
    CASE at = "handshake" -> "sslConnection"
      [] at \in {"write", "read"} -> IF q.tls THEN "resultSslConnection" ELSE "tcpConnection"
      [] OTHER -> "none"

\* A co_await suspends the request or, cancelled, ends it or the process.
LEMMA AwaitValid ==
    ASSUME NEW q, Ending(q), NEW at \in (Early \cup Pending) \ {"connect"}, HeldBy(q, UserAt(q, at)),
           at = "handshake" => q.tls
    PROVE Valid([q EXCEPT !.at = at]) /\ Valid(Await(q, at))
<1> DEFINE n == [q EXCEPT !.at = at]
<1>1. /\ n \in RequestType /\ n.at = at /\ n.calls = 0 /\ ~n.finisher /\ ~n.ok
      /\ n.tls = q.tls /\ HeldBy(n, UserAt(q, at))
  BY AtFacts DEF Ending
<1> HIDE DEF n
<1>2. at \in Early => UserAt(q, at) = "none" BY DEF UserAt, Early
<1>3. at \in Pending => UserAt(q, at) = User(n) BY <1>1 DEF UserAt, User, Pending
<1>4. Valid(n) BY <1>1, <1>2, <1>3 DEF Valid, Sound, Early, Pending
<1> QED BY <1>4, ThrowValid, Zenon DEF Await, n

\* async_connect opens TcpConnect's socket.
LEMMA ConnectValid ==
    ASSUME NEW q, Ending(q), HeldBy(q, "none")
    PROVE Valid(Connect(q))
<1> DEFINE h == [q.holds EXCEPT !["socket"] = "socket"]
           n == [q EXCEPT !.at = "connect", !.holds = h]
<1>1. q \in RequestType /\ q.holds \in [Objects -> Holding] BY DEF Ending, RequestType
<1>2. /\ h \in [Objects -> Holding] /\ h["socket"] = "socket"
      /\ \A o \in Objects \ {"socket"} : h[o] = q.holds[o]
  BY <1>1 DEF Objects, Holding
<1> HIDE DEF h
<1>3. /\ n \in RequestType /\ n.at = "connect" /\ n.calls = 0 /\ ~n.finisher /\ ~n.ok
      /\ n.holds = h /\ n.connected = q.connected /\ n.finished = q.finished
  BY <1>1, <1>2, ZenonT(30) DEF Ending, RequestType, Pending
<1>4. Connect(q) = IF q.cancelled THEN Throw(q) ELSE n BY Zenon DEF Connect, h
<1> HIDE DEF n
<1>5. HeldBy(n, "socket") BY <1>2, <1>3 DEF HeldBy, Objects
<1>6. Valid(n) BY <1>3, <1>5 DEF Valid, Sound, Early, Pending, User
<1> QED BY <1>4, <1>6, ThrowValid, Zenon

LEMMA NotOverEnding ==
    ASSUME NEW q, Valid(q), q.at \notin {"over", "aborted", "connect"}
    PROVE Ending(q)
<1>1. q \in RequestType /\ q.calls = 0 /\ ~q.finisher /\ ~q.ok BY DEF Valid, Sound
<1>2. q.at \in Early => HeldBy(q, "none") BY DEF Valid, Sound
<1>3. q.at \in Pending => HeldBy(q, User(q)) /\ User(q) \in Scoped
  BY DEF Valid, Sound, User, Scoped
<1>4. q.at \in Early \cup Pending BY <1>1 DEF RequestType
<1> QED BY <1>1, <1>2, <1>3, <1>4 DEF Ending, Scoped

\* A socket that was connected goes through the moves before the next operation.
LEMMA MovedHeld ==
    ASSUME NEW q \in RequestType, NEW from \in Objects, NEW to \in Objects \ {"socket"}, from # to,
           HeldBy(q, from), q.holds[from] = "session" => to \in {"sslConnection", "resultSslConnection"},
           from # "socket"
    PROVE  Keeps(q, Move(q, from, to)) /\ Move(q, from, to).finisher = q.finisher
           /\ HeldBy(Move(q, from, to), to)
<1> DEFINE n == Move(q, from, to)
<1>1. /\ Keeps(q, n) /\ n.finisher = q.finisher
      /\ n.connected = q.connected /\ n.finished = q.finished
      /\ n.holds[to] = q.holds[from] /\ n.holds[from] = "nothing"
      /\ \A o \in Objects \ {from, to} : n.holds[o] = q.holds[o]
  BY MoveFacts
<1> HIDE DEF n
<1>2. HeldBy(n, to) BY <1>1 DEF HeldBy, Objects
<1> QED BY <1>1, <1>2 DEF n

\* GetAsyncImpl with its tcpConnection: a plain request is written, a TLS one is refused
\* by the build or goes through SslConnect, whose early return closes the moved socket.
LEMMA ConnectedValid ==
    ASSUME NEW q, Ending(q), HeldBy(q, "tcpConnection"), NEW accepted \in BOOLEAN
    PROVE Valid(Connected(q, accepted))
<1>0. q \in RequestType BY DEF Ending
<1>1. CASE ~q.tls
  <2>1. Connected(q, accepted) = Await(q, "write") BY <1>1, Zenon DEF Connected
  <2>2. UserAt(q, "write") = "tcpConnection" BY <1>1 DEF UserAt
  <2>3. Valid(Await(q, "write")) BY <2>2, AwaitValid DEF Pending, Early
  <2> QED BY <2>1, <2>3
<1>2. CASE q.tls /\ ~withSsl
  <2>1. Connected(q, accepted) = Over(q, FALSE) BY <1>2, Zenon DEF Connected
  <2> QED BY <2>1, OverValid
<1>3. CASE q.tls /\ withSsl /\ q.cancelled
  <2>1. Connected(q, accepted) = Throw(q) BY <1>3, Zenon DEF Connected
  <2> QED BY <2>1, ThrowValid
<1>4. CASE q.tls /\ withSsl /\ ~q.cancelled
  <2> DEFINE moved == Move(q, "tcpConnection", "sslConnection")
  <2>1. Connected(q, accepted) = IF accepted THEN [moved EXCEPT !.at = "handshake"] ELSE Over(moved, FALSE)
    BY <1>4, Zenon DEF Connected
  <2>2. Keeps(q, moved) /\ moved.finisher = q.finisher /\ HeldBy(moved, "sslConnection")
    BY <1>0, MovedHeld DEF Objects
  <2> HIDE DEF moved
  <2>3. Ending(moved) BY <2>2 DEF Ending, Keeps, Scoped
  <2>4. UserAt(moved, "handshake") = "sslConnection" BY DEF UserAt
  <2>5. Valid([moved EXCEPT !.at = "handshake"]) BY <1>4, <2>2, <2>3, <2>4, AwaitValid DEF Pending, Early, Keeps
  <2>6. Valid(Over(moved, FALSE)) BY <2>3, OverValid
  <2> QED BY <2>1, <2>5, <2>6, Zenon
<1> QED BY <1>1, <1>2, <1>3, <1>4

LEMMA TcpConnectValid ==
    ASSUME NEW q, Valid(q), q.at = "connect", NEW ok \in BOOLEAN, NEW accepted \in BOOLEAN
    PROVE Valid(TcpConnect(q, ok, accepted))
<1>1. q \in RequestType /\ q.calls = 0 /\ ~q.finisher /\ ~q.ok /\ HeldBy(q, "socket")
  BY DEF Valid, Sound, Pending, User
<1>2. CASE ok
  <2> DEFINE k == q.connected + 1
             one == [q EXCEPT !.connected = k]
             n == Move(one, "socket", "tcpConnection")
  <2>1. TcpConnect(q, ok, accepted) = Connected(n, accepted) BY <1>2, Zenon DEF TcpConnect
  <2>2. k = 1 BY <1>1 DEF HeldBy
  <2> HIDE DEF k
  <2>3. /\ one \in RequestType /\ one.calls = 0 /\ ~one.finisher /\ ~one.ok
        /\ one.connected = k /\ one.holds = q.holds /\ one.finished = q.finished
    BY <1>1, <2>2, ZenonT(30) DEF RequestType
  <2> HIDE DEF one
  <2>4. /\ Keeps(one, n) /\ n.finisher = one.finisher
        /\ n.connected = one.connected /\ n.finished = one.finished
        /\ n.holds["tcpConnection"] = one.holds["socket"] /\ n.holds["socket"] = "nothing"
        /\ \A o \in Objects \ {"socket", "tcpConnection"} : n.holds[o] = one.holds[o]
    BY <2>3, MoveFacts DEF Objects
  <2> HIDE DEF n
  <2>5. HeldBy(n, "tcpConnection") BY <1>1, <2>2, <2>3, <2>4 DEF HeldBy, Objects
  <2>6. Ending(n) BY <2>3, <2>4, <2>5 DEF Ending, Keeps, Scoped
  <2> QED BY <2>1, <2>5, <2>6, ConnectedValid
<1>3. CASE ~ok
  <2> DEFINE h == [q.holds EXCEPT !["socket"] = "nothing"]
             n == SocketClose(q)
             m == q.left - 1
             again == [n EXCEPT !.left = m]
  <2>1. q.holds \in [Objects -> Holding] BY <1>1 DEF RequestType
  <2>2. h \in [Objects -> Holding] /\ \A o \in Objects : h[o] = "nothing"
    BY <1>1, <2>1 DEF HeldBy, Objects, Holding
  <2>3. n = [q EXCEPT !.holds = h] BY DEF SocketClose
  <2> HIDE DEF h, n
  <2>4. /\ n \in RequestType /\ n.calls = 0 /\ ~n.finisher /\ ~n.ok /\ n.left = q.left
        /\ n.holds = h /\ n.connected = q.connected /\ n.finished = q.finished
    BY <1>1, <2>2, <2>3, ZenonT(30) DEF RequestType
  <2>5. HeldBy(n, "none") BY <1>1, <2>2, <2>4 DEF HeldBy, Objects
  <2>6. Ending(n) BY <2>4, <2>5 DEF Ending, Scoped
  <2>7. CASE q.left > 1
    <3>1. TcpConnect(q, ok, accepted) = Connect(again)
      BY <1>3, <2>4, <2>7, Zenon DEF TcpConnect, n
    <3>2. m \in Nat BY <1>1, <2>7 DEF RequestType
    <3> HIDE DEF m
    <3>3. /\ again \in RequestType /\ again.calls = 0 /\ ~again.finisher /\ ~again.ok
          /\ again.holds = n.holds /\ again.connected = n.connected /\ again.finished = n.finished
      BY <2>4, <3>2, ZenonT(30) DEF RequestType
    <3> HIDE DEF again
    <3>4. HeldBy(again, "none") BY <2>5, <3>3 DEF HeldBy
    <3>5. Ending(again) BY <3>3, <3>4 DEF Ending, Scoped
    <3> QED BY <3>1, <3>4, <3>5, ConnectValid
  <2>8. CASE ~(q.left > 1)
    <3>1. TcpConnect(q, ok, accepted) = Over(n, FALSE) BY <1>3, <2>8, Zenon DEF TcpConnect, n
    <3> QED BY <2>6, <3>1, OverValid
  <2> QED BY <2>7, <2>8
<1> QED BY <1>2, <1>3

\* Out of SslConnect only the result holds the session; the destructor of the connection
\* that was moved from does nothing.
LEMMA SslConnectValid ==
    ASSUME NEW q, Valid(q), q.at = "handshake", NEW ok \in BOOLEAN, NEW complete \in BOOLEAN
    PROVE Valid(SslConnect(q, ok, complete))
<1>1. q \in RequestType /\ q.calls = 0 /\ ~q.finisher /\ ~q.ok /\ HeldBy(q, "sslConnection")
  BY DEF Valid, Sound, Pending, User
<1> DEFINE h == [q.holds EXCEPT !["sslConnection"] = "session"]
           shaken == [q EXCEPT !.holds = h]
           done == IF ok \/ complete THEN shaken ELSE q
           moved == Move(done, "sslConnection", "resultSslConnection")
           n == SslGone(moved, "sslConnection")
<1>2. q.holds \in [Objects -> Holding] BY <1>1 DEF RequestType
<1>3. /\ h \in [Objects -> Holding] /\ h["sslConnection"] = "session"
      /\ \A o \in Objects \ {"sslConnection"} : h[o] = q.holds[o]
  BY <1>2 DEF Objects, Holding
<1>4. SslConnect(q, ok, complete) = IF ok THEN Await(n, "write") ELSE Over(done, FALSE)
  BY Zenon DEF SslConnect
<1> HIDE DEF h
<1>5. /\ Keeps(q, shaken) /\ ~shaken.finisher
      /\ shaken.holds = h /\ shaken.connected = q.connected /\ shaken.finished = q.finished
  BY <1>1, <1>3, ZenonT(30) DEF Keeps, RequestType
<1> HIDE DEF shaken
<1>6. HeldBy(shaken, "sslConnection") BY <1>1, <1>3, <1>5 DEF HeldBy, Objects
<1>7. Keeps(q, done) /\ ~done.finisher /\ HeldBy(done, "sslConnection")
  BY <1>1, <1>5, <1>6 DEF Keeps
<1>8. Ending(done) BY <1>1, <1>7 DEF Ending, Keeps, Scoped
<1>9. ok => Valid(Await(n, "write"))
  <2> HAVE ok
  <2>1. done \in RequestType BY <1>7 DEF Keeps
  <2>2. q.tls BY DEF Valid, Sound
  <2> HIDE DEF done
  <2>3. Keeps(done, moved) /\ moved.finisher = done.finisher /\ HeldBy(moved, "resultSslConnection")
    BY <1>7, <2>1, MovedHeld DEF Objects
  <2>4. moved \in RequestType /\ moved.holds["sslConnection"] = "nothing"
    BY <2>3 DEF Keeps, HeldBy, Objects
  <2> HIDE DEF moved
  <2>5. n = moved BY <2>4, GoneFacts
  <2>6. Ending(moved) BY <1>1, <1>7, <2>3 DEF Ending, Keeps, Scoped
  <2>7. UserAt(moved, "write") = "resultSslConnection" BY <1>7, <2>2, <2>3 DEF UserAt, Keeps
  <2>8. Valid(Await(moved, "write")) BY <2>3, <2>6, <2>7, AwaitValid DEF Pending, Early
  <2> QED BY <2>5, <2>8
<1>10. Valid(Over(done, FALSE)) BY <1>8, OverValid
<1> HIDE DEF n, done
<1> QED BY <1>4, <1>9, <1>10, Zenon

\* Every operation of BeastLiteClient leaves a sound request, with either outcome.
LEMMA ResumedValid ==
    ASSUME NEW q, Valid(q), q.at \in Pending, NEW ok \in BOOLEAN, NEW ssl \in BOOLEAN
    PROVE Valid(Resumed(q, ok, ssl))
<1>1. CASE q.at = "connect" BY <1>1, TcpConnectValid, Zenon DEF Resumed
<1>2. CASE q.at = "handshake" BY <1>2, SslConnectValid, Zenon DEF Resumed
<1>3. CASE q.at \in {"write", "read"}
  <2>1. Resumed(q, ok, ssl) = MakeHttpRequest(q, ok) BY <1>3 DEF Resumed
  <2>2. Ending(q) BY <1>3, NotOverEnding
  <2>3. HeldBy(q, User(q)) /\ User(q) = UserAt(q, "read")
    BY <1>3 DEF Valid, Sound, User, UserAt
  <2>4. Valid(Await(q, "read")) BY <2>2, <2>3, AwaitValid DEF Pending, Early
  <2>5. Valid(Over(q, ok)) BY <2>2, OverValid
  <2> QED BY <2>1, <2>4, <2>5, Zenon DEF MakeHttpRequest
<1> QED BY <1>1, <1>2, <1>3 DEF Pending

-----------------------------------------------------------------------------
LEMMA SelectedFinite == ASSUME HttpIInv PROVE IsFiniteSet(selectedUrls)
BY HttpAssumption, FS_Subset DEF HttpIInv, HttpTypeOK

\* The handlers that run in a step are those of the requests that become over:
\* the channel and the error count follow.
LEMMA HandledCounts ==
    ASSUME HttpIInv, NEW new \in [selectedUrls -> RequestType], Handled(new),
           UNCHANGED choices,
           \A r \in selectedUrls : req[r].at = "over" => new[r].at = "over" /\ new[r].ok = req[r].ok
    PROVE  /\ completions' \in Nat /\ completions' + main.received = Cardinality(Overs')
           /\ errorCount' \in Nat /\ errorCount' = Cardinality(Failures')
<1> DEFINE called == {r \in selectedUrls : req[r].at # "over" /\ new[r].at = "over"}
           failed == {r \in called : ~new[r].ok}
<1>1. /\ req' = new /\ completions' = completions + Cardinality(called)
      /\ errorCount' = errorCount + Cardinality(failed)
  BY DEF Handled
<1>2. Overs' = Overs \cup called /\ Overs \cap called = {} BY <1>1 DEF Overs, choices
<1>3. Failures' = Failures \cup failed /\ Failures \cap failed = {}
  BY <1>1 DEF Failures, choices
<1>4. called \in SUBSET selectedUrls /\ failed \in SUBSET selectedUrls OBVIOUS
<1> HIDE DEF called, failed
<1>5. IsFiniteSet(Overs) /\ IsFiniteSet(Failures) /\ IsFiniteSet(called) /\ IsFiniteSet(failed)
  BY <1>4, SelectedFinite, FS_Subset DEF Overs, Failures
<1>6. /\ Cardinality(Overs) \in Nat /\ Cardinality(called) \in Nat
      /\ Cardinality(Failures) \in Nat /\ Cardinality(failed) \in Nat
  BY <1>5, FS_CardinalityType
<1>7. Cardinality({}) = 0 BY FS_EmptySet
<1>8. Cardinality(Overs') = Cardinality(Overs) + Cardinality(called) - Cardinality({})
  BY <1>2, <1>5, FS_Union
<1>9. Cardinality(Failures') = Cardinality(Failures) + Cardinality(failed) - Cardinality({})
  BY <1>3, <1>5, FS_Union
<1>10. /\ completions + main.received = Cardinality(Overs) /\ errorCount = Cardinality(Failures)
       /\ completions \in Nat /\ main.received \in Nat
  BY DEF HttpIInv, HttpTypeOK, MainInv
<1> HIDE DEF HttpIInv
<1> QED BY <1>1, <1>6, <1>7, <1>8, <1>9, <1>10

\* A request in an operation becomes q, and its handler runs when q is over.
LEMMA BecomesStep ==
    ASSUME HttpIInv, NEW r \in selectedUrls, NEW q, Valid(q), req[r].at \notin {"idle", "over"},
           Becomes(r, q), UNCHANGED <<choices, main>>
    PROVE HttpIInv'
<1> DEFINE new == [req EXCEPT ![r] = q]
<1>1. new \in [selectedUrls -> RequestType] BY DEF HttpIInv, HttpTypeOK, Valid
<1>2. \A s \in selectedUrls : req[s].at = "over" => new[s].at = "over" /\ new[s].ok = req[s].ok
  BY DEF HttpIInv, HttpTypeOK
<1>3. Handled(new) BY DEF Becomes
<1>4. req' = new BY <1>3 DEF Handled
<1>5. \A s \in selectedUrls : Sound(new[s]) BY DEF HttpIInv, HttpTypeOK, SoundInv, Valid
<1>6. main.at \notin {"start", "done"} BY Zenon DEF HttpIInv, MainInv
<1> HIDE DEF new
<1>7. /\ completions' \in Nat /\ completions' + main.received = Cardinality(Overs')
      /\ errorCount' \in Nat /\ errorCount' = Cardinality(Failures')
  BY <1>1, <1>2, <1>3, HandledCounts
<1>8. HttpTypeOK' BY <1>1, <1>4, <1>7 DEF HttpIInv, HttpTypeOK, choices
<1>9. SoundInv' BY <1>4, <1>5 DEF SoundInv, choices
<1>10. MainInv' BY <1>6, <1>7 DEF MainInv, choices
<1> QED BY <1>8, <1>9, <1>10 DEF HttpIInv

\* A step that handles no request: each keeps its place and its result.
LEMMA RequestQuietStep ==
    ASSUME HttpIInv, NEW r \in selectedUrls, NEW q, Valid(q), q.at = req[r].at, q.ok = req[r].ok,
           req' = [req EXCEPT ![r] = q],
           UNCHANGED <<choices, main, completions, errorCount>>
    PROVE HttpIInv'
<1>1. req' \in [selectedUrls -> RequestType] /\ \A s \in selectedUrls : Sound(req'[s])
  BY DEF HttpIInv, HttpTypeOK, SoundInv, Valid
<1>2. \A s \in selectedUrls : req'[s].at = req[s].at /\ req'[s].ok = req[s].ok
  BY DEF HttpIInv, HttpTypeOK
<1>3. Overs' = Overs /\ Failures' = Failures BY <1>2 DEF Overs, Failures, choices
<1>4. HttpTypeOK' /\ SoundInv' BY <1>1 DEF HttpIInv, HttpTypeOK, SoundInv, choices
<1>5. MainInv' BY <1>2, <1>3 DEF HttpIInv, MainInv, choices
<1> QED BY <1>4, <1>5 DEF HttpIInv

\* Handled at once, as a stopped request is, or by the browser: no socket was opened.
LEMMA EndsUnopened ==
    ASSUME NEW q \in RequestType, q.calls = 0, ~q.finisher, HeldBy(q, "none"), NEW ok \in BOOLEAN
    PROVE  Valid([q EXCEPT !.at = "over", !.ok = ok, !.calls = 1])
<1> DEFINE rec == [q EXCEPT !.at = "over", !.ok = ok, !.calls = 1]
<1>1. /\ rec \in RequestType /\ rec.at = "over" /\ rec.calls = 1 /\ ~rec.finisher
      /\ rec.holds = q.holds /\ rec.connected = q.connected /\ rec.finished = q.finished
  BY ZenonT(30) DEF RequestType
<1> HIDE DEF rec
<1>2. Ended(rec) BY <1>1 DEF Ended, HeldBy, Objects
<1>3. Valid(rec) BY <1>1, <1>2 DEF Valid, Sound, Early, Pending
<1> QED BY <1>3 DEF rec

LEMMA GetValid ==
    ASSUME NEW q, Valid(q), q.at = "idle"
    PROVE  Valid(Get(q))
<1>1. Ending(q) BY NotOverEnding
<1>2. q \in RequestType /\ q.calls = 0 /\ ~q.finisher /\ ~q.ok /\ HeldBy(q, "none")
  BY <1>1 DEF Ending, Valid, Sound, Early
<1>3. CASE q.stop
  <2>1. Get(q) = [q EXCEPT !.at = "over", !.calls = 1] BY <1>2, <1>3 DEF Get
  <2>2. [q EXCEPT !.at = "over", !.ok = q.ok, !.calls = 1] = [q EXCEPT !.at = "over", !.calls = 1]
    BY <1>2, Zenon DEF RequestType
  <2>3. q.ok \in BOOLEAN BY <1>2 DEF RequestType
  <2>4. Valid([q EXCEPT !.at = "over", !.ok = q.ok, !.calls = 1]) BY <1>2, <2>3, EndsUnopened, Zenon
  <2> QED BY <2>1, <2>2, <2>4, Zenon
<1>4. CASE ~q.stop
  <2>1. Get(q) = [q EXCEPT !.at = "spawned"] \/ Get(q) = [q EXCEPT !.at = "fetch"]
    BY <1>4 DEF Get, AsioGet, FetchGet
  <2>2. UserAt(q, "spawned") = "none" /\ UserAt(q, "fetch") = "none" BY DEF UserAt
  <2> QED BY <1>1, <1>2, <2>1, <2>2, AwaitValid DEF Early, Pending
<1> QED BY <1>3, <1>4

LEMMA MainStartStep == ASSUME HttpIInv, MainStart PROVE HttpIInv'
<1>0. main.at = "start" /\ UNCHANGED choices BY DEF MainStart
<1>1. \A r \in selectedUrls : Valid(req[r]) /\ req[r].at = "idle"
  BY <1>0 DEF HttpIInv, HttpTypeOK, SoundInv, MainInv, Valid
<1>2. CASE selectedUrls = {}
  <2>1. main' = [main EXCEPT !.at = "done", !.code = 1] /\ UNCHANGED <<req, completions, errorCount>>
    BY <1>2 DEF MainStart
  <2>2. /\ main' \in [at : {"start", "receive", "done"}, received : Nat, code : Nat]
        /\ main'.at = "done" /\ main'.received = main.received /\ main'.code = 1
    BY <2>1 DEF HttpIInv, HttpTypeOK
  <2>3. HttpTypeOK' /\ SoundInv' BY <1>0, <2>1, <2>2 DEF HttpIInv, HttpTypeOK, SoundInv, choices
  <2>4. Overs' = Overs /\ Failures' = Failures BY <1>0, <2>1 DEF Overs, Failures, choices
  <2>5. MainInv' BY <1>0, <1>2, <2>1, <2>2, <2>4 DEF HttpIInv, MainInv, choices
  <2> QED BY <2>3, <2>5 DEF HttpIInv
<1>3. CASE selectedUrls # {}
  <2> DEFINE new == [r \in selectedUrls |-> Get(req[r])]
  <2>1. new \in [selectedUrls -> RequestType] /\ \A r \in selectedUrls : Sound(new[r])
    BY <1>1, GetValid DEF Valid
  <2>2. Handled(new) /\ main' = [main EXCEPT !.at = "receive"] BY <1>3 DEF MainStart
  <2>3. req' = new BY <2>2 DEF Handled
  <2> HIDE DEF new
  <2>4. /\ completions' \in Nat /\ completions' + main.received = Cardinality(Overs')
        /\ errorCount' \in Nat /\ errorCount' = Cardinality(Failures')
    BY <1>0, <1>1, <2>1, <2>2, HandledCounts
  <2>5. /\ main' \in [at : {"start", "receive", "done"}, received : Nat, code : Nat]
        /\ main'.at = "receive" /\ main'.received = main.received
    BY <2>2 DEF HttpIInv, HttpTypeOK
  <2>6. HttpTypeOK' BY <1>0, <2>1, <2>3, <2>4, <2>5 DEF HttpIInv, HttpTypeOK, choices
  <2>7. SoundInv' BY <1>0, <2>1, <2>3 DEF SoundInv, choices
  <2>8. MainInv' BY <1>0, <1>3, <2>4, <2>5 DEF MainInv, choices
  <2> QED BY <2>6, <2>7, <2>8 DEF HttpIInv
<1> QED BY <1>2, <1>3

\* The last completion is received when every request is over.
LEMMA MainReceiveStep == ASSUME HttpIInv, MainReceive PROVE HttpIInv'
<1>0. main.at = "receive" BY DEF MainReceive
<1> DEFINE n == main.received + 1
<1>1. /\ completions \in Nat /\ completions > 0 /\ main.received \in Nat /\ errorCount \in Nat
      /\ completions + main.received = Cardinality(Overs)
  BY DEF HttpIInv, HttpTypeOK, MainInv, MainReceive
<1>2. completions' = completions - 1 /\ completions' \in Nat /\ n \in Nat
  BY <1>1 DEF MainReceive
<1>3. completions' + n = Cardinality(Overs) BY <1>1, <1>2
<1>4. /\ IsFiniteSet(Overs) /\ Cardinality(Overs) <= Cardinality(selectedUrls)
      /\ Cardinality(selectedUrls) = Cardinality(Overs) => selectedUrls = Overs
  BY SelectedFinite, FS_Subset DEF Overs
<1>5. Cardinality(selectedUrls) \in Nat /\ Cardinality(Overs) \in Nat
  BY <1>4, SelectedFinite, FS_CardinalityType
<1>6. n = Cardinality(selectedUrls) => \A r \in selectedUrls : req[r].at = "over"
  <2> HAVE n = Cardinality(selectedUrls)
  <2>1. Cardinality(selectedUrls) = Cardinality(Overs) BY <1>2, <1>3, <1>4, <1>5
  <2> QED BY <1>4, <2>1 DEF Overs
<1>7. /\ main' \in [at : {"start", "receive", "done"}, received : Nat, code : Nat]
      /\ main'.received = n /\ main'.at # "start"
      /\ main'.at = "done" => n = Cardinality(selectedUrls) /\ main'.code = errorCount
  <2> HIDE DEF n
  <2>1. main' = IF n = Cardinality(selectedUrls)
                THEN [at |-> "done", received |-> n, code |-> errorCount]
                ELSE [main EXCEPT !.received = n]
    BY DEF MainReceive, n
  <2>2. main.at = "receive" BY DEF MainReceive
  <2>3. main \in [at : {"start", "receive", "done"}, received : Nat, code : Nat]
    BY DEF HttpIInv, HttpTypeOK
  <2>4. CASE n = Cardinality(selectedUrls) BY <1>1, <1>2, <2>1, <2>4
  <2>5. CASE n # Cardinality(selectedUrls) BY <1>2, <2>1, <2>2, <2>3, <2>5
  <2> QED BY <2>4, <2>5
<1> HIDE DEF n
<1>8. UNCHANGED <<choices, req, errorCount>> BY DEF MainReceive
<1>9. HttpTypeOK' BY <1>2, <1>7, <1>8 DEF HttpIInv, HttpTypeOK, choices
<1>10. SoundInv' BY <1>8 DEF HttpIInv, SoundInv, choices
<1>11. Overs' = Overs /\ Failures' = Failures BY <1>8 DEF Overs, Failures, choices
<1>12. selectedUrls # {} BY <1>0 DEF HttpIInv, MainInv
<1>13. MainInv' BY <1>3, <1>6, <1>7, <1>8, <1>11, <1>12 DEF HttpIInv, MainInv, choices
<1> QED BY <1>9, <1>10, <1>13 DEF HttpIInv

LEMMA StopStep == ASSUME HttpIInv, NEW r \in selectedUrls, Stop(r) PROVE HttpIInv'
<1> DEFINE emitted == httpClient = "beast" /\ req[r].at \notin {"idle", "over"}
           q == [req[r] EXCEPT !.stop = TRUE, !.cancelled = emitted]
<1>1. Valid(req[r]) BY DEF HttpIInv, HttpTypeOK, SoundInv, Valid
<1>2. emitted \in BOOLEAN OBVIOUS
<1>3. req' = [req EXCEPT ![r] = q] BY Zenon DEF Stop, HttpIInv, HttpTypeOK, RequestType
<1> HIDE DEF emitted
<1>4. /\ q \in RequestType /\ q.at = req[r].at /\ q.ok = req[r].ok /\ q.calls = req[r].calls
      /\ q.tls = req[r].tls /\ q.holds = req[r].holds /\ q.finisher = req[r].finisher
      /\ q.connected = req[r].connected /\ q.finished = req[r].finished
  BY <1>1, <1>2, ZenonT(30) DEF Valid, RequestType
<1>5. UNCHANGED <<choices, main, completions, errorCount>> BY DEF Stop
<1> HIDE DEF q
<1>6. Valid(q) BY <1>1, <1>4 DEF Valid, Sound, HeldBy, Ended, User
<1> QED BY <1>3, <1>4, <1>5, <1>6, RequestQuietStep, ZenonT(30)

\* The shutdown that ends closes the socket it was given.
LEMMA StreamFinishStep == ASSUME HttpIInv, NEW r \in selectedUrls, StreamFinish(r) PROVE HttpIInv'
<1> DEFINE n == SocketFinish(req[r], "finisher")
           q == [n EXCEPT !.finisher = FALSE]
<1>1. Valid(req[r]) /\ req[r].finisher BY DEF HttpIInv, HttpTypeOK, SoundInv, Valid, StreamFinish
<1>2. req[r] \in RequestType /\ req[r].at = "over" /\ req[r].calls = 1 /\ Ended(req[r])
  BY <1>1 DEF Valid, Sound
<1>3. /\ Keeps(req[r], n) /\ n.connected = req[r].connected /\ n.finished = req[r].finished + 1
      /\ \A o \in Objects : n.holds[o] = "nothing"
  <2>1. "finisher" \in Objects BY DEF Objects
  <2>2. req[r].holds["finisher"] = "session" /\ \A o \in Objects \ {"finisher"} : req[r].holds[o] = "nothing"
    BY <1>1, <1>2 DEF Ended
  <2>3. /\ Keeps(req[r], n) /\ n.connected = req[r].connected
        /\ req[r].holds["finisher"] # "nothing" => n.finished = req[r].finished + 1
        /\ n.holds["finisher"] = "nothing" /\ \A o \in Objects \ {"finisher"} : n.holds[o] = req[r].holds[o]
    BY <1>2, <2>1, FinishFacts, Zenon
  <2> HIDE DEF n
  <2> QED BY <2>2, <2>3
<1>4. req' = [req EXCEPT ![r] = q] BY DEF StreamFinish, HttpIInv, HttpTypeOK
<1> HIDE DEF n
<1>5. /\ Keeps(n, q) /\ ~q.finisher /\ q.holds = n.holds
      /\ q.connected = n.connected /\ q.finished = n.finished
  BY <1>3, ZenonT(30) DEF Keeps, RequestType
<1> HIDE DEF q
<1>6. req[r].finished \in Nat BY <1>2 DEF RequestType
<1>7. Ended(q)
  <2>1. req[r].connected = req[r].finished + 1 BY <1>1, <1>2 DEF Ended
  <2>2. q.connected = q.finished /\ q.finished + 0 = q.finished BY <1>3, <1>5, <1>6, <2>1
  <2> QED BY <1>3, <1>5, <2>2 DEF Ended
<1>8. Valid(q) /\ q.at = req[r].at /\ q.ok = req[r].ok
  BY <1>2, <1>3, <1>5, <1>7 DEF Valid, Sound, Keeps, Early, Pending
<1>9. UNCHANGED <<choices, main, completions, errorCount>> BY DEF StreamFinish
<1> QED BY <1>4, <1>8, <1>9, RequestQuietStep, Zenon

LEMMA LoopStep ==
    ASSUME HttpIInv, NEW r \in selectedUrls, Spawned(r) \/ Parse(r) \/ Resolved(r)
    PROVE HttpIInv'
<1> DEFINE q == req[r]
<1>1. Valid(q) /\ q.at \in {"spawned", "parse", "resolve"}
      /\ UNCHANGED <<choices, main>>
  BY Zenon DEF HttpIInv, HttpTypeOK, SoundInv, Valid, Spawned, Parse, Resolved, Resume
<1>2. Ending(q) BY <1>1, NotOverEnding
<1>3. Valid(Over(q, FALSE)) BY <1>2, OverValid, Zenon
<1>4. HeldBy(q, "none") BY <1>1 DEF Valid, Sound, Early
<1>5. \A at \in {"parse", "resolve"} : Valid(Await(q, at))
  <2> TAKE at \in {"parse", "resolve"}
  <2>1. UserAt(q, at) = "none" BY DEF UserAt
  <2> QED BY <1>2, <1>4, <2>1, AwaitValid DEF Early, Pending
<1>6. \A n \in 1 .. MaxEndpoints : Valid(Connect([q EXCEPT !.left = n]))
  <2> TAKE n \in 1 .. MaxEndpoints
  <2> DEFINE found == [q EXCEPT !.left = n]
  <2>1. n \in Nat BY HttpAssumption
  <2>2. /\ found \in RequestType /\ found.calls = 0 /\ ~found.finisher /\ ~found.ok
        /\ found.holds = q.holds /\ found.connected = q.connected /\ found.finished = q.finished
    BY <1>2, <2>1, ZenonT(30) DEF Ending, RequestType
  <2> HIDE DEF found
  <2>3. HeldBy(found, "none") BY <1>4, <2>2 DEF HeldBy
  <2>4. Ending(found) BY <2>2, <2>3 DEF Ending, Scoped
  <2>5. Valid(Connect(found)) BY <2>3, <2>4, ConnectValid
  <2> QED BY <2>5 DEF found
<1>7. PICK new : Valid(new) /\ Becomes(r, new)
  BY <1>3, <1>5, <1>6, ZenonT(30) DEF Spawned, Parse, Resolved
<1> QED BY <1>1, <1>7, BecomesStep

LEMMA CompletedStep ==
    ASSUME HttpIInv, NEW r \in selectedUrls, NEW ok \in BOOLEAN, Completed(r, ok)
    PROVE HttpIInv'
<1>1. PICK ssl \in BOOLEAN : /\ req[r].at \in Pending /\ Becomes(r, Resumed(req[r], ok, ssl))
                            /\ UNCHANGED <<choices, main>>
  BY Zenon DEF Completed, Resume
<1>2. Valid(req[r]) BY DEF HttpIInv, HttpTypeOK, SoundInv, Valid
<1>3. Valid(Resumed(req[r], ok, ssl)) BY <1>1, <1>2, ResumedValid
<1> QED BY <1>1, <1>3, BecomesStep DEF Pending

LEMMA SettlesStep ==
    ASSUME HttpIInv, NEW r \in selectedUrls, NEW ok \in BOOLEAN, JsSettles(r, ok) \/ EmSettles(r, ok)
    PROVE HttpIInv'
<1> DEFINE q == req[r]
<1>1. Valid(q) /\ q.at \in {"fetch", "text"} /\ UNCHANGED <<choices, main>>
  BY ZenonT(30) DEF HttpIInv, HttpTypeOK, SoundInv, Valid, JsSettles, EmSettles, Resume
<1>2. Ending(q) /\ HeldBy(q, "none") BY <1>1, NotOverEnding DEF Valid, Sound, Early
<1>3. \A b \in BOOLEAN : Valid(Settled(q, b))
  <2> TAKE b \in BOOLEAN
  <2>1. Settled(q, b) = [q EXCEPT !.at = "over", !.ok = b, !.calls = 1]
    BY <1>2 DEF Settled, Ending
  <2>2. q \in RequestType /\ q.calls = 0 /\ ~q.finisher BY <1>2 DEF Ending
  <2>3. Valid([q EXCEPT !.at = "over", !.ok = b, !.calls = 1]) BY <1>2, <2>2, EndsUnopened, Zenon
  <2> QED BY <2>1, <2>3, Zenon
<1>4. Valid([q EXCEPT !.at = "text"])
  <2>1. UserAt(q, "text") = "none" BY DEF UserAt
  <2> QED BY <1>2, <2>1, AwaitValid DEF Early, Pending
<1>5. PICK new : Valid(new) /\ Becomes(r, new)
  BY <1>3, <1>4, ZenonT(30) DEF JsSettles, EmSettles
<1> QED BY <1>1, <1>5, BecomesStep

LEMMA HttpInductiveStep == HttpIInv /\ [HttpNext]_httpVars => HttpIInv'
<1> SUFFICES ASSUME HttpIInv, [HttpNext]_httpVars PROVE HttpIInv'
  OBVIOUS
<1>1. ASSUME NEW r \in selectedUrls, Loop(r) PROVE HttpIInv'
  BY <1>1, LoopStep, CompletedStep, Zenon DEF Loop, Aborted
<1>2. CASE UNCHANGED httpVars
  <2>1. HttpTypeOK' /\ SoundInv' BY <1>2 DEF HttpIInv, HttpTypeOK, SoundInv, httpVars, choices
  <2>2. Overs' = Overs /\ Failures' = Failures BY <1>2 DEF Overs, Failures, httpVars, choices
  <2>3. MainInv' BY <1>2, <2>2 DEF HttpIInv, MainInv, httpVars, choices
  <2> QED BY <2>1, <2>3 DEF HttpIInv
<1> HIDE DEF HttpIInv
<1> QED BY <1>1, <1>2, MainStartStep, MainReceiveStep, StopStep, StreamFinishStep, CompletedStep,
           SettlesStep DEF HttpNext

LEMMA HttpInitially == HttpInit => HttpIInv
<1> SUFFICES ASSUME HttpInit PROVE HttpIInv OBVIOUS
<1>1. PICK stop, tls \in [selectedUrls -> BOOLEAN] : req = [r \in selectedUrls |-> Request(stop[r], tls[r])]
  BY DEF HttpInit
<1>2. \A s, t \in BOOLEAN : Valid(Request(s, t)) /\ Request(s, t).at = "idle"
  <2> TAKE s, t \in BOOLEAN
  <2> DEFINE none == [o \in Objects |-> "nothing"]
             q == Request(s, t)
  <2>1. none \in [Objects -> Holding] /\ \A o \in Objects : none[o] = "nothing" BY DEF Holding
  <2> HIDE DEF none
  <2>2. /\ q \in RequestType /\ q.at = "idle" /\ q.calls = 0 /\ ~q.finisher /\ ~q.ok
        /\ q.holds = none /\ q.connected = 0 /\ q.finished = 0
    BY <2>1 DEF Request, RequestType, Early, none
  <2> HIDE DEF q
  <2>3. HeldBy(q, "none") BY <2>1, <2>2 DEF HeldBy, Objects
  <2> QED BY <2>2, <2>3 DEF Valid, Sound, Early, Pending, q
<1>3. \A r \in selectedUrls : Valid(req[r]) /\ req[r].at = "idle" BY <1>1, <1>2
<1>4. req \in [selectedUrls -> RequestType] BY <1>1, <1>2 DEF Valid
<1>5. HttpTypeOK BY <1>4 DEF HttpInit, ChooseTryUrls, HttpTypeOK
<1>6. SoundInv BY <1>3 DEF SoundInv, Valid
<1>7. Cardinality(Overs) = 0 /\ Cardinality(Failures) = 0
  <2>1. Overs = {} /\ Failures = {} BY <1>3 DEF Overs, Failures
  <2> QED BY <2>1, FS_EmptySet
<1>8. MainInv BY <1>3, <1>7 DEF HttpInit, MainInv
<1> QED BY <1>5, <1>6, <1>8 DEF HttpIInv

\* The invariant holds in every state.
THEOREM HttpInvariance == HttpSpec => []HttpIInv
BY HttpInitially, HttpInductiveStep, PTL DEF HttpSpec

\* The variables keep their types.
THEOREM HttpTyping == HttpSpec => []HttpTypeOK
<1>1. HttpIInv => HttpTypeOK BY DEF HttpIInv
<1> QED BY <1>1, HttpInvariance, PTL

\* Every way out of Get calls the handler once, and CoroMain's exit code is the
\* number of requests that failed.
THEOREM HandledOnce == HttpSpec => []EachHandledOnce
<1>1. HttpIInv => EachHandledOnce
  <2> SUFFICES ASSUME HttpIInv PROVE EachHandledOnce OBVIOUS
  <2>1. \A r \in selectedUrls : req[r].calls = IF req[r].at = "over" THEN 1 ELSE 0
    BY DEF HttpIInv, SoundInv, Sound
  <2>2. completions + main.received = Cardinality({r \in selectedUrls : req[r].at = "over"})
    BY DEF HttpIInv, MainInv, Overs
  <2>3. main.at = "done" =>
          main.code = IF selectedUrls = {} THEN 1 ELSE Cardinality({r \in selectedUrls : ~req[r].ok})
    <3> HAVE main.at = "done"
    <3>1. main.code = (IF selectedUrls = {} THEN 1 ELSE Cardinality(Failures)) /\ \A r \in selectedUrls : req[r].at = "over"
      BY DEF HttpIInv, MainInv
    <3>2. Failures = {r \in selectedUrls : ~req[r].ok} BY <3>1 DEF Failures
    <3> QED BY <3>1, <3>2
  <2> QED BY <2>1, <2>2, <2>3 DEF EachHandledOnce
<1> QED BY <1>1, HttpInvariance, PTL

\* Through every move and every destructor the request's one open socket is where the
\* pending operation uses it, and it is ended once however the request is left: by
\* SocketFinish, or by a shutdown that was given a live session.
THEOREM NoSocketLeft == HttpSpec => []SocketsReleased
<1>1. HttpIInv => SocketsReleased
  <2> SUFFICES ASSUME HttpIInv, NEW r \in selectedUrls
               PROVE  LET q == req[r]
                          opened == {o \in Objects : q.holds[o] # "nothing"}
                      IN  /\ q.at \in Pending => opened = {User(q)} /\ ~q.finisher
                          /\ q.finisher => q.holds["finisher"] = "session"
                          /\ q.at = "over" =>
                                /\ opened = IF q.finisher THEN {"finisher"} ELSE {}
                                /\ q.connected = q.finished + Cardinality(opened)
    BY DEF SocketsReleased
  <2> DEFINE q == req[r]
             opened == {o \in Objects : q.holds[o] # "nothing"}
  <2>1. Sound(q) BY DEF HttpIInv, SoundInv
  <2> HIDE DEF q
  <2>2. q.at \in Pending => opened = {User(q)} /\ ~q.finisher
    BY <2>1 DEF Sound, HeldBy, User, Pending, Objects
  <2>3. q.finisher => q.holds["finisher"] = "session" BY <2>1 DEF Sound, Ended
  <2>4. q.at = "over" => opened = IF q.finisher THEN {"finisher"} ELSE {}
    BY <2>1 DEF Sound, Ended, Objects
  <2>5. q.at = "over" => q.connected = q.finished + Cardinality(opened)
    <3>1. SUFFICES ASSUME q.at = "over" PROVE q.connected = q.finished + Cardinality(opened) OBVIOUS
    <3>2. q.connected = q.finished + (IF q.finisher THEN 1 ELSE 0) BY <2>1, <3>1 DEF Sound, Ended
    <3> HIDE DEF opened
    <3>3. Cardinality(opened) = IF q.finisher THEN 1 ELSE 0 BY <2>4, <3>1, FS_EmptySet, FS_Singleton
    <3> QED BY <3>2, <3>3
  <2> QED BY <2>2, <2>3, <2>4, <2>5 DEF q
<1> QED BY <1>1, HttpInvariance, PTL
-----------------------------------------------------------------------------
(* HttpGet: what StopEnds rests on *)

\* The signal was emitted into every stopped coroutine that runs, and into no other
\* client's request; CoroMain starts every request.
Emit(q) ==
    /\ httpClient = "beast" /\ q.stop /\ q.at \notin {"idle", "over"} => q.cancelled
    /\ q.cancelled => httpClient = "beast" /\ q.stop /\ q.at # "idle"
    /\ q.at = "idle" => main.at = "start"
EmitInv == \A r \in selectedUrls : Emit(req[r])

\* A stopped request of the Asio client that was started and is not over is cancelled.
StopEmitted ==
    \A r \in selectedUrls :
        httpClient = "beast" /\ req[r].stop /\ main.at # "start" /\ req[r].at # "over" => req[r].cancelled

\* The next resumption of a cancelled request is its last: the handler is called,
\* or, without exceptions, the process ends.
StopBites ==
    \A r \in selectedUrls :
        req[r].cancelled /\ req'[r] # req[r] /\ req[r].at # "over"
            => req'[r].at = "over" \/ (~exceptions /\ req'[r].at = "aborted")

\* n is what the resumption of q makes of it.
Bitten(q, n) ==
    /\ n.stop = q.stop /\ n.cancelled = q.cancelled /\ n.at # "idle"
    /\ q.cancelled => n.at = "over" \/ (~exceptions /\ n.at = "aborted")

LEMMA KeepsBitten ==
    ASSUME NEW q, NEW m, Keeps(q, m), NEW n, Bitten(m, n)
    PROVE Bitten(q, n)
BY DEF Keeps, Bitten

LEMMA ReleaseKeeps == ASSUME NEW q \in RequestType PROVE Keeps(q, Release(q))
<1> DEFINE a == SslGone(q, "sslConnection")
           b == SslGone(a, "resultSslConnection")
<1>1. Keeps(q, a) BY GoneFacts
<1>2. a \in RequestType BY <1>1 DEF Keeps
<1>3. Keeps(a, b) BY <1>2, GoneFacts
<1>4. b \in RequestType BY <1>3 DEF Keeps
<1>5. Keeps(b, Release(q)) BY <1>4, FinishFacts DEF Release, Objects
<1> QED BY <1>1, <1>3, <1>5 DEF Keeps

LEMMA OverBitten ==
    ASSUME NEW q \in RequestType, NEW ok \in BOOLEAN
    PROVE Bitten(q, Over(q, ok))
<1> DEFINE rel == Release(q)
<1>1. rel \in RequestType /\ rel.stop = q.stop /\ rel.cancelled = q.cancelled
  BY ReleaseKeeps DEF Keeps
<1>2. Over(q, ok) = [rel EXCEPT !.at = "over", !.ok = ok, !.calls = rel.calls + 1] BY DEF Over
<1> HIDE DEF rel
<1>3. Over(q, ok).at = "over" /\ Over(q, ok).stop = q.stop /\ Over(q, ok).cancelled = q.cancelled
  BY <1>1, <1>2 DEF RequestType
<1> QED BY <1>3 DEF Bitten

\* A co_await of a cancelled coroutine throws.
LEMMA ThrowBitten ==
    ASSUME NEW q \in RequestType, q.cancelled
    PROVE Bitten(q, Throw(q))
<1>1. CASE exceptions BY <1>1, OverBitten, Zenon DEF Throw
<1>2. CASE ~exceptions BY <1>2, Zenon DEF Throw, Bitten, RequestType
<1> QED BY <1>1, <1>2

LEMMA AwaitBitten ==
    ASSUME NEW q \in RequestType, NEW at, at # "idle"
    PROVE Bitten(q, Await(q, at))
<1>1. CASE q.cancelled BY <1>1, ThrowBitten, Zenon DEF Await
<1>2. CASE ~q.cancelled BY <1>2 DEF Await, Bitten, RequestType
<1> QED BY <1>1, <1>2

LEMMA ConnectBitten == ASSUME NEW q \in RequestType PROVE Bitten(q, Connect(q))
<1>1. CASE q.cancelled BY <1>1, ThrowBitten, Zenon DEF Connect
<1>2. CASE ~q.cancelled
  <2> DEFINE h == [q.holds EXCEPT !["socket"] = "socket"]
  <2>1. Connect(q) = [q EXCEPT !.at = "connect", !.holds = h] BY <1>2 DEF Connect
  <2> HIDE DEF h
  <2> QED BY <1>2, <2>1 DEF Bitten, RequestType
<1> QED BY <1>1, <1>2

LEMMA ConnectedBitten ==
    ASSUME NEW q \in RequestType, NEW accepted \in BOOLEAN
    PROVE Bitten(q, Connected(q, accepted))
<1>1. CASE ~q.tls
  <2>1. Connected(q, accepted) = Await(q, "write") BY <1>1, Zenon DEF Connected
  <2> QED BY <2>1, AwaitBitten
<1>2. CASE q.tls /\ ~withSsl
  <2>1. Connected(q, accepted) = Over(q, FALSE) BY <1>2, Zenon DEF Connected
  <2> QED BY <2>1, OverBitten
<1>3. CASE q.tls /\ withSsl /\ q.cancelled
  <2>1. Connected(q, accepted) = Throw(q) BY <1>3, Zenon DEF Connected
  <2> QED BY <1>3, <2>1, ThrowBitten
<1>4. CASE q.tls /\ withSsl /\ ~q.cancelled
  <2> DEFINE moved == Move(q, "tcpConnection", "sslConnection")
  <2>1. Connected(q, accepted) = IF accepted THEN [moved EXCEPT !.at = "handshake"] ELSE Over(moved, FALSE)
    BY <1>4, Zenon DEF Connected
  <2>2. Keeps(q, moved) BY MoveFacts DEF Objects
  <2>3. moved \in RequestType BY <2>2 DEF Keeps
  <2> HIDE DEF moved
  <2>4. ~moved.cancelled BY <1>4, <2>2 DEF Keeps
  <2>5. Bitten(moved, [moved EXCEPT !.at = "handshake"]) BY <2>3, <2>4 DEF Bitten, RequestType
  <2>6. Bitten(moved, Over(moved, FALSE)) BY <2>3, OverBitten
  <2>7. Bitten(moved, Connected(q, accepted)) BY <2>1, <2>5, <2>6, Zenon
  <2> QED BY <2>2, <2>7, KeepsBitten
<1> QED BY <1>1, <1>2, <1>3, <1>4

LEMMA TcpConnectBitten ==
    ASSUME NEW q \in RequestType, NEW ok \in BOOLEAN, NEW accepted \in BOOLEAN
    PROVE Bitten(q, TcpConnect(q, ok, accepted))
<1>1. CASE ok
  <2> DEFINE one == [q EXCEPT !.connected = q.connected + 1]
             n == Move(one, "socket", "tcpConnection")
  <2>1. TcpConnect(q, ok, accepted) = Connected(n, accepted) BY <1>1, Zenon DEF TcpConnect
  <2>2. one \in RequestType /\ one.stop = q.stop /\ one.cancelled = q.cancelled BY DEF RequestType
  <2> HIDE DEF one
  <2>3. Keeps(one, n) BY <2>2, MoveFacts DEF Objects
  <2>4. n \in RequestType /\ n.stop = q.stop /\ n.cancelled = q.cancelled BY <2>2, <2>3 DEF Keeps
  <2> HIDE DEF n
  <2>5. Bitten(n, Connected(n, accepted)) BY <2>4, ConnectedBitten
  <2> QED BY <2>1, <2>4, <2>5 DEF Bitten
<1>2. CASE ~ok
  <2> DEFINE h == [q.holds EXCEPT !["socket"] = "nothing"]
             n == SocketClose(q)
             m == q.left - 1
             again == [n EXCEPT !.left = m]
  <2>1. h \in [Objects -> Holding] BY DEF RequestType, Holding
  <2>2. n = [q EXCEPT !.holds = h] BY DEF SocketClose
  <2> HIDE DEF h, n
  <2>3. n \in RequestType /\ n.stop = q.stop /\ n.cancelled = q.cancelled /\ n.left = q.left
    BY <2>1, <2>2, ZenonT(30) DEF RequestType
  <2>4. CASE q.left > 1
    <3>1. TcpConnect(q, ok, accepted) = Connect(again)
      BY <1>2, <2>3, <2>4, Zenon DEF TcpConnect, n
    <3>2. m \in Nat BY <2>4 DEF RequestType
    <3> HIDE DEF m
    <3>3. again \in RequestType /\ again.stop = q.stop /\ again.cancelled = q.cancelled
      BY <2>3, <3>2, ZenonT(30) DEF RequestType
    <3> HIDE DEF again
    <3>4. Bitten(again, Connect(again)) BY <3>3, ConnectBitten
    <3> QED BY <3>1, <3>3, <3>4 DEF Bitten
  <2>5. CASE ~(q.left > 1)
    <3>1. TcpConnect(q, ok, accepted) = Over(n, FALSE) BY <1>2, <2>5, Zenon DEF TcpConnect, n
    <3>2. Bitten(n, Over(n, FALSE)) BY <2>3, OverBitten
    <3> QED BY <2>3, <3>1, <3>2 DEF Bitten
  <2> QED BY <2>4, <2>5
<1> QED BY <1>1, <1>2

LEMMA SslConnectBitten ==
    ASSUME NEW q \in RequestType, NEW ok \in BOOLEAN, NEW complete \in BOOLEAN
    PROVE Bitten(q, SslConnect(q, ok, complete))
<1> DEFINE h == [q.holds EXCEPT !["sslConnection"] = "session"]
           shaken == [q EXCEPT !.holds = h]
           done == IF ok \/ complete THEN shaken ELSE q
           moved == Move(done, "sslConnection", "resultSslConnection")
           n == SslGone(moved, "sslConnection")
<1>1. h \in [Objects -> Holding] BY DEF RequestType, Holding
<1>2. SslConnect(q, ok, complete) = IF ok THEN Await(n, "write") ELSE Over(done, FALSE)
  BY Zenon DEF SslConnect
<1> HIDE DEF h
<1>3. Keeps(q, shaken) BY <1>1, ZenonT(30) DEF Keeps, RequestType
<1> HIDE DEF shaken
<1>4. Keeps(q, done) BY <1>3 DEF Keeps
<1> HIDE DEF done
<1>5. done \in RequestType BY <1>4 DEF Keeps
<1>6. Keeps(done, moved) BY <1>5, MoveFacts DEF Objects
<1>7. moved \in RequestType BY <1>6 DEF Keeps
<1>8. Keeps(moved, n) BY <1>7, GoneFacts
<1>9. Keeps(q, n) /\ n \in RequestType BY <1>4, <1>6, <1>8 DEF Keeps
<1> HIDE DEF n
<1>10. Bitten(n, Await(n, "write")) /\ Bitten(done, Over(done, FALSE))
  BY <1>5, <1>9, AwaitBitten, OverBitten
<1>11. Bitten(q, Await(n, "write")) /\ Bitten(q, Over(done, FALSE))
  BY <1>4, <1>9, <1>10, KeepsBitten, Zenon
<1> QED BY <1>2, <1>11, Zenon

LEMMA ResumedBitten ==
    ASSUME NEW q \in RequestType, q.at \in Pending, NEW ok \in BOOLEAN, NEW ssl \in BOOLEAN
    PROVE Bitten(q, Resumed(q, ok, ssl))
<1>1. CASE q.at = "connect" BY <1>1, TcpConnectBitten, Zenon DEF Resumed
<1>2. CASE q.at = "handshake" BY <1>2, SslConnectBitten, Zenon DEF Resumed
<1>3. CASE q.at \in {"write", "read"}
  <2>1. Resumed(q, ok, ssl) = IF q.at = "write" /\ ok THEN Await(q, "read") ELSE Over(q, ok)
    BY <1>3 DEF Resumed, MakeHttpRequest
  <2>2. Bitten(q, Await(q, "read")) /\ Bitten(q, Over(q, ok)) BY AwaitBitten, OverBitten
  <2> QED BY <2>1, <2>2, Zenon
<1> QED BY <1>1, <1>2, <1>3 DEF Pending

\* A request moves, and the others stay.
LEMMA EmitMoves ==
    ASSUME HttpIInv, EmitInv, NEW r \in selectedUrls, NEW n, req' = [req EXCEPT ![r] = n],
           UNCHANGED <<choices, main>>, Bitten(req[r], n), req[r].at \notin {"idle", "over"}
    PROVE EmitInv' /\ StopBites
<1>1. req'[r] = n /\ \A s \in selectedUrls \ {r} : req'[s] = req[s] BY DEF HttpIInv, HttpTypeOK
<1>2. Emit(n) BY DEF EmitInv, Emit, Bitten
<1>3. EmitInv' BY <1>1, <1>2 DEF EmitInv, Emit, choices
<1>4. StopBites BY <1>1 DEF StopBites, Bitten
<1> QED BY <1>3, <1>4

LEMMA EmitStep == HttpIInv /\ EmitInv /\ [HttpNext]_httpVars => EmitInv' /\ StopBites
<1> SUFFICES ASSUME HttpIInv, EmitInv, [HttpNext]_httpVars PROVE EmitInv' /\ StopBites OBVIOUS
<1>0. \A r \in selectedUrls : req[r] \in RequestType /\ Emit(req[r])
  BY DEF HttpIInv, HttpTypeOK, EmitInv
<1>1. ASSUME UNCHANGED <<req, choices>>, main.at = "start" => main'.at = "start"
      PROVE  EmitInv' /\ StopBites
  BY <1>1 DEF EmitInv, Emit, StopBites, choices
<1>2. CASE MainStart
  <2>0. CASE selectedUrls = {}
    BY <1>2, <2>0 DEF MainStart, EmitInv, StopBites, choices
  <2> SUFFICES ASSUME selectedUrls # {} PROVE EmitInv' /\ StopBites BY <2>0
  <2>1. /\ req' = [r \in selectedUrls |-> Get(req[r])] /\ UNCHANGED choices
        /\ \A r \in selectedUrls : req[r].at = "idle"
    BY <1>2 DEF MainStart, Handled, HttpIInv, MainInv
  <2>2. ASSUME NEW r \in selectedUrls PROVE Emit(Get(req[r])) /\ Get(req[r]).at # "idle" /\ ~req[r].cancelled
    <3>1. ~req[r].cancelled /\ req[r] \in RequestType BY <1>0, <2>1 DEF Emit
    <3>2. CASE req[r].stop
      <4>1. Get(req[r]) = [req[r] EXCEPT !.at = "over", !.calls = req[r].calls + 1]
        BY <3>2 DEF Get
      <4>2. Get(req[r]).at = "over" /\ ~Get(req[r]).cancelled BY <3>1, <4>1 DEF RequestType
      <4> QED BY <3>1, <4>2 DEF Emit
    <3>3. CASE ~req[r].stop
      <4>1. Get(req[r]) = [req[r] EXCEPT !.at = "spawned"] \/ Get(req[r]) = [req[r] EXCEPT !.at = "fetch"]
        BY <3>3 DEF Get, AsioGet, FetchGet
      <4>2. Get(req[r]).at # "idle" /\ ~Get(req[r]).stop /\ ~Get(req[r]).cancelled BY <3>1, <3>3, <4>1 DEF RequestType
      <4> QED BY <3>1, <4>2 DEF Emit
    <3> QED BY <3>2, <3>3
  <2>3. EmitInv' BY <2>1, <2>2 DEF EmitInv, Emit, choices
  <2>4. StopBites BY <2>2 DEF StopBites
  <2> QED BY <2>3, <2>4
<1>3. ASSUME NEW r \in selectedUrls, Stop(r) PROVE EmitInv' /\ StopBites
  <2> DEFINE emitted == httpClient = "beast" /\ req[r].at \notin {"idle", "over"}
             q == [req[r] EXCEPT !.stop = TRUE, !.cancelled = emitted]
  <2>1. req' = [req EXCEPT ![r] = q] /\ UNCHANGED <<choices, main>> /\ ~req[r].stop
    BY <1>3, Zenon DEF Stop, HttpIInv, HttpTypeOK, RequestType
  <2> HIDE DEF emitted
  <2>2. q.at = req[r].at /\ q.cancelled = emitted /\ q.stop BY <1>0 DEF RequestType
  <2>3. Emit(q) BY <1>0, <2>2, Zenon DEF Emit, emitted
  <2> HIDE DEF q
  <2>4. req'[r] = q /\ \A s \in selectedUrls \ {r} : req'[s] = req[s] BY <2>1 DEF HttpIInv, HttpTypeOK
  <2>5. EmitInv' BY <1>0, <2>1, <2>3, <2>4 DEF EmitInv, Emit, choices
  <2>6. StopBites BY <1>0, <2>1, <2>4 DEF StopBites, Emit
  <2> QED BY <2>5, <2>6
<1>4. ASSUME NEW r \in selectedUrls, StreamFinish(r) PROVE EmitInv' /\ StopBites
  <2> DEFINE m == SocketFinish(req[r], "finisher")
             q == [m EXCEPT !.finisher = FALSE]
  <2>1. req' = [req EXCEPT ![r] = q] /\ UNCHANGED <<choices, main>> /\ req[r].finisher
    BY <1>4 DEF StreamFinish, HttpIInv, HttpTypeOK
  <2>2. req[r].at = "over" BY <2>1 DEF HttpIInv, SoundInv, Sound
  <2>3. q.at = "over" /\ q.stop = req[r].stop /\ q.cancelled = req[r].cancelled
    <3>1. Keeps(req[r], m) BY <1>0, FinishFacts DEF Objects
    <3> HIDE DEF m
    <3> QED BY <2>2, <3>1 DEF Keeps, RequestType
  <2> HIDE DEF q
  <2>4. req'[r] = q /\ \A s \in selectedUrls \ {r} : req'[s] = req[s] BY <2>1 DEF HttpIInv, HttpTypeOK
  <2>5. EmitInv' BY <1>0, <2>1, <2>3, <2>4 DEF EmitInv, Emit, choices
  <2>6. StopBites BY <2>2, <2>4 DEF StopBites
  <2> QED BY <2>5, <2>6
<1>5. ASSUME NEW r \in selectedUrls, Spawned(r) \/ Parse(r) \/ Resolved(r) PROVE EmitInv' /\ StopBites
  <2> DEFINE q == req[r]
  <2>1. q.at \in {"spawned", "parse", "resolve"} /\ UNCHANGED <<choices, main>>
    BY <1>5, Zenon DEF Spawned, Parse, Resolved, Resume
  <2>2. Bitten(q, Over(q, FALSE)) BY <1>0, OverBitten, Zenon
  <2>3. Bitten(q, Await(q, "parse")) /\ Bitten(q, Await(q, "resolve")) BY <1>0, AwaitBitten
  <2>4. ASSUME NEW n \in 1 .. MaxEndpoints PROVE Bitten(q, Connect([q EXCEPT !.left = n]))
    <3> DEFINE found == [q EXCEPT !.left = n]
    <3>1. n \in Nat BY HttpAssumption
    <3>2. found \in RequestType /\ found.stop = q.stop /\ found.cancelled = q.cancelled
      BY <1>0, <3>1 DEF RequestType
    <3> HIDE DEF found
    <3>3. Bitten(found, Connect(found)) BY <3>2, ConnectBitten
    <3>4. Bitten(q, Connect(found)) BY <3>2, <3>3 DEF Bitten
    <3> QED BY <3>4 DEF found
  <2>5. PICK new : Bitten(q, new) /\ Becomes(r, new)
    BY <1>5, <2>2, <2>3, <2>4, ZenonT(30) DEF Spawned, Parse, Resolved
  <2>6. req' = [req EXCEPT ![r] = new] BY <2>5 DEF Becomes, Handled
  <2> QED BY <2>1, <2>5, <2>6, EmitMoves, Zenon
<1>6. ASSUME NEW r \in selectedUrls, NEW ok \in BOOLEAN, Completed(r, ok) PROVE EmitInv' /\ StopBites
  <2>1. PICK ssl \in BOOLEAN : /\ req[r].at \in Pending /\ Becomes(r, Resumed(req[r], ok, ssl))
                              /\ UNCHANGED <<choices, main>>
    BY <1>6, Zenon DEF Completed, Resume
  <2>2. req' = [req EXCEPT ![r] = Resumed(req[r], ok, ssl)] BY <2>1 DEF Becomes, Handled
  <2>3. Bitten(req[r], Resumed(req[r], ok, ssl)) BY <1>0, <2>1, ResumedBitten
  <2> QED BY <2>1, <2>2, <2>3, EmitMoves, Zenon DEF Pending
<1>7. ASSUME NEW r \in selectedUrls, NEW ok \in BOOLEAN, JsSettles(r, ok) \/ EmSettles(r, ok)
      PROVE  EmitInv' /\ StopBites
  <2> DEFINE q == req[r]
             text == [q EXCEPT !.at = "text"]
  <2>1. q.at \in {"fetch", "text"} /\ UNCHANGED <<choices, main>>
    BY <1>7, ZenonT(30) DEF JsSettles, EmSettles, Resume
  <2>2. \A b \in BOOLEAN : Bitten(q, Settled(q, b))
    BY <1>0, ZenonT(30) DEF Settled, Bitten, RequestType
  <2>3. httpClient = "js" => Bitten(q, text)
    BY <1>0 DEF Bitten, RequestType, Emit
  <2>4. PICK new : Bitten(q, new) /\ Becomes(r, new)
    BY <1>7, <2>2, <2>3, ZenonT(30) DEF JsSettles, EmSettles
  <2>5. req' = [req EXCEPT ![r] = new] BY <2>4 DEF Becomes, Handled
  <2> QED BY <2>1, <2>4, <2>5, EmitMoves, Zenon
<1>8. MainReceive \/ UNCHANGED httpVars
        => UNCHANGED <<req, choices>> /\ (main.at = "start" => main'.at = "start")
  BY DEF MainReceive, httpVars
<1> HIDE DEF HttpIInv, EmitInv
<1> QED BY <1>1, <1>2, <1>3, <1>4, <1>5, <1>6, <1>7, <1>8, Zenon DEF HttpNext, Loop, Aborted

LEMMA EmitInvariance == HttpSpec => []EmitInv
<1>1. ASSUME HttpInit PROVE EmitInv
  <2>1. PICK stop, tls \in [selectedUrls -> BOOLEAN] : req = [r \in selectedUrls |-> Request(stop[r], tls[r])]
    BY <1>1 DEF HttpInit
  <2> QED BY <1>1, <2>1 DEF HttpInit, EmitInv, Emit, Request
<1> QED BY <1>1, EmitStep, HttpInvariance, PTL DEF HttpSpec

\* StopBridge emits the signal of every stopped request that a start has reached,
\* whichever came first.
THEOREM StopReaches == HttpSpec => []StopEmitted
<1>1. HttpIInv /\ EmitInv => StopEmitted
  <2> SUFFICES ASSUME HttpIInv, EmitInv, NEW r \in selectedUrls, httpClient = "beast", req[r].stop,
                      main.at # "start", req[r].at # "over"
               PROVE  req[r].cancelled
    BY DEF StopEmitted
  <2> QED BY DEF EmitInv, Emit
<1> QED BY <1>1, EmitInvariance, HttpInvariance, PTL

\* A cancelled coroutine begins no further operation, connection attempts to the
\* remaining endpoints included: its next resumption ends it.
THEOREM StopIsLast == HttpSpec => [][StopBites]_httpVars
<1>1. HttpIInv /\ EmitInv /\ [HttpNext]_httpVars => [StopBites]_httpVars BY EmitStep
<1> QED BY <1>1, EmitInvariance, HttpInvariance, PTL DEF HttpSpec
=============================================================================
