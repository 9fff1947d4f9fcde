------------------------------ MODULE HttpGet ------------------------------
(***************************************************************************)
(* The HTTP clients behind ILiteClient::Get and the demo that calls them:  *)
(* AsioLiteClient with BeastLiteClient (TcpConnection, SslConnection),     *)
(* JsFetchLiteClient and EmFetchLiteClient.                                *)
(*                                                                         *)
(* Everything runs on the one thread that polls the executor.  A coroutine *)
(* that was cancelled throws at its next co_await; a build without         *)
(* exceptions ends the process there (boost::throw_exception).             *)
(***************************************************************************)
EXTENDS Naturals, FiniteSets

CONSTANTS Requests,     \* the URLs the demo asks for
          MaxEndpoints  \* bound on the endpoints of a host name

ASSUME HttpAssumption == IsFiniteSet(Requests) /\ MaxEndpoints \in Nat \ {0}

VARIABLES
    httpClient,   \* MakeDefault's choice: "beast", "js" or "em"
    exceptions,   \* whether the build has exceptions
    withSsl,      \* ... and HTTP_CLIENT_WITH_SSL
    selectedUrls, \* what the command line asks for
    req,          \* the requests
    main,         \* CoroMain: where it is and its exit code
    completions,  \* messages in its channel
    errorCount

choices == <<httpClient, exceptions, withSsl, selectedUrls>>
httpVars == <<choices, req, main, completions, errorCount>>

(* The objects a socket moves through: TcpConnect's local, GetAsyncImpl's      *)
(* tcpConnection, SslConnect's local, GetAsyncImpl's result and the argument   *)
(* of the detached StreamFinish.                                               *)
Objects == {"socket", "tcpConnection", "sslConnection", "resultSslConnection", "finisher"}

(* What an object holds: no open socket and a null session handle, which is    *)
(* what a move leaves behind; an open socket; or one with a TLS session whose  *)
(* handshake SSL_is_init_finished calls finished.                              *)
Holding == {"nothing", "socket", "session"}

Request(stop, tls) ==
    [at |-> "idle",        \* the operation the request is suspended in
     stop |-> stop,        \* stop requested
     cancelled |-> FALSE,  \* ... and emitted into the coroutine
     tls |-> tls,          \* https
     left |-> 0,           \* endpoints to try, the current one included
     holds |-> [o \in Objects |-> "nothing"],
     finisher |-> FALSE,   \* StreamFinish is running
     connected |-> 0, finished |-> 0,  \* sockets connected; ended by SocketFinish
     calls |-> 0, ok |-> FALSE]

(* ChooseTryUrls: the arguments pick the URLs, perhaps none. *)
ChooseTryUrls == SUBSET Requests

HttpInit ==
    /\ httpClient \in {"beast", "js", "em"} /\ exceptions \in BOOLEAN /\ withSsl \in BOOLEAN
    /\ selectedUrls \in ChooseTryUrls
    /\ \E stop, tls \in [selectedUrls -> BOOLEAN] :
           req = [r \in selectedUrls |-> Request(stop[r], tls[r])]
    /\ main = [at |-> "start", received |-> 0, code |-> 0]
    /\ completions = 0 /\ errorCount = 0

-----------------------------------------------------------------------------
(* What a step makes of a request q *)

Move(q, from, to) ==
    [q EXCEPT !.holds = [@ EXCEPT ![to] = q.holds[from], ![from] = "nothing"]]

SocketClose(q) == [q EXCEPT !.holds["socket"] = "nothing"]

SocketFinish(q, o) ==
    IF q.holds[o] = "nothing" THEN q ELSE [q EXCEPT !.holds[o] = "nothing", !.finished = @ + 1]

(* ~SslConnection: a finished TLS session is handed to a detached coroutine    *)
(* that shuts it down.  The native handle of a stream moved from is null.      *)
SslGoneUncheckedMutant(q, o) == [Move(q, o, "finisher") EXCEPT !.finisher = TRUE]

SslGone(q, o) ==
    IF q.holds[o] = "session" THEN [Move(q, o, "finisher") EXCEPT !.finisher = TRUE]
    ELSE SocketFinish(q, o)

(* The end of the coroutine, by return or by exception: each destructor looks  *)
(* at its own object only.                                                     *)
Release(q) ==
    SocketFinish(SslGone(SslGone(q, "sslConnection"), "resultSslConnection"), "tcpConnection")

Over(q, ok) == [Release(q) EXCEPT !.at = "over", !.ok = ok, !.calls = @ + 1]

Throw(q) == IF exceptions THEN Over(q, FALSE) ELSE [q EXCEPT !.at = "aborted"]

(* co_await *)
Await(q, at) == IF q.cancelled THEN Throw(q) ELSE [q EXCEPT !.at = at]

(* socket.async_connect opens the socket. *)
Connect(q) ==
    IF q.cancelled THEN Throw(q) ELSE [q EXCEPT !.at = "connect", !.holds["socket"] = "socket"]

(* Get, up to its first suspension.  Nobody else runs meanwhile. *)
GetNoReturnMutant(q) ==
    [q EXCEPT !.at = IF httpClient = "beast" THEN "spawned" ELSE "fetch",
              !.calls = IF q.stop THEN @ + 1 ELSE @]

AsioGet(q) == [q EXCEPT !.at = "spawned"]
FetchGet(q) == [q EXCEPT !.at = "fetch"]

Get(q) ==
    IF q.stop THEN [q EXCEPT !.at = "over", !.calls = @ + 1]
    ELSE IF httpClient = "beast" THEN AsioGet(q) ELSE FetchGet(q)

(* The caller's handler runs for the requests that are over in new. *)
Handled(new) ==
    LET called == {r \in selectedUrls : req[r].at # "over" /\ new[r].at = "over"}
        failed == {r \in called : ~new[r].ok}
    IN  /\ req' = new
        /\ completions' = completions + Cardinality(called)
        /\ errorCount' = errorCount + Cardinality(failed)

Becomes(r, q) == Handled([req EXCEPT ![r] = q])

Running == \A r \in selectedUrls : req[r].at # "aborted"

-----------------------------------------------------------------------------
(* CoroMain starts every selected request, then receives a completion for     *)
(* each; with none selected it returns 1.                                     *)
MainStart ==
    /\ main.at = "start"
    /\ IF selectedUrls = {}
       THEN main' = [main EXCEPT !.at = "done", !.code = 1] /\ UNCHANGED <<req, completions, errorCount>>
       ELSE main' = [main EXCEPT !.at = "receive"] /\ Handled([r \in selectedUrls |-> Get(req[r])])
    /\ UNCHANGED choices

MainReceive ==
    LET n == main.received + 1 IN
    /\ Running /\ main.at = "receive" /\ completions > 0
    /\ completions' = completions - 1
    /\ main' = IF n = Cardinality(selectedUrls)
               THEN [at |-> "done", received |-> n, code |-> errorCount]
               ELSE [main EXCEPT !.received = n]
    /\ UNCHANGED <<choices, req, errorCount>>

(* request_stop runs StopBridge's callback, which lives until the handler is  *)
(* called: the signal cancels what the coroutine is suspended in.             *)
StopUnbridgedMutant(r) ==
    /\ Running /\ ~req[r].stop
    /\ req' = [req EXCEPT ![r].stop = TRUE]
    /\ UNCHANGED <<choices, main, completions, errorCount>>

Stop(r) ==
    /\ Running /\ ~req[r].stop
    /\ req' = [req EXCEPT ![r].stop = TRUE,
                          ![r].cancelled = httpClient = "beast" /\ req[r].at \notin {"idle", "over"}]
    /\ UNCHANGED <<choices, main, completions, errorCount>>

-----------------------------------------------------------------------------
(* BeastLiteClient.  Each action resumes a coroutine suspended in one         *)
(* operation, with the operation's outcome, up to its next suspension.        *)
Resume(r, at) == Running /\ req[r].at = at /\ UNCHANGED <<choices, main>>

(* Both co_spawns: BeastLiteClient::GetAsync, then GetAsyncImpl. *)
Spawned(r) == Resume(r, "spawned") /\ Becomes(r, Await(req[r], "parse"))

Parse(r) ==
    /\ Resume(r, "parse")
    /\ \/ Becomes(r, Over(req[r], FALSE))
       \/ Becomes(r, Await(req[r], "resolve"))

(* A pending resolution cannot be cancelled. *)
Resolved(r) ==
    /\ Resume(r, "resolve")
    /\ \/ Becomes(r, Over(req[r], FALSE))
       \/ \E n \in 1 .. MaxEndpoints : Becomes(r, Connect([req[r] EXCEPT !.left = n]))

(* GetAsyncImpl with its tcpConnection, up to the next suspension.  SslConnect *)
(* moves the socket into its stream before it sets the host name, which may    *)
(* fail (accepted is FALSE).                                                   *)
Connected(q, accepted) ==
    CASE ~q.tls -> Await(q, "write")
      [] q.tls /\ ~withSsl -> Over(q, FALSE)
      [] q.tls /\ withSsl /\ q.cancelled -> Throw(q)
      [] OTHER -> LET moved == Move(q, "tcpConnection", "sslConnection") IN
                  IF accepted THEN [moved EXCEPT !.at = "handshake"] ELSE Over(moved, FALSE)

TcpConnect(q, ok, accepted) ==
    CASE ok -> Connected(Move([q EXCEPT !.connected = @ + 1], "socket", "tcpConnection"), accepted)
      [] ~ok /\ q.left > 1 -> Connect([SocketClose(q) EXCEPT !.left = @ - 1])
      [] OTHER -> Over(SocketClose(q), FALSE)

(* SSL_is_init_finished may hold (complete) although async_handshake failed:  *)
(* the last flight is written after the session is set up.  A successful      *)
(* SslConnect moves its connection out and destroys what it moved from.       *)
SslConnect(q, ok, complete) ==
    LET done == IF ok \/ complete THEN [q EXCEPT !.holds["sslConnection"] = "session"] ELSE q IN
    IF ok THEN Await(SslGone(Move(done, "sslConnection", "resultSslConnection"), "sslConnection"), "write")
    ELSE Over(done, FALSE)

MakeHttpRequest(q, ok) ==
    IF q.at = "write" /\ ok THEN Await(q, "read") ELSE Over(q, ok)

Pending == {"connect", "handshake", "write", "read"}

(* ssl is what the TLS library reports beside the outcome. *)
Resumed(q, ok, ssl) ==
    CASE q.at = "connect" -> TcpConnect(q, ok, ssl)
      [] q.at = "handshake" -> SslConnect(q, ok, ssl)
      [] OTHER -> MakeHttpRequest(q, ok)

Completed(r, ok) ==
    \E at \in Pending, ssl \in BOOLEAN : Resume(r, at) /\ Becomes(r, Resumed(req[r], ok, ssl))

(* What was pending when the signal was emitted completes, aborted. *)
Aborted(r) == req[r].cancelled /\ Completed(r, FALSE)

(* SslConnection's detached coroutine: the shutdown is answered or fails. *)
StreamFinish(r) ==
    /\ Running /\ req[r].finisher
    /\ req' = [req EXCEPT ![r] = [SocketFinish(@, "finisher") EXCEPT !.finisher = FALSE]]
    /\ UNCHANGED <<choices, main, completions, errorCount>>

(* The browser's fetch settles.  The context dies with the call of the       *)
(* handler.                                                                   *)
Settled(q, ok) == [q EXCEPT !.at = "over", !.ok = ok, !.calls = @ + 1]

(* JsFetch awaits the body separately; either await may throw.  The catch also *)
(* covers the call of the handler, which the demo's never throws out of.       *)
JsSettles(r, ok) ==
    \/ Resume(r, "fetch") /\ httpClient = "js"
       /\ Becomes(r, IF ok THEN [req[r] EXCEPT !.at = "text"] ELSE Settled(req[r], FALSE))
    \/ Resume(r, "text") /\ Becomes(r, Settled(req[r], ok))

(* EmFetch calls onsuccess or onerror with everything loaded; an HTTP error   *)
(* status is a response like any other.                                       *)
EmSettles(r, ok) == Resume(r, "fetch") /\ httpClient = "em" /\ Becomes(r, Settled(req[r], ok))

Loop(r) == Spawned(r) \/ Parse(r) \/ Resolved(r) \/ Aborted(r)

HttpNext ==
    \/ MainStart \/ MainReceive
    \/ \E r \in selectedUrls : \/ Stop(r) \/ Loop(r) \/ StreamFinish(r)
                           \/ \E ok \in BOOLEAN : \/ Completed(r, ok) \/ JsSettles(r, ok)
                                               \/ EmSettles(r, ok)

(* The loop is polled, the resolver answers and an aborted operation          *)
(* completes.  Servers need not answer.                                       *)
HttpFairness ==
    WF_httpVars(MainStart) /\ WF_httpVars(MainReceive) /\ \A r \in Requests : WF_httpVars(r \in selectedUrls /\ Loop(r))

HttpSpec == HttpInit /\ [][HttpNext]_httpVars /\ HttpFairness

-----------------------------------------------------------------------------
(* Properties *)

(* Every way out of a request, returned or thrown, stopped early or late,     *)
(* calls the handler once: the demo's channel never holds more than it has    *)
(* room for, it ends after the last handler, and its exit code counts         *)
(* exactly the requests that failed (it is 1 when nothing was asked for).     *)
EachHandledOnce ==
    /\ \A r \in selectedUrls : req[r].calls = IF req[r].at = "over" THEN 1 ELSE 0
    /\ completions + main.received = Cardinality({r \in selectedUrls : req[r].at = "over"})
    /\ main.at = "done" =>
          main.code = IF selectedUrls = {} THEN 1 ELSE Cardinality({r \in selectedUrls : ~req[r].ok})

(* The object whose socket the pending operation uses. *)
User(q) ==
    CASE q.at = "connect" -> "socket"
      [] q.at = "handshake" -> "sslConnection"
      [] OTHER -> IF q.tls THEN "resultSslConnection" ELSE "tcpConnection"

(* Through the moves socket -> TcpConnection -> SslConnection -> result ->    *)
(* StreamFinish, and the destructors of what was moved from, the one open     *)
(* socket is where the pending operation uses it; a TLS shutdown only ever    *)
(* runs on a live session; and when the request is over, by a result, an      *)
(* error, an exception or a stop at any suspension, the connected socket has  *)
(* been ended by SocketFinish exactly once, or is about to be by the running  *)
(* StreamFinish.                                                              *)
SocketsReleased ==
    \A r \in selectedUrls :
        LET q == req[r]
            opened == {o \in Objects : q.holds[o] # "nothing"}
        IN  /\ q.at \in Pending => opened = {User(q)} /\ ~q.finisher
            /\ q.finisher => q.holds["finisher"] = "session"
            /\ q.at = "over" =>
                  /\ opened = IF q.finisher THEN {"finisher"} ELSE {}
                  /\ q.connected = q.finished + Cardinality(opened)

(* Stopping a request of the Asio client ends it whatever the server does: in *)
(* a build with exceptions the handler is called, in a build without the      *)
(* process may end at the next co_await instead.                              *)
StopEnds ==
    \A r \in Requests :
        (r \in selectedUrls /\ httpClient = "beast" /\ req[r].stop /\ main.at # "start")
            ~> ((r \in selectedUrls /\ req[r].at = "over") \/ (~exceptions /\ ~Running))
=============================================================================
