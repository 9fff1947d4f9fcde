# A TLA+ model of tx-pkg-aux

tx-pkg-aux is a set of C++ packages: sender/receiver execution on a frame loop,
an Asio variant of the same, real-time transport over UDP and WebRTC with its
signaling, an HTTP client, and small services (log, files, start-up). This
directory models the parts of it where threads, callbacks, timers and networks
meet. TLC checks the models on small instances; TLAPS proves every safety property
the passing runs check, for every size (section 5).

## 1. The system

| part | state | operations | what is hard |
|---|---|---|---|
| `exec` timer backends | heap or vector of deadlines, active ids, id in flight | `ScheduleAt`, `Cancel`, `Tick`, timer thread, destructor | sleeping for a stale deadline, `Cancel` against a running callback, lost notifications |
| `exec` operations | `state`, `timerId`, stop callback, queue node | `start`, `TryEnqueue`, `TryEnqueueStop`, `Execute`, destructor | the timer's thread races stop requests and the destructor |
| `exec` `Domain` | queue, stop source, operation state | `Start`, `Update`, `Stop`, `Completed`, `Stopped` | drain and destruction while callbacks are on their way |
| `runloop`, `app` | handler list, `_running`, exit code | `Add`, `Remove`, `Start`, `Stop`, `Update`, `Exit` | handlers that change the list while it is walked, `Exit()` inside `Start()` |
| `asio` | `io_context`, main coroutine, `_cancelled` | `Start`, `Update`, `Stop`, `Completed` | completion before, during and after `Stop()` |
| `rtt` signaling | users of a hub, early messages; WebSocket connections, the relay's queues | `Join`, `Send`, `Leave`, `SetHandler`, `Dispatch` | messages before the handler, a stale user that leaves, reconnects |
| `rtt` WebRTC | peers, links, inbound count, queued candidates | offer, answer, candidate, open, close | messages in any order from library threads, limits, close reported twice |
| `rtt` UDP | links by endpoint, pending receive | `Open`, `OnReceived`, `Send`, `Disconnect` | a datagram that completes after `Disconnect()` |
| `http` | one request with its timeout and stop bridge | `Get` | timeout, stop and answer race |
| `log`, `fs`, `boot`, `async` | sinks, drives | | sequential |

The properties that make it correct are: a timer fires once, at or after its
deadline, and not after its `Cancel()` has returned; an operation completes
exactly once; nothing that waits is forgotten; nothing is used after it is
destroyed; a stop terminates; a message is delivered once and in order; a
counter counts what exists.

## 2. The modules

`TimerBackend` is the contract of `ITimerBackend`. Each timer has a status
(`unused`, `armed`, `due`, `inflight`, `fired`, `cancelled`), and `released`
collects the timers for which a `Cancel()` has returned. `Cancel` is enabled only
when the callback is not running: it "MUST block" otherwise.

`ThreadTimerBackend` is the backend with a thread. Its actions are the critical
sections of the code and the steps between them: a caller takes an id, inserts
under the mutex and notifies after it (`ScheduleAt`, `Insert`, `NotifyOne`); a
canceller enters, blocks on `_doneCv` and returns (`CancelCall`, `CancelBlock`,
`CancelReturn`); the timer thread tests its predicate, sleeps, is woken, times
out or wakes spuriously, pops, runs the callback unlocked and clears
`_inflightId`. The callback itself is a caller (`TimerThread` is in `Callers`).
The test of a predicate and the sleep are two steps because `_stopping` is
written without the mutex; the mutex is held between them (`Holding`). The heap is
a set of entries and `Tops` its possible tops; entries with equal deadlines come
out in any order, as `std::priority_queue` allows. A callback does not cancel its
own id, for which the code would wait for itself.

`LoopTimerBackend` is the backend without a thread: a sorted vector, and `Tick()`
as a begin step with the snapshot of the clock, one step per entry fired, and an
end step, between which callbacks schedule and cancel. Nothing in it says that a `Tick()`
returns (section 4), so its specification has no fairness.

`ExecDomain` composes `Domain`, `PureLoopContext`, `TimedLoopContext` and
`TimedOperation` with a timer backend known by its contract: its timers are those
of an INSTANCE of `TimerBackend`. The loop thread starts, stops, drains and
destroys; the callback of each timed operation has four steps (reset `timerId`,
exchange `state`, enqueue, return) that interleave with it. `timerId` is a plain
field written by both threads, so a read that no synchronisation orders after the
callback's write returns either value (`TimerIdReads`). A callback that outlives
its operation exchanges freed memory, with either result. The stop sources are
the Domain's and those of senders it runs (`when_all`, `stop_when`), so all stop
requests are made by the loop thread. A stop of the Domain reaches every operation, as
`RunTask` copies the stop token of its parent (`Inherits`).

`RunLoop` composes the runners (`TightRunner`, `WasmRunner`), `CompositeHandler` and
its handlers (`Exec::Domain`, `Asio::AsioDomain`, handlers of the application). One
thread runs all of it; what makes it hard is that a callback may add and remove
handlers and exit, so `Start()`, `Update()` and `Stop()` walk a list that changes.
`pc`, `cur` and `it` are the walk that is under way, its current handler and its
iterator; a callback is entered in one action and left in another, and `Add`,
`Remove` and `Complete` happen between them. A handler does not remove itself nor
the handler at the iterator, and the callbacks that `Add()` and `Remove()` make are
single steps. `TightExit` and `WasmExit` are the two ways to take a code. `first` and `last` are
history, taken from what happened and not from what `Exit()` was given: the first outcome of
a domain or the application, dropped or not, and the last code of a sender or the application.
`MCRunLoop` gives each handler its kind.

`SigHub` is the in-process signaling hub with its `HubUser` and `LocalSigClient`.
Each call into the hub is a process: a thread's own, or one made by a handler or
factory that another call runs, which waits for it (`parent`). The hub's `_mutex`
guards single actions; `_handlerMutex` of a user is `mutex` and is held while the
user's `OnMessage()` runs. `SetHandler()` moves `_pending` to `replay` and replays it
one message at a time. Users, handlers and the hub expire as their owners drop them.
`target`, `prior`, `got` and `onLeft` are history: whom a message was accepted for,
which `Send()` calls had returned before its own, what a handler was given.
`MCSigHub` gives the ids: `u1` and `u2` register under one id; nobody registers under the other,
to which messages may be sent all the same.

`WsSig` is signaling over WebSockets: two clients (`DcWsSigClient`, `JsWsSigClient`) and
two servers (`DcWsSigServer` over a hub, and the relay `signaling-server.js`), one of
each chosen initially. `conn` holds both ends of every connection. Where the code
differs by platform there is one operator each (`DcLeave` and `JsLeave`, `DcDrop` and `JsDrop`,
`DcConnect` and `NodeConnect`, `DcClosed` and `NodeClosed`). A peer may join
again while its old connection is still open at the server. `SetHandler()` of the
native client moves its backlog under the lock and replays it outside, so `Replay` and
`OnMessage` interleave. The hub behind the server is its map only; its own concurrency
is in `SigHub`. Not modelled: an `ISigHandler` that expires.

`DcRtc` is `DcRtcTransport` and `DcRtcLink`. A signaling thread in `OnMessage()` takes one
step per critical section: the limit is tested in `OnOffer`, counted in the entry that
`HandleOffer` makes, descriptions are set and candidates taken from the buffer in one
step and applied in the next. The threads of libdatachannel open the channel
(`Attach` and the acceptor's `OnLink`) and report states; a connection goes through
`Disconnected`, `Failed` and `Closed` in the orders the library allows. `held` says whether
the application still has the link. `accepted` and `told` are history, and so are `counted` (the
inbound links in the count), `again` (`onGone` ran a second time for a link) and `overlapped` (an
offer was tested against the limit while another had passed the test and was not counted).

`JsRtc` is the same protocol in `JsRtcTransport`, on the browser's one thread: an event, a
resolved promise or a call is one action. Contexts are raw pointers, so `mem` says
whether a context is linked or deleted and `entry` whether the script's map has it. The
browser queues `dc.onclose` after `pc.close()`, as the comment in `Disconnect()` says it does.
The closures do not look their context up, so a close event of a deleted context
reads freed memory and has either outcome. `SetupOfferer` and `SetupAnswerer` are the scripts
that make a connection. `maxInbound` is any limit from 0 to `MaxInbound`; after `OnLeft` the user
is `"lost"` and no description is sent any more.

`Udp` is `UdpServer`, `UdpClient` and `UdpLink` with the demo that drives them: `RttBridge`,
the server task and the client task. A datagram is a count per receiver, which a lossy
network changes at will up to `MaxCopies`. `Send()` only begins a send (`upOut`, `downOut`): `ServerSent`
and `ClientSent` put it on the network later, and a socket that closes before drops it (`cut`
remembers for whom). `ServerMain` and `ClientMain` are what the two programs start with. A completed await only schedules its
coroutine: the task's next step is a later action, and messages arrive in between.

`HttpGet` is `ILiteClient::Get` in its three implementations and the demo's `CoroMain`. A request
of the Beast client is the operation it is suspended in (`at`), what it still has to try
(`left`) and what each object that a socket moves through holds (`holds`): a move empties the
object moved from, and at the end every destructor looks at its own object only. The TLS
shutdown is a detached coroutine (`finisher`). A stop emits a cancellation; a cancelled coroutine
throws at its next `co_await`, which ends a build without exceptions. The build has TLS or
not (`withSsl`), the command line may select no URL, and setting the server name may fail, as may
a handshake that OpenSSL then calls finished. Name resolution that succeeds returns at least
one endpoint. Its specification
is `HttpSpec`, so that `HttpGet` can be extended together with `Udp`.

The proofs about a module `M` are in `MProofs`, those about the two timer backends in
`TimerBackendProofs` and those about `Udp` and `HttpGet` in `NetProofs`. Operators named `...Mutant`, and the few other
alternatives that stand before the definition they resemble, are mistakes the
properties were tried against; no specification uses them.

## 3. The runs

| run | instance | shows |
|---|---|---|
| `thread_timer_backend` | 2 client threads, 2 timers, clock 0..1 | `ActiveQueued`, `NoLostWakeup`, `BlockedOnInflight`, the contract (`ImplementsTimerBackend`), due timers fire (`DueTimersFire`) and `Cancel()` returns (`CancelTerminates`) |
| `thread_timer_dtor` | 1 client, 1 timer | violates `DestructorJoins` |
| `loop_timer_backend` | 4 timers, clock 0..2 | the contract; callbacks run in deadline order, and a `Tick()` that returns leaves nothing due (`FiresInOrder`) |
| `exec_domain` | 1 loop and 2 timed operations | `CompletesOnce`, `ValueMeansFired`, `CancelProtects`, `NeverStranded`, `NoDanglingLoopOps`, `EventuallyCompletes` |
| `exec_domain_lifetime` | 1 loop and 1 timed operation | violates `CallbackOpAlive` |
| `run_loop` | a domain, an Asio domain, 2 plain handlers, 2 exit codes, both runners | `EverybodyStopped`, `StoppedInReverse`, `CompletionHasRunner`, `Run()` returns what the outcomes call for (`CodeReported`), `LoopEnds` |
| `sig_hub` | 2 users of one id, 2 ids, 2 calls, 2 messages | `InOrder`, `ExactlyOnce`, `LeftOnce`, and what was accepted for a user that does not leave is `Delivered` unless handlers wait for each other |
| `ws_sig` | 2 peers, 2 connections, 1 message, each client with each server | a message is in one place at most and none is lost in the backlog (`DeliveredOnce`), a connection that overlapped no other of its peer is `Reachable`, `LeaveAnswered` |
| `dc_rtc` | 1 peer as offerer or answerer, 1 candidate, 2 links, 2 signaling threads, limit 0..1, 4 events | the connected inbound links are counted and `WithinLimit`, short of the two cases of section 4; `CandidatesKept`, `ToldOnce`, `DisconnectCompletes` |
| `js_rtc` | 2 peers, 1 candidate of each, 2 contexts, limit 0..2 | no dangling pointer (`PeersLive`), the count is that of the contexts not deleted and within the limit (`InboundExact`), `CandidatesKept`, `DisconnectCompletes` |
| `udp` | 2 clients, 3 links, 2 copies, lossy or not, with and without `-k` | `MapIsOpenLinks`, `NoMissedMessage`, and without loss the served client is `Answered`, unless the server closed with the reply unsent |
| `http_get` | 2 requests, up to 2 endpoints each, 3 clients, with and without exceptions and TLS | `EachHandledOnce`, `SocketsReleased`, `StopEnds` |

Bounds. Two timers are enough for an earlier timer to be inserted while the
thread sleeps for a later one, and for one to be cancelled while the other is in
flight; two clients and the callback give three callers, so that two may block on
one callback. A deadline may also be one that never comes (`MaxTime + 1`), which
separates what a wakeup achieves from what a timeout achieves. In `ExecDomain` two
timed operations let one be stopped or destroyed while the other's callback runs. In
`RunLoop` four handlers give a walk a handler before, at and after the iterator and
one to add; each is added once. In `SigHub` two calls and two messages are enough for
a live message to meet a replay, and for a user to be replaced while it leaves; two
users of one id exercise replacement, and handlers may call back into the hub. Two
connections let a peer reconnect beside its old connection; one message is enough,
since `DeliveredOnce` follows one message at a time; the least unused connection is taken,
which only names them. Two links let an offer replace the
entry of a live link, two threads let offers pass the limit together and a candidate
meet the description; `MaxEvents` bounds the offers, answers and calls of the
application, not the steps they lead to. Three links of the UDP server let a peer come
back after its link was closed. Two endpoints make a request go on after a failed
connect, and two requests let one end while the other is suspended.

Deadlock is not checked where the system may stop, which is everywhere but in the loop
backend: a destroyed backend, a stopped domain, a loop that has returned, a hub nobody
calls, links that are closed and requests that are over have nothing left to do. Calls
of the hub that wait for each other are `Deadlocked`, which `Delivered` allows for.

Fairness. `LoopTimerBackend` has none. The timer thread and a caller inside a call keep running, the mutex is
eventually granted, callbacks return, and the clock advances; in `ExecDomain` the
runner keeps calling `Update()`. `CallbackReturns` is strongly fair: a callback
that schedules and cancels is between two calls over and over, and returns all
the same. In `RunLoop` callbacks return and frames follow each other (weak fairness of
`RunStep`); in `SigHub` every call in progress is strongly fair, as a mutex that is
free over and over is granted and the application's code returns. In `WsSig` a close
callback that is due runs and `SetHandler()` ends; in `DcRtc` a signaling thread inside
`OnMessage()` goes on and the library reports the close it was asked for; in `JsRtc` queued
close events and promises are run; in `Udp` each program goes on, a send that was
begun on a socket that stays open is done, and the network delivers what it does not lose; in `HttpGet` the executor resumes what can be resumed, but no
server has to answer. No client has to call anything, and no timer of `ExecDomain` has
to come due.

## 4. What disagrees with the code's own words

* `thread_timer_dtor`. `~ThreadTimerBackend()` stores `_stopping` and notifies
  without `_mutex`. Between the thread's test and its sleep both are lost, and
  the join waits for the next deadline, or for ever.
* `exec_domain_lifetime`. The timer callback resets `timerId` first and touches
  the operation afterwards. A stop request that sees the reset id does not call
  `Cancel()`; it may win the exchange, and the operation completes and is
  destroyed while the callback has still to do its exchange.

The models also do the following, as the code does, where a comment says otherwise or
a reader may not expect it. No run is about these: the properties exclude them in their
formulas, where they would be concerned, and claim nothing about them.

Timers and the loop:

* `LoopTimerBackend::Tick()` looks at `front()` afresh after each callback, so an entry
  that a callback adds with a deadline already past fires in the same call
  (`LoopTimerBackend.h:46` says that it does not), and a callback that always adds one keeps
  `Tick()` from returning.
* A sender that completes inside `Start()` exits before the loop of `TightRunner` begins;
  `Run()` then sets `_running` and the request is forgotten.
* The code of an `AsioDomain`'s coroutine is dropped when it completes after `Stop()`, which has
  set `_cancelled`, or while `Cancelled` or another code is pending (`AsioDomain.cpp:54`). A sender's code
  replaces any other, also in the drain of `Stop()` (`Domain.cpp:49`).

Signaling:

* A message that `SigHub::Dispatch()` looked up before `Leave()` reaches the handler after `Leave()`
  has returned and `OnLeft()` has run (`ISigUser.h:38`, `ISigClient.h:78`).
* `HubUser::Deliver()` holds `_handlerMutex` during `OnMessage()`: handlers that answer each
  other through `Send()` wait for a mutex of their own call chain (`SigHub.h:25`).
* `Leave()` before `SetHandler()` finds no handler, and `OnLeft()` is never called.
* `SigHub::Unregister()` and the `onClosed` of both WebSocket servers erase by id: a
  replaced user or connection that ends late removes the one that replaced it
  (`SigHub.h:38`).
* `OnLeft()` of the native WebSocket user may run twice, from `Leave()` on a closed socket
  and from its close callback (`ISigUser.h:35`), and a live message may overtake the
  backlog that `SetHandler()` replays.
* An error on an open browser socket hides the close that follows it.
* The relay's TTL timer is not cleared by a flush and may drop a newer queue.

WebRTC:

* `DcRtcTransport` tests its limit and counts in two critical sections, so that offers on
  several threads pass together; and its `onGone` runs for `Disconnected` and again for
  `Closed`, which counts one link out twice. Either lets more inbound links be connected than
  `maxInboundConnections` (`RtcOptions.h:30`).
* A connection that fails before its channel opens is only logged (`Acceptor.h:33`), and its
  slot is never given back. The same holds in the browser, where no error path deletes the
  context (`JsRtcTransport.cpp:287` and `442` speak of one), and `inboundCount` counts the contexts that
  exist and not the "active" ones of line 445.
* A close event that `JsRtcPc_Close` queues reaches a context that the link's destructor
  has deleted by then (`JsRtcTransport.cpp:195` says that no callback follows).

UDP and HTTP:

* One `RttBridge` serves all links, so the end of an earlier link may be read as the
  first message of the next.
* Nobody awaits a send. Without `-k` the server returns and closes its socket after the
  client's message, and a reply not yet sent is lost (the TODO at `Server.cpp:65`).
* The `catch` in the script of `JsFetchLiteClient` (lines 26-33) also covers the call of
  `OnFetchResult`: a handler that throws is called a second time. The handlers of the
  model do not throw.

## 5. The proofs

All are for every value of the constants: any sets of threads, timers, operations, users,
calls, messages, handlers, links, contexts, clients and requests, finite only where
something counts them. Each module proves `Init => IInv`, `IInv /\ [Next]_vars => IInv'`
with one lemma per action or kind of step, and `IInv => P` for each property `P` of its
run; TLC checked each `IInv` first. The types of the variables (`TypeOK`) are the first
conjunct of `IInv`, and proved as `Typing` (`WsTyping`, `HttpTyping`). What the rest of `IInv` adds, and why, follows.

`TimerBackendProofs`: the invariants of `ThreadTimerBackend` and the refinement of
`TimerBackend` by both backends. `NoLostWakeup` and `BlockedOnInflight` are not inductive: the
strengthening adds that an id being inserted is fresh and held by one
caller (`InsertInv`), that an id some call works on was handed out (`CallInv`),
that heap entries and the active and in-flight ids agree (`HeapInv`), and that a
sleeping thread sleeps for at most the top of the heap unless a notification is
owed (`SleepInv`). Here and in `ExecDomainProofs` the types are proved first, then the
rest (`SafeInv`) for each kind of step. The refinement has one lemma per kind of step: it
takes an id, inserts, cancels, pops, clears, lets time pass, or stutters. With it,
`CancelQuiesces` carries what the contract promises over to the thread: a timer whose
`Cancel()` has returned is neither pending nor in flight (`ContractStep` is the step of the
contract itself). `LoopTimerBackend` is an instance in this module (`Loop`). Its refinement
(`LoopRefinement`) rests on `LoopInv`: an id is in the vector once, was handed out, has not
fired and is not the one that runs, and the snapshot of `Tick()` is not ahead of the clock.
The contract does not depend on where an entry is in the vector, so `InsertHeld`,
`RemoveHeld` and `FrontHeld` turn `insert()`, `erase()` and the removal of the front into
changes of the set of entries (`Held`), and `StatusSeen` reads a timer's status off that set.
`LoopCancelQuiesces` carries the promise of `Cancel()` over to the loop as well. `Tick()` does
depend on the order: it looks at the front and stops there when that is not due. `VectorSorted`
shows that the vector is sorted through any insertions and removals (`LowerBoundSplits` finds the
position of `lower_bound()`, where all before are not later and all behind are later), and
`TickInOrder` the property `FiresInOrder` from it.

`ExecDomainProofs`: the safety properties of the run. `IInv` adds where the loop
thread may be in each phase (`ThreadInv`, `LoopInv`), that an operation is in at
most one place, queue or callback (`PlaceInv`), who will complete a pending one
(`PendingInv`), and when a set `timerId` may be read as unset (`TimerIdInv`,
`TimedInv`).

`RunLoopProofs`: the safety properties of `run_loop`. `EverybodyStopped` speaks of the end
only, so `WalkInv` says where each walk is: the walk of `Start()` has started nothing at its
iterator or behind it, the reverse walks have left nothing started behind theirs
(`QuietFrom`), the current handler is in the list, and the iterator of `Stop()` is behind
it. `ListInv` adds that no handler is twice in the list. The work is in `Add` and `Remove`, which shift the list
under a walk: `Unlinked` says what the list is after an erasure, and `RemoveStep` maps each
index to the one it came from. `ExitInv` says which code the runner has
after each outcome, in terms of `first` and `last`, and `ResultInv` follows it to the result of `Run()`;
`Exits` is the lemma for all ways to exit.

`SigHubProofs`: the safety properties of `sig_hub`. The common invariant `IInv` says who
holds a user's mutex and that only a held mutex has
messages to replay (`MutexInv`), that a user's handler is made once and nothing is
pending after it is set (`JoinInv`), and that a message is looked up before it is
anywhere and is carried to the user it was accepted for (`SentInv`). `InOrder` rests
on two more: a message nobody carries has arrived or waits in a queue (`PlaceInv`),
and each queue holds a message after those it must follow (`OrderInv`); so when
`Deliver()` has the mutex, whatever was sent before is in `got` or pending.
`ExactlyOnce` adds that the places are disjoint and no queue holds a message twice
(`UniqueInv`). `LeftOnce` rests on `LeaveInv`: one call of `Leave()` gets past the
exchange of `_left`, and the user is not registered when its handler is read. The
invariants are stated for one user, call and message at a time; `StepFrame` and
`BeginStep` say how each step changes the calls, and `MessageCases` sets the steps
that leave messages alone apart.

`DcRtcProofs`: the safety properties of `dc_rtc`. `WithinLimit` needs that the
threads that passed the test and have not counted yet are counted with the links: the sum
stays below limit and threads (`LimitInv`), and within the limit until offers overlap (`CountInv`);
`Sizes` says what a thread's step does to it. `CountInv` adds that every inbound link not ended is
in `counted` and, while no link was counted out twice, that the count is its size.
`CandidatesKept` is split into facts about one candidate, one link and two threads
(`CandInv`): a candidate that is on its way has not been accepted, and no two threads carry
the same one; `CallInv` adds that the description is set before the buffer is taken.
`ToldOnce` needs that the handler is told only with `_closedFired` set (`SoundInv`).
Two more theorems are what `DisconnectCompletes` rests on, apart from fairness:
`DisconnectIsAnswerable` (a disconnected link whose connection has not ended is being closed
and its handler was not told) and the action property `EndIsTold` (the step that ends the
connection of a held link with a handler tells the handler and erases the entry, whichever
final state it is). They follow from `OpenInv`: only an ended connection has used up
`_closedFired`, and `Disconnect()` closes the connection.

`JsRtcProofs`: the safety properties of `js_rtc`, which are inductive together once it is known
that an unused context is blank and that the map goes with the transport (`LifeInv`).
`ConnectionFrame` and `SignalingFrame` say which events leave a context's memory, role and
peer alone; `MakesStep` and `FreeStep` are the two that change the count. Here
`DisconnectIsAnswerable` says that a link whose `Disconnect()` was called and that was not told
has its close event queued; `ClosingInv` is its inductive form: the channel is open with its
connection in the script's map, or the event is queued, or the link was told.

`WsSigProofs`: the safety properties of `ws_sig`. `DeliveredOnce` compares all queues of all
connections and of the relay with each other, so the queues are first collected in one
function (`QueuesOf`), and four lemmas say what a step may do to it: drop messages
(`Dropped`), move the head of one queue to the end of another (`Passed`), take over a whole
queue (`Taken`, for `SetHandler()` and the flush) or enter a message that was never sent
(`Entered`). Each keeps `Once`; one lemma per action shows which of them it is. `Kept` adds
that nothing is replayed before `SetHandler()`. `Reachable` is inductive with the fact that two
open connections of a peer are both marked as overlapped (`Registered`). `LeaveIsAnswerable`
is what `LeaveAnswered` rests on: a `Leave()` that found the handler bound and is not answered
has the close callback due, with the handler bound, for both clients (`LeaveInv`).

`NetProofs`: the safety properties of `udp` and of `http_get`. For `udp`, `MapInv` relates the map and the links in both
directions, since a link is found by its endpoint when it closes; `TaskInv` adds that the
task's link is in use and that the slot of `AwaitLink` is filled only while the task waits
there. `DeliverTask`, `AwaitMessageTask` and their twins for the clients say what the
operations of `RttBridge` do to a coroutine.
For `http_get`, `Sound` relates where a request is to the one
object that holds its socket, to its TLS session and to its handler; `ResumedValid` shows it for every outcome of every
suspension. `MainInv` counts: what is in the channel and what was received are the requests
that are over, the error count those that failed. `StopReaches` (a stopped request that was
started is cancelled or over, whichever of stop and start came first) and the action
property `StopIsLast` (the next resumption of a cancelled request ends it, so no further
endpoint is tried) are what `StopEnds` rests on, by way of `EmitInv`.

Assumptions on the constants, each evaluated by TLC in a run: `ThreadTimerAssumption` (the
timer thread is not a client, bounds are natural numbers; the latter is
`LoopTimerAssumption`), `OpsDisjoint`, `SigHubAssumption`
(every user has an id, the sets are not empty, `None` is no user and no call),
`RunLoopAssumption` (handlers have a kind; the special codes are no codes of a handler),
`DcRtcAssumption` and `JsRtcAssumption` (there are links and contexts, threads or contexts
are finitely many, `None` is none of them), `WsSigAssumption` (connections are numbers,
`None` is no peer and no connection), `UdpAssumption` and `HttpAssumption`.

Only model-checked:

* The liveness properties (`DueTimersFire`, `CancelTerminates`, `EventuallyCompletes`, `LoopEnds`,
  `Delivered`, `DisconnectCompletes`, `LeaveAnswered`, `Answered`, `StopEnds`): liveness under
  fairness is beyond the prover used. What they need of the state is proved where it could
  be said without fairness: `WakeupsArrive` and `BlockedWithReason` (thread backend),
  `NobodyStranded` (domain), `MessagesExactlyOnce` (hub),
  `LeaveIsAnswerable`, `DisconnectIsAnswerable` and `EndIsTold`, `NoLostWakeup` (UDP),
  `StopReaches` and `StopIsLast`. `LoopEnds` has no such theorem.
* The violations.

## 6. Not modelled

* The data that links, datagrams and requests carry, the JSON of signaling messages,
  URLs and headers: encodings with no control of their own.
* `log`: sinks are added by one thread at start-up; what follows is formatting and I/O. A
  record logged by another thread while a sink is added may reach no sink.
* `fs`, `boot`, `async`: lookups over the file system, platform calls in a fixed order, and
  annotated wrappers of `std::mutex`, whose locks are part of the actions that take them.
* `RunTask`, but for the stop token it passes on, and the demos other than UDP and HTTP:
  they connect the parts above in a fixed order and add no state.
* Stop requests of an `Exec` operation made by other threads than the loop's; a UDP
  client that lives on after its `Disconnect()`; a handler of the JavaScript client that throws.
