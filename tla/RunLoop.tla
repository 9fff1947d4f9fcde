------------------------------ MODULE RunLoop -------------------------------
(***************************************************************************)
(* The run loop: a Runner (TightRunner or WasmRunner) that drives a        *)
(* CompositeHandler, whose handlers are Exec::Domain, Asio::AsioDomain or  *)
(* handlers of the application.  All of it is one thread.  While a         *)
(* callback of a handler runs, the application's code in it may add and    *)
(* remove other handlers and exit, so the lists that Start(), Update() and *)
(* Stop() walk change under them.                                          *)
(*                                                                         *)
(* A handler does not remove itself, nor the handler the walk's iterator   *)
(* points at, from within a walk: the iterator would be left unlinked.     *)
(* The callbacks that Add() and Remove() make are single steps.            *)
(***************************************************************************)
EXTENDS Naturals, Sequences

CONSTANTS
    Handlers,
    Kind,            \* Handlers -> {"domain", "asio", "plain"}
    Codes            \* exit codes the application gives

VARIABLES
    runner,          \* which runner: "tight" or "wasm"
    list,            \* CompositeHandler::_handlers
    fresh,           \* handlers not yet added
    running,         \* CompositeHandler::_running
    bound,           \* handlers whose _runner is set
    job,             \* how far Start() and Stop() of each handler have got
    work,            \* the sender or coroutine of each handler
    pc, cur,         \* where Run() is, and the handler whose callback runs
    it,              \* the iterator of the walk
    loop,            \* TightRunner::_running
    exitCode,        \* Runner::_exitCode
    first, last,     \* history: the first outcome of any work or application code,
                     \* the last code of a sender or of the application
    result           \* what Run() returned

lists == <<list, fresh, running, bound>>
walk  == <<pc, cur, it, result>>
exit  == <<loop, exitCode, first, last>>
vars  == <<runner, lists, job, work, walk, exit>>

None       == "none"
End        == "end"
Success    == "Success"
NotStarted == "NotStarted"
Cancelled  == "Cancelled"
Callback   == {"starting", "unwinding", "updating", "stopping"}

ASSUME RunLoopAssumption ==
    /\ Kind \in [Handlers -> {"domain", "asio", "plain"}]
    /\ {None, End} \cap Handlers = {}
    /\ {None, Success, NotStarted, Cancelled} \cap Codes = {}

\* CreateDefaultRunner() makes the platform's runner, CreateTestRunner() a tight one.
Runners == {"tight", "wasm"}

Init ==
    /\ runner \in Runners
    /\ list = <<>> /\ fresh = Handlers /\ running = FALSE /\ bound = {}
    /\ job = [h \in Handlers |-> None]
    /\ work = [h \in Handlers |-> None]
    /\ pc = "init" /\ cur = None /\ it = End
    /\ loop = FALSE /\ exitCode = None /\ first = None /\ last = None /\ result = None

-----------------------------------------------------------------------------
(* The list and its iterators.                                             *)

Listed == {list[i] : i \in DOMAIN list}
Position(h) == IF h = End THEN Len(list) + 1 ELSE CHOOSE i \in DOMAIN list : list[i] = h
At(i) == IF i > Len(list) THEN End ELSE list[i]
Succ(h) == At(Position(h) + 1)
Prev(h) == At(Position(h) - 1)
Front == At(1)

\* Run() is in callback c of handler h, with the iterator at i.
Enter(c, h, i) == pc' = c /\ cur' = h /\ it' = i /\ UNCHANGED result
Leave(p, r) == pc' = p /\ cur' = None /\ it' = End /\ result' = r

-----------------------------------------------------------------------------
(* Exit codes.                                                             *)

Exiting == exitCode # None

\* TightRunner::Exit() ends its loop; that of WasmRunner has only the code to test.
TightExit(c) == exitCode' = c /\ loop' = FALSE
WasmExit(c) == exitCode' = c /\ UNCHANGED loop
Exit(c) == IF runner = "tight" THEN TightExit(c) ELSE WasmExit(c)

\* The runner's test at the top of a frame.  The mutant of WasmRunner waits for
\* the flag that only TightRunner has.
FlagCleared == ~loop
ExitRequested == IF runner = "tight" THEN ~loop ELSE Exiting

\* Domain::Stopped() and AsioDomain::Completed(): a code that is there stays.  The
\* mutant overwrites it.
ExitAlways(c) == Exit(c)
ExitIfNone(c) == IF Exiting THEN UNCHANGED <<exitCode, loop>> ELSE Exit(c)

\* A code comes from a sender or the application, which exit at once, or the outcome
\* c of something that exits only if nobody has.
First(c) == first' = IF first = None THEN c ELSE first
Gives(c) == Exit(c) /\ First(c) /\ last' = c
Ends(c)  == ExitIfNone(c) /\ First(c) /\ UNCHANGED last

-----------------------------------------------------------------------------
(* Senders and coroutines: what completes inside a callback.               *)

Works(h, k) == Kind[h] = k /\ work[h] = "running"
Done(h) == work' = [work EXCEPT ![h] = "done"]

\* DomainReceiver: set_value() calls Domain::Completed(), set_stopped() Stopped().
Signalled == (\E c \in Codes : Gives(c)) \/ Ends(Cancelled)

\* Domain::Completed() and Domain::Stopped().
DomainEnds(h) == Works(h, "domain") /\ Done(h) /\ Signalled

\* Only AsioPoller::Update() and the Stop() of an AsioDomain poll the io_context:
\* what Start() spawned does not run before one of them does.
Polled == pc # "starting"

\* AsioDomain::Completed(): polled by Update(), or by Stop() once cancelled.
AsioEnds(h, stopping) ==
    /\ Works(h, "asio")
    /\ Done(h)
    /\ IF stopping THEN Ends(Cancelled) ELSE \E c \in Codes : Ends(c)

\* Start(): Domain::Start() starts the sender, AsioDomain::Start() spawns.
WorkStarts(h) == work' = [work EXCEPT ![h] = IF Kind[h] = "plain" THEN None ELSE "running"]

\* Stop() returns: Domain::Stop() has destroyed its sender.
WorkStops(h) == work' = [work EXCEPT ![h] = IF Kind[h] = "domain" THEN "done" ELSE @]

\* Something completes in the callback that runs, or the application exits.
Complete ==
    /\ pc \in Callback
    /\ \/ DomainEnds(cur)
       \/ Polled /\ AsioEnds(cur, pc # "updating")
       \/ /\ Kind[cur] = "plain" /\ cur \in bound
          /\ \E c \in Codes : Gives(c)
          /\ UNCHANGED work
    /\ UNCHANGED <<runner, lists, job, walk>>

-----------------------------------------------------------------------------
(* CompositeHandler::Add() and Remove()                                    *)

\* SetRunner().  The mutant forgets it.
BindNone(h) == bound
Bind(h) == bound \cup {h}

InUserCode == pc \in Callback \cup {"init"}

\* Add(): while running the handler is started, whatever Start() returns.
Add(h) ==
    /\ InUserCode /\ h \in fresh
    /\ fresh' = fresh \ {h}
    /\ list' = Append(list, h)
    /\ \/ /\ ~running
          /\ UNCHANGED <<bound, job, work, exit>>
       \/ /\ running
          /\ bound' = Bind(h)
          /\ \/ /\ job' = [job EXCEPT ![h] = "started"]
                /\ WorkStarts(h) /\ UNCHANGED exit
             \/ /\ job' = [job EXCEPT ![h] = "started"]
                /\ Kind[h] = "domain" /\ Done(h) /\ Signalled
             \/ /\ job' = [job EXCEPT ![h] = "failed"]
                /\ Kind[h] = "plain" /\ UNCHANGED <<work, exit>>
    /\ UNCHANGED <<runner, running, walk>>

\* Remove(): while running the handler is stopped before it is unlinked.
Remove(h) ==
    /\ InUserCode /\ h \in Listed \ {cur, it}
    /\ \/ /\ ~running
          /\ UNCHANGED <<job, work, exit>>
       \/ /\ running
          /\ job' = [job EXCEPT ![h] = "stopped"]
          /\ DomainEnds(h) \/ AsioEnds(h, TRUE) \/ (WorkStops(h) /\ UNCHANGED exit)
    /\ list' = SubSeq(list, 1, Position(h) - 1) \o SubSeq(list, Position(h) + 1, Len(list))
    /\ bound' = bound \ {h}
    /\ UNCHANGED <<runner, fresh, running, walk>>

-----------------------------------------------------------------------------
(* Runner::Run() and CompositeHandler::Start()                             *)

\* SetRunner() and Start() of the handler the iterator is at.
EnterStart(h) ==
    /\ Enter("starting", h, h)
    /\ bound' = Bind(h)
    /\ WorkStarts(h)
    /\ UNCHANGED <<list, fresh, running, loop>>

\* CompositeHandler::Start() returns true; TightRunner sets _running.
Started ==
    /\ running' = TRUE
    /\ loop' = TRUE
    /\ Leave("frame", None)
    /\ UNCHANGED <<list, fresh, bound, work>>

Run ==
    /\ pc = "init"
    /\ IF Front = End THEN Started ELSE EnterStart(Front)
    /\ UNCHANGED <<runner, job, exitCode, first, last>>

StartReturns ==
    /\ pc = "starting"
    /\ job' = [job EXCEPT ![cur] = "started"]
    /\ IF Succ(it) = End THEN Started ELSE EnterStart(Succ(it))
    /\ UNCHANGED <<runner, exitCode, first, last>>

\* --it and Stop(), in CompositeHandler::Start(), as long as it # begin().  The
\* mutant forgets the handlers started before the one that fails.
UnwindNone == Leave("done", NotStarted)
Unwind == IF it = Front THEN Leave("done", NotStarted) ELSE Enter("unwinding", Prev(it), Prev(it))

\* Start() of a handler returns false.
StartFails ==
    /\ pc = "starting" /\ Kind[cur] = "plain"
    /\ job' = [job EXCEPT ![cur] = "failed"]
    /\ Unwind
    /\ UNCHANGED <<runner, lists, work, exit>>

UnwindReturns ==
    /\ pc = "unwinding"
    /\ job' = [job EXCEPT ![cur] = "stopped"]
    /\ WorkStops(cur)
    /\ Unwind
    /\ UNCHANGED <<runner, lists, exit>>

-----------------------------------------------------------------------------
(* The loop, CompositeHandler::Update() and CompositeHandler::Stop()       *)

\* TightRunner's loop, WasmRunner::Update().
Frame ==
    /\ pc = "frame" /\ ~ExitRequested
    /\ Front # End
    /\ Enter("updating", Front, Front)
    /\ UNCHANGED <<runner, lists, job, work, exit>>

UpdateReturns ==
    /\ pc = "updating"
    /\ IF Succ(it) = End THEN Leave("frame", None) ELSE Enter("updating", Succ(it), Succ(it))
    /\ UNCHANGED <<runner, lists, job, work, exit>>

\* Run() returns the code once the handler has stopped.
ExitWith == Leave("done", IF Exiting THEN exitCode ELSE Success)

\* The reverse walk of CompositeHandler::Stop(): the handler before iterator i.
\* The mutant walks forward from the front.
FirstOf(i) == Front
BeforeOf(i) == Prev(i)
StopBefore(i) == IF i = Front THEN ExitWith ELSE Enter("stopping", BeforeOf(i), i)

InvokeStop ==
    /\ pc = "frame" /\ ExitRequested
    /\ running' = FALSE
    /\ StopBefore(End)
    /\ UNCHANGED <<runner, list, fresh, bound, job, work, exit>>

StopReturns ==
    /\ pc = "stopping"
    /\ job' = [job EXCEPT ![cur] = "stopped"]
    /\ WorkStops(cur)
    /\ StopBefore(Prev(it))
    /\ UNCHANGED <<runner, lists, exit>>

-----------------------------------------------------------------------------
RunStep ==
    \/ Run \/ StartReturns \/ UnwindReturns
    \/ Frame \/ UpdateReturns \/ InvokeStop \/ StopReturns

Next == RunStep \/ StartFails \/ Complete \/ \E h \in Handlers : Add(h) \/ Remove(h)

\* Run() goes on: callbacks return and frames follow each other.
Fairness == WF_vars(RunStep)

Spec     == Init /\ [][Next]_vars
FairSpec == Spec /\ Fairness

-----------------------------------------------------------------------------
(* Properties.                                                             *)

\* Run() returns, also when a Start() failed half-way, with no handler of the list
\* left started, whatever was added and removed during the walks.
EverybodyStopped == pc = "done" => \A h \in Listed : job[h] # "started"

\* "on failure stop in reverse order" (CompositeHandler::Start), as Stop() does: a
\* handler is stopped when the ones after it are not running any more.
StoppedInReverse ==
    pc \in {"unwinding", "stopping"} =>
        \A h \in Listed : Position(h) > Position(cur) => job[h] # "started"

\* GetRunner() is not null in a handler that may complete: Domain::Completed() and
\* AsioDomain::Completed() call through it without a test.
CompletionHasRunner == \A h \in Listed : work[h] = "running" => h \in bound

\* What Run() should return, from what happened and not from what Exit() was
\* called with: a sender's or the application's code replaces what came before it;
\* without one the first outcome stays, a coroutine's code or Cancelled.
Outcome == IF last # None THEN last ELSE first

\* "Cancelled exit code is set if no exit code has been established yet"
\* (AsioDomain::Stop), "distinguish between cooperative stop and forced
\* cancellation" (Domain::Stopped): a code of a sender or of the application is
\* never reported as Cancelled, nor a coroutine's that came first.  The code of a
\* coroutine that finishes after its Stop(), or when Cancelled or another code
\* is pending, is dropped: the formula says so as the code does.
CodeReported ==
    /\ exitCode = Outcome
    /\ result \notin {None, NotStarted} => result = IF Outcome = None THEN Success ELSE Outcome

\* An exit requested while the loop runs ends it, through Stop() of every handler.
\* WasmRunner honours one requested in Start() as well.
LoopEnds ==
    (pc \in {"frame", "updating"} /\ (~loop \/ (runner = "wasm" /\ exitCode # None)))
        ~> (pc = "done")
=============================================================================
