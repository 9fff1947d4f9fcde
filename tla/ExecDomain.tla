----------------------------- MODULE ExecDomain -----------------------------
(***************************************************************************)
(* Exec::Domain and the operations of its TimedLoopContext.  The loop      *)
(* thread starts operations, requests stops, drains the queue of           *)
(* PureLoopContext and destroys operations; the timer backend, known by    *)
(* its contract only, runs the callbacks of TimedOperation::start() beside *)
(* it.  The stop sources are the Domain's and those of the senders it      *)
(* runs, so every stop request is made by the loop thread.                 *)
(*                                                                         *)
(* timerId is a plain field that both threads write.  An operation that is *)
(* destroyed while its callback runs leaves the callback with freed memory *)
(* to compare, and perhaps with a dangling pointer to enqueue.             *)
(***************************************************************************)
EXTENDS Naturals

CONSTANTS
    LoopOps,         \* PureLoopContext::Operation, from schedule()
    TimedOps         \* TimedOperation, from schedule_at() and schedule_after()

ASSUME OpsDisjoint == LoopOps \cap TimedOps = {}

VARIABLES
    domain,          \* progress of Domain: running, in Stop(), stopped
    draining,        \* the loop thread is in DrainQueue()
    pc, cur,         \* where the loop thread is, and in which operation
    toStop,          \* stop callbacks that request_stop() has still to run
    life,            \* lifetime of each operation state
    stopReq,         \* stop_requested() of the operation's stop token
    state,           \* TimedOperation::state
    timerId,         \* TimedOperation::timerId # InvalidTimerId
    queue,           \* PureLoopContext::_queue: occurrences of each operation
    outcome,         \* history: the completion signal sent to the receiver
    cb,              \* progress of the timer callback of each operation
    status, released \* the timer backend, see TimerBackend

Backend == INSTANCE TimerBackend WITH Timers <- TimedOps

backend == <<status, released>>
loop    == <<domain, draining, pc, cur, toStop>>
ops     == <<life, stopReq, state, timerId, outcome>>
vars    == <<loop, ops, queue, cb, backend>>

Ops  == LoopOps \cup TimedOps
None == "none"

TypeOK ==
    /\ domain \in {"running", "stopping", "resetting", "stopped"}
    /\ draining \in BOOLEAN
    /\ pc \in {"run", "assign", "stopCancel", "stopCas", "dtorCancel", "crashed"}
    /\ cur \in Ops \cup {None}
    /\ toStop \in SUBSET TimedOps
    /\ life \in [Ops -> {"unborn", "live", "dead"}]
    /\ stopReq \in [Ops -> BOOLEAN]
    /\ state \in [TimedOps -> {"Pending", "TimerWon", "StopWon"}]
    /\ timerId \in [TimedOps -> BOOLEAN]
    /\ queue \in [Ops -> Nat]
    /\ outcome \in [Ops -> {None, "value", "stopped", "twice"}]
    /\ cb \in [TimedOps -> {"idle", "reset", "cas", "enqueue", "return"}]
    /\ Backend!TypeOK

Init ==
    /\ domain = "running" /\ draining = FALSE /\ pc = "run" /\ cur = None
    /\ toStop = {}
    /\ life = [o \in Ops |-> "unborn"]
    /\ stopReq = [o \in Ops |-> FALSE]
    /\ state = [o \in TimedOps |-> "Pending"]
    /\ timerId = [o \in TimedOps |-> FALSE]
    /\ queue = [o \in Ops |-> 0]
    /\ outcome = [o \in Ops |-> None]
    /\ cb = [o \in TimedOps |-> "idle"]
    /\ Backend!Init

\* PureLoopContext::Push() and Enqueue()
Enqueue(o) == queue' = [queue EXCEPT ![o] = @ + 1]

\* What the loop thread may read from timerId: until the callback has returned
\* nothing orders the callback's write before the read.  The mutant never
\* sees an id, so that nothing is ever cancelled.
TimerIdUnset(o) == {FALSE}
TimerIdReads(o) == {timerId[o]} \cup (IF cb[o] \in {"cas", "enqueue"} THEN {TRUE} ELSE {})

\* TryEnqueue(): the compare-and-exchange succeeds.  The mutants do not compare,
\* or compare with the wrong state.
AlwaysWins(o) == TRUE
WinsAfterTimer(o) == state[o] = "TimerWon"
Wins(o) == state[o] = "Pending"

-----------------------------------------------------------------------------
(* The loop thread, between two calls: the code of senders may run.        *)

Free == pc = "run" /\ toStop = {}
InUserCode == Free /\ domain \in {"running", "stopping"}
Goto(p, o) == pc' = p /\ cur' = o /\ UNCHANGED <<domain, draining>>

\* A sender of schedule(), schedule_at() or schedule_after() is connected: the
\* operation state comes to life.
Connect(o) == life[o] = "unborn" /\ life' = [life EXCEPT ![o] = "live"]

\* A sender of PureLoopContext's scheduler is connected to an operation whose
\* start() enqueues it.
StartLoop(o) ==
    /\ InUserCode /\ Connect(o)
    /\ Enqueue(o)
    /\ UNCHANGED <<loop, stopReq, state, timerId, outcome, cb, backend>>

\* TimedOperation::start(): with the stop already requested the stop callback
\* runs inside the registration, otherwise the timer is scheduled.
StartTimed(o) ==
    /\ InUserCode /\ Connect(o)
    /\ \/ /\ stopReq[o]
          /\ state' = [state EXCEPT ![o] = "StopWon"]
          /\ Enqueue(o)
          /\ UNCHANGED <<loop, backend>>
       \/ /\ ~stopReq[o]
          /\ Backend!ScheduleAt(o)
          /\ Goto("assign", o)
          /\ UNCHANGED <<state, queue, toStop>>
    /\ UNCHANGED <<stopReq, timerId, outcome, cb>>

\* timerId = the result of ScheduleAt().
AssignTimerId ==
    /\ pc = "assign"
    /\ timerId' = [timerId EXCEPT ![cur] = TRUE]
    /\ Goto("run", None)
    /\ UNCHANGED <<toStop, life, stopReq, state, outcome, queue, cb, backend>>

\* Stop callbacks registered by the operations in S that have not run yet.  The
\* mutant registers none.
RegisteredNone(S) == {}
Registered(S) == {o \in S \cap TimedOps : life[o] = "live" /\ ~stopReq[o]}

\* A sender such as when_all or stop_when stops one of its operations.
RequestStop(o) ==
    /\ InUserCode /\ ~stopReq[o]
    /\ stopReq' = [stopReq EXCEPT ![o] = TRUE]
    /\ toStop' = Registered({o})
    /\ UNCHANGED <<domain, draining, pc, cur, life, state, timerId, outcome, queue,
                   cb, backend>>

\* TryEnqueueStop(): a timerId that is set is exchanged with Invalid.
StopCallback(o) ==
    /\ pc = "run" /\ o \in toStop
    /\ toStop' = toStop \ {o}
    /\ \E set \in TimerIdReads(o) :
         IF set THEN /\ timerId' = [timerId EXCEPT ![o] = FALSE]
                     /\ Goto("stopCancel", o)
                ELSE /\ Goto("stopCas", o)
                     /\ UNCHANGED timerId
    /\ UNCHANGED <<life, stopReq, state, outcome, queue, cb, backend>>

\* TryEnqueueStop(): backend->Cancel() returns.
StopCancel ==
    /\ pc = "stopCancel"
    /\ Backend!Cancel(cur)
    /\ Goto("stopCas", cur)
    /\ UNCHANGED <<toStop, ops, queue, cb>>

\* TryEnqueue(StopWon)
StopCas ==
    /\ pc = "stopCas"
    /\ IF Wins(cur)
       THEN state' = [state EXCEPT ![cur] = "StopWon"] /\ Enqueue(cur)
       ELSE UNCHANGED <<state, queue>>
    /\ Goto("run", None)
    /\ UNCHANGED <<toStop, life, stopReq, timerId, outcome, cb, backend>>

\* ~TimedOperation() and ~Operation()
Destroy(o) ==
    /\ life[o] = "live"
    /\ \/ /\ o \in TimedOps /\ TRUE \in TimerIdReads(o)
          /\ Goto("dtorCancel", o)
          /\ UNCHANGED life
       \/ /\ o \in TimedOps => FALSE \in TimerIdReads(o)
          /\ life' = [life EXCEPT ![o] = "dead"]
          /\ UNCHANGED <<domain, draining, pc, cur>>
    /\ UNCHANGED <<toStop, stopReq, state, timerId, outcome, queue, cb, backend>>

\* A sender destroys an operation that has completed.
DestroyCompleted(o) == InUserCode /\ outcome[o] # None /\ Destroy(o)

\* _opState.reset(), at the end of Domain::Stop(), destroys every operation.
Reset(o) == Free /\ domain = "resetting" /\ Destroy(o)

\* ~TimedOperation(): backend->Cancel() returns and the memory is freed.
DtorCancel ==
    /\ pc = "dtorCancel"
    /\ Backend!Cancel(cur)
    /\ life' = [life EXCEPT ![cur] = "dead"]
    /\ Goto("run", None)
    /\ UNCHANGED <<toStop, stopReq, state, timerId, outcome, queue, cb>>

-----------------------------------------------------------------------------
(* DrainQueue() and Domain                                                 *)

\* Domain::Update()
Update ==
    /\ Free /\ domain = "running" /\ ~draining
    /\ draining' = TRUE
    /\ UNCHANGED <<domain, pc, cur, toStop, ops, queue, cb, backend>>

\* Execute(): the signal sent.  The mutant does not look at the stop token.
SignalValue(o) == IF outcome[o] # None THEN "twice" ELSE "value"
Signal(o) == IF outcome[o] # None THEN "twice"
             ELSE IF stopReq[o] THEN "stopped" ELSE "value"

\* A node is dequeued and executed, a dangling one like any other.
Dequeue(o) ==
    /\ Free /\ draining /\ queue[o] > 0
    /\ queue' = [queue EXCEPT ![o] = @ - 1]
    /\ IF life[o] = "live"
       THEN outcome' = [outcome EXCEPT ![o] = Signal(o)] /\ UNCHANGED pc
       ELSE pc' = "crashed" /\ UNCHANGED outcome
    /\ UNCHANGED <<domain, draining, cur, toStop, life, stopReq, state, timerId, cb,
                   backend>>

\* try_dequeue() fails.  The mutant drains at most what it likes.
DrainSome == TRUE
QueueEmpty == \A o \in Ops : queue[o] = 0

\* DrainQueue() returns; Stop() goes on to _opState.reset().
Drained ==
    /\ Free /\ draining /\ QueueEmpty
    /\ draining' = FALSE
    /\ domain' = IF domain = "stopping" THEN "resetting" ELSE domain
    /\ UNCHANGED <<pc, cur, toStop, ops, queue, cb, backend>>

\* DomainReceiver gives its sender the Domain's stop token and a RunTask copies that
\* of the coroutine that awaits it, so that every operation has it in the end.
Inherits == Ops

\* Domain::Stop(): request_stop(), whose callbacks run before the drain.
Stop ==
    /\ Free /\ domain = "running" /\ ~draining
    /\ domain' = "stopping" /\ draining' = TRUE
    /\ stopReq' = [o \in Ops |-> stopReq[o] \/ o \in Inherits]
    /\ toStop' = Registered(Inherits)
    /\ UNCHANGED <<pc, cur, life, state, timerId, outcome, queue, cb, backend>>

\* Domain::Stop() returns: _opState is destroyed.
Stopped ==
    /\ Free /\ domain = "resetting"
    /\ \A o \in Ops : life[o] # "live"
    /\ domain' = "stopped"
    /\ UNCHANGED <<draining, pc, cur, toStop, ops, queue, cb, backend>>

-----------------------------------------------------------------------------
(* The timer callback of an operation.                                     *)

DeadlinesPass ==
    /\ \E S \in SUBSET TimedOps : Backend!DeadlinesPass(S)
    /\ UNCHANGED <<loop, ops, queue, cb>>

Fire(o) ==
    /\ Backend!Fire(o)
    /\ cb' = [cb EXCEPT ![o] = "reset"]
    /\ UNCHANGED <<loop, ops, queue>>

\* timerId = InvalidTimerId
CbReset(o) ==
    /\ cb[o] = "reset"
    /\ cb' = [cb EXCEPT ![o] = "cas"]
    /\ timerId' = [timerId EXCEPT ![o] = FALSE]
    /\ UNCHANGED <<loop, life, stopReq, state, outcome, queue, backend>>

\* TryEnqueue(TimerWon): the exchange, on freed memory with either result.
CbCas(o) ==
    /\ cb[o] = "cas"
    /\ \/ /\ life[o] = "dead" \/ Wins(o)
          /\ state' = [state EXCEPT ![o] = IF life[o] = "dead" THEN @ ELSE "TimerWon"]
          /\ cb' = [cb EXCEPT ![o] = "enqueue"]
       \/ /\ life[o] = "dead" \/ ~Wins(o)
          /\ cb' = [cb EXCEPT ![o] = "return"]
          /\ UNCHANGED state
    /\ UNCHANGED <<loop, life, stopReq, timerId, outcome, queue, backend>>

\* TryEnqueue(TimerWon): scheduler->Enqueue(this)
CbEnqueue(o) ==
    /\ cb[o] = "enqueue"
    /\ cb' = [cb EXCEPT ![o] = "return"]
    /\ Enqueue(o)
    /\ UNCHANGED <<loop, ops, backend>>

CbReturn(o) ==
    /\ cb[o] = "return"
    /\ cb' = [cb EXCEPT ![o] = "idle"]
    /\ Backend!Return(o)
    /\ UNCHANGED <<loop, ops, queue>>

-----------------------------------------------------------------------------
Callback(o) == CbReset(o) \/ CbCas(o) \/ CbEnqueue(o) \/ CbReturn(o)

UserCode ==
    \/ \E o \in LoopOps : StartLoop(o)
    \/ \E o \in TimedOps : StartTimed(o)
    \/ \E o \in Ops : RequestStop(o) \/ DestroyCompleted(o)

LoopThread ==
    \/ AssignTimerId \/ StopCancel \/ StopCas \/ DtorCancel
    \/ \E o \in TimedOps : StopCallback(o)
    \/ Update \/ Drained \/ Stopped
    \/ \E o \in Ops : Dequeue(o) \/ Reset(o)

Next ==
    \/ UserCode \/ LoopThread \/ Stop \/ DeadlinesPass
    \/ \E o \in TimedOps : Fire(o) \/ Callback(o)

\* The runner keeps calling Update(), both threads run and callbacks return.
\* Timers may never come due and nobody has to call Stop().
Fairness ==
    /\ WF_vars(LoopThread)
    /\ \A o \in TimedOps : WF_vars(Callback(o))

Spec     == Init /\ [][Next]_vars
FairSpec == Spec /\ Fairness

-----------------------------------------------------------------------------
(* Properties.                                                             *)

\* "whichever side raises it first prevents the other from enqueuing this node
\* a second time" (TimedOperation): no receiver gets two completion signals,
\* however the timer, a stop request and the drain interleave.
CompletesOnce == \A o \in Ops : outcome[o] # "twice"

\* set_value() of schedule_after() means the time has passed: an operation that
\* was enqueued by its stop callback never completes with a value.
ValueMeansFired ==
    \A o \in TimedOps : outcome[o] = "value" => status[o] \in {"inflight", "fired"}

\* The Cancel() in ~TimedOperation() and TryEnqueueStop() protects an operation
\* up to the callback's first statement: a destroyed operation has no timer
\* that may still fire and no callback that has still to write timerId.
CancelProtects ==
    \A o \in TimedOps :
        life[o] = "dead" => status[o] \notin Backend!Pending /\ cb[o] # "reset"

\* An operation that has not completed is never stranded: its timer or its stop
\* callback will enqueue it, or one of the two has, and it is in the queue.
NeverStranded ==
    \A o \in TimedOps : life[o] = "live" /\ outcome[o] = None =>
        IF state[o] = "Pending"
        THEN \/ status[o] \in Backend!Pending \/ cb[o] \in {"reset", "cas"}
             \/ o \in toStop \/ cur = o
        ELSE queue[o] = 1 \/ cb[o] = "enqueue"

\* "at this point the queue is empty and there are no dangling Operation<R>*
\* pointers" (README.Domain.md): true of the operations of schedule().
NoDanglingLoopOps ==
    domain = "stopped" => \A o \in LoopOps : queue[o] = 0 /\ life[o] # "live"

\* An operation completes once its timer has fired, and once its stop is
\* requested even if its deadline never comes.
EventuallyCompletes ==
    \A o \in TimedOps :
        (life[o] = "live" /\ (stopReq[o] \/ status[o] = "inflight"))
            ~> (outcome[o] # None \/ life[o] = "dead" \/ pc = "crashed")

\* "Cancel() blocks until the callback completes, guaranteeing `this` is alive
\* for the callback's entire execution" (TimedOperation::start()).
CallbackOpAlive ==
    \A o \in TimedOps : cb[o] \in {"reset", "cas", "enqueue"} => life[o] = "live"
=============================================================================
