------------------------- MODULE ThreadTimerBackend -------------------------
(***************************************************************************)
(* Exec::ThreadTimerBackend: a heap of entries and a set of active ids     *)
(* under one mutex, a timer thread that sleeps on _cv and runs the due     *)
(* callbacks with the mutex released, and Cancel() callers that sleep on   *)
(* _doneCv while the callback they cancel is in flight.                    *)
(*                                                                         *)
(* A caller's critical section is one step.  The timer thread's is several *)
(* because ~ThreadTimerBackend() stores _stopping without the mutex: what  *)
(* the thread has read under the mutex may be stale when it goes to sleep. *)
(***************************************************************************)
EXTENDS Naturals

CONSTANTS
    Clients,         \* threads other than the timer thread that use the backend
    TimerThread,     \* the timer thread as a caller: callbacks call the backend
    MaxTimers,       \* bound: ScheduleAt() calls
    MaxTime          \* bound: the last instant of the clock

ASSUME ThreadTimerAssumption ==
    TimerThread \notin Clients /\ MaxTimers \in Nat /\ MaxTime \in Nat

VARIABLES
    now,             \* steady_clock::now()
    queue,           \* _queue: entries [deadline, id]
    active,          \* _active
    inflight,        \* _inflightId
    nextId,          \* _nextId
    pc,              \* where the timer thread is in RunTimerThread()
    waitDeadline,    \* RunTimerThread(): the argument of wait_until
    call,            \* the backend call each thread is in
    dtor,            \* progress of ~ThreadTimerBackend()
    fired,           \* history: the ids whose callback has been invoked
    released         \* history: the ids some Cancel() has returned for

shared  == <<queue, active, inflight, nextId>>
history == <<fired, released>>
vars    == <<now, shared, pc, waitDeadline, call, dtor, history>>

Time    == 0..(MaxTime + 1)                         \* the last one never comes
Timers  == 1..MaxTimers
Invalid == 0                                        \* InvalidTimerId
Callers == Clients \cup {TimerThread}
Idle    == [op |-> "idle", id |-> Invalid, deadline |-> 0]

stopping == dtor # "none"                           \* _stopping

\* The timer thread owns _mutex at these places, and no caller can enter.
Holding   == {"check", "pred", "enterWait", "enterTimed", "pop"}
MutexFree == pc \notin Holding

TypeOK ==
    /\ now \in Time
    /\ queue \in SUBSET [deadline : Time, id : Timers]
    /\ active \in SUBSET Timers
    /\ inflight \in Timers \cup {Invalid}
    /\ nextId \in 1..(MaxTimers + 1)
    /\ pc \in Holding \cup {"lock", "waiting", "woken", "timed", "timedWoken",
                            "callback", "returned", "exited"}
    /\ waitDeadline \in Time
    /\ call \in [Callers -> [op : {"idle", "insert", "notify", "cancel", "blocked"},
                             id : Timers \cup {Invalid}, deadline : Time]]
    /\ dtor \in {"none", "stored", "joining", "joined"}
    /\ fired \in SUBSET Timers
    /\ released \in SUBSET Timers

Init ==
    /\ now = 0
    /\ queue = {} /\ active = {} /\ inflight = Invalid /\ nextId = 1
    /\ pc = "lock" /\ waitDeadline = 0
    /\ call = [c \in Callers |-> Idle]
    /\ dtor = "none"
    /\ fired = {} /\ released = {}

\* Entries that _queue.top() may return: ties are in no particular order.
Tops == {e \in queue : \A f \in queue : e.deadline <= f.deadline}

\* Mutants: a notification that misses one of the two waits.
WakeWaitOnly  == pc' = IF pc = "waiting" THEN "woken" ELSE pc
WakeTimedOnly == pc' = IF pc = "timed" THEN "timedWoken" ELSE pc

\* A notification of _cv, on which only the timer thread waits.
WakeThread == pc' = CASE pc = "waiting" -> "woken"
                      [] pc = "timed"   -> "timedWoken"
                      [] OTHER          -> pc

-----------------------------------------------------------------------------
(* Callers: client threads before destruction, and callbacks.              *)

CanCall(c) ==
    /\ call[c] = Idle
    /\ IF c = TimerThread THEN pc = "callback" ELSE ~stopping

\* _nextId.fetch_add(1).
FreshId == nextId

\* ScheduleAt(): the id is taken before the mutex.
ScheduleAt(c, d) ==
    /\ CanCall(c)
    /\ nextId <= MaxTimers
    /\ call' = [call EXCEPT ![c] = [op |-> "insert", id |-> FreshId, deadline |-> d]]
    /\ nextId' = nextId + 1
    /\ UNCHANGED <<now, queue, active, inflight, pc, waitDeadline, dtor, history>>

\* _queue.push(Entry{deadline, id, ...}).  The mutant is a heap keyed by
\* deadline, where an entry replaces one of the same deadline.
PushKeyed(c) == {e \in queue : e.deadline # call[c].deadline} \cup
                    {[deadline |-> call[c].deadline, id |-> call[c].id]}
Push(c) == queue \cup {[deadline |-> call[c].deadline, id |-> call[c].id]}

\* ScheduleAt(): the critical section.
Insert(c) ==
    /\ call[c].op = "insert"
    /\ MutexFree
    /\ active' = active \cup {call[c].id}
    /\ queue' = Push(c)
    /\ call' = [call EXCEPT ![c].op = "notify"]
    /\ UNCHANGED <<now, inflight, nextId, pc, waitDeadline, dtor, history>>

\* ScheduleAt(): _cv.notify_one() after the unlock, then return.
NotifyOne(c) ==
    /\ call[c].op = "notify"
    /\ WakeThread
    /\ call' = [call EXCEPT ![c] = Idle]
    /\ UNCHANGED <<now, shared, waitDeadline, dtor, history>>

\* Cancel() is called with an id that ScheduleAt() has returned.  A callback
\* does not cancel itself: Cancel() would wait for its own caller.
CancelCall(c, t) ==
    /\ CanCall(c)
    /\ t < nextId
    /\ \A b \in Callers : call[b].op \in {"insert", "notify"} => call[b].id # t
    /\ c = TimerThread => t # inflight
    /\ call' = [call EXCEPT ![c] = [op |-> "cancel", id |-> t, deadline |-> 0]]
    /\ UNCHANGED <<now, shared, pc, waitDeadline, dtor, history>>

\* Cancel(): the callback to cancel is executing.  The mutant does not look.
NeverExecuting(c) == FALSE
Executing(c) == inflight = call[c].id

\* Cancel(): the callback is in flight; the caller sleeps on _doneCv.
CancelBlock(c) ==
    /\ call[c].op = "cancel"
    /\ MutexFree
    /\ Executing(c)
    /\ call' = [call EXCEPT ![c].op = "blocked"]
    /\ UNCHANGED <<now, shared, pc, waitDeadline, dtor, history>>

\* Cancel(): erases the id, leaving the entry in the heap, and returns.
CancelReturn(c) ==
    /\ call[c].op = "cancel"
    /\ MutexFree
    /\ ~Executing(c)
    /\ active' = active \ {call[c].id}
    /\ released' = released \cup {call[c].id}
    /\ call' = [call EXCEPT ![c] = Idle]
    /\ UNCHANGED <<now, queue, inflight, nextId, pc, waitDeadline, dtor, fired>>

-----------------------------------------------------------------------------
(* The timer thread: RunTimerThread().                                     *)

Go(from, to) == pc \in from /\ pc' = to
Rest == UNCHANGED <<now, shared, call, dtor, history>>

Lock == Go({"lock"}, "check") /\ UNCHANGED waitDeadline /\ Rest

\* The loop condition, _queue.empty() and the deadline of top().
Check ==
    /\ \/ stopping /\ Go({"check"}, "exited") /\ UNCHANGED waitDeadline
       \/ ~stopping /\ queue = {} /\ Go({"check"}, "pred") /\ UNCHANGED waitDeadline
       \/ /\ ~stopping /\ Go({"check"}, "enterTimed")
          /\ \E e \in Tops : waitDeadline' = e.deadline
    /\ Rest

\* The predicate of _cv.wait, before the first sleep and after each wakeup.
WaitPredicate ==
    /\ Go({"pred", "woken"}, IF queue # {} \/ stopping THEN "check" ELSE "enterWait")
    /\ UNCHANGED waitDeadline /\ Rest

\* wait and wait_until release the mutex and sleep.
Sleep ==
    /\ Go({"enterWait"}, "waiting") \/ Go({"enterTimed"}, "timed")
    /\ UNCHANGED waitDeadline /\ Rest

\* A condition variable may wake up without a notification.
SpuriousWakeup ==
    /\ pc \in {"waiting", "timed"} /\ WakeThread
    /\ UNCHANGED waitDeadline /\ Rest

\* wait_until reaches its deadline.
Timeout ==
    /\ now >= waitDeadline /\ Go({"timed"}, "timedWoken")
    /\ UNCHANGED waitDeadline /\ Rest

\* wait_until returns, with the mutex.
WaitUntilReturns ==
    /\ Go({"timedWoken"}, IF now >= waitDeadline THEN "pop" ELSE "check")
    /\ UNCHANGED waitDeadline /\ Rest

\* One turn of the loop over the due entries: none is left, or a cancelled
\* one is dropped, or one is fired, with the mutex released.
Pop ==
    /\ pc = "pop"
    /\ \/ /\ \A e \in queue : e.deadline > now
          /\ pc' = "check"
          /\ UNCHANGED <<queue, active, inflight, fired>>
       \/ \E e \in Tops :
            /\ e.deadline <= now
            /\ queue' = queue \ {e}
            /\ \/ /\ e.id \notin active
                  /\ UNCHANGED <<pc, active, inflight, fired>>
               \/ /\ e.id \in active
                  /\ active' = active \ {e.id}
                  /\ inflight' = e.id
                  /\ fired' = fired \cup {e.id}
                  /\ pc' = "callback"
    /\ UNCHANGED <<now, nextId, waitDeadline, call, dtor, released>>

\* The callback, and every backend call it has made, returns.
CallbackReturns ==
    /\ call[TimerThread] = Idle /\ Go({"callback"}, "returned")
    /\ UNCHANGED waitDeadline /\ Rest

\* _doneCv.notify_all(): the callers in W wake up and look again.  The mutants
\* do not notify, or notify one caller only.
WakeCallers(W) == call' = [c \in Callers |->
    IF c \in W THEN [call[c] EXCEPT !.op = "cancel"] ELSE call[c]]
Blocked == {c \in Callers : call[c].op = "blocked"}
NotifyNone == WakeCallers({})
NotifyOneDone == \E W \in SUBSET Blocked : WakeCallers(W) /\ (\A c, d \in W : c = d)
NotifyDone == WakeCallers(Blocked)

\* lock.lock(); _inflightId is cleared and _doneCv.notify_all() called.
ClearInflight ==
    /\ Go({"returned"}, "pop")
    /\ inflight' = Invalid
    /\ NotifyDone
    /\ UNCHANGED <<now, queue, active, nextId, waitDeadline, dtor, history>>

-----------------------------------------------------------------------------
(* ~ThreadTimerBackend(), called when no client uses the backend any more. *)

Destroy ==
    /\ dtor = "none" /\ dtor' = "stored"
    /\ \A c \in Clients : call[c] = Idle
    /\ UNCHANGED <<now, shared, pc, waitDeadline, call, history>>

NotifyAll ==
    /\ dtor = "stored" /\ dtor' = "joining"
    /\ WakeThread
    /\ UNCHANGED <<now, shared, waitDeadline, call, history>>

\* ~jthread()
Join ==
    /\ dtor = "joining" /\ pc = "exited" /\ dtor' = "joined"
    /\ UNCHANGED <<now, shared, pc, waitDeadline, call, history>>

-----------------------------------------------------------------------------
ClockTick ==
    /\ now < MaxTime /\ now' = now + 1
    /\ UNCHANGED <<shared, pc, waitDeadline, call, dtor, history>>

CallStep(c) == Insert(c) \/ NotifyOne(c) \/ CancelBlock(c) \/ CancelReturn(c)

RunTimerThread ==
    \/ Lock \/ Check \/ WaitPredicate \/ Sleep \/ Timeout \/ WaitUntilReturns
    \/ Pop \/ CallbackReturns \/ ClearInflight

Next ==
    \/ \E c \in Callers, d \in Time : ScheduleAt(c, d)
    \/ \E c \in Callers, t \in Timers : CancelCall(c, t)
    \/ \E c \in Callers : CallStep(c)
    \/ RunTimerThread \/ SpuriousWakeup
    \/ Destroy \/ NotifyAll \/ Join
    \/ ClockTick

\* Threads that can run do run, callbacks return, time passes, and a caller
\* that keeps finding the mutex free acquires it.  Nobody has to schedule,
\* cancel or destroy, and no spurious wakeup has to happen.
Fairness ==
    /\ WF_vars(RunTimerThread) /\ SF_vars(CallbackReturns)
    /\ \A c \in Callers : SF_vars(CallStep(c))
    /\ WF_vars(NotifyAll) /\ WF_vars(Join) /\ WF_vars(ClockTick)

Spec     == Init /\ [][Next]_vars
FairSpec == Spec /\ Fairness

-----------------------------------------------------------------------------
(* Properties.                                                             *)

\* Every active timer still has its heap entry: RunTimerThread() finds timers
\* through the heap only, so an active id without an entry would never fire.
ActiveQueued == \A t \in active : \E e \in queue : e.id = t

\* No wakeup of ScheduleAt() is lost: the timer thread sleeps, without a
\* deadline beside a heap that is not empty or beyond the deadline of its top,
\* only while a notify_one() that will wake it is still to come.
NoLostWakeup ==
    \/ \E c \in Callers : call[c].op = "notify"
    \/ /\ pc \in {"enterWait", "waiting"} => queue = {}
       /\ pc \in {"enterTimed", "timed"} =>
            \A e \in queue : waitDeadline <= e.deadline

\* A caller sleeps on _doneCv only while the callback it waits for is in
\* flight, so the notify_all() that follows the callback is still to come.
BlockedOnInflight ==
    \A c \in Callers : call[c].op = "blocked" => inflight = call[c].id

\* What has become of a timer, in the words of the contract.
StatusOf(t) ==
    IF t = inflight THEN "inflight"
    ELSE IF t \in active
         THEN IF \E e \in queue : e.id = t /\ e.deadline <= now THEN "due" ELSE "armed"
    ELSE IF t \in fired THEN "fired"
    ELSE IF t < nextId /\ \A c \in Callers : call[c].op = "insert" => call[c].id # t
         THEN "cancelled" ELSE "unused"

Contract == INSTANCE TimerBackend WITH status <- [t \in Timers |-> StatusOf(t)]

\* ThreadTimerBackend implements the contract of ITimerBackend: one callback
\* at most, not before the deadline, and Cancel() returns only when the
\* callback is not running and never will.
ImplementsTimerBackend == Contract!Spec

\* A timer whose deadline has passed fires or is cancelled, unless the backend
\* is destroyed: the timer thread never sleeps through it.  (There are finitely
\* many timers here; callbacks that never stop scheduling earlier deadlines, all
\* of them past, would keep the thread from a later one.)
DueTimersFire ==
    \A t \in Timers :
        (\E e \in queue : e.id = t /\ e.deadline <= now) ~> (t \notin active \/ stopping)

\* "so this wait always terminates" (ThreadTimerBackend::Cancel): every call
\* of Cancel() returns, also one that meets its callback in flight.
CancelTerminates ==
    \A c \in Callers : call[c].op \in {"cancel", "blocked"} ~> call[c].op = "idle"

\* "jthread destructor joins automatically" (~ThreadTimerBackend): once it has
\* stored _stopping, the destructor finishes.
DestructorJoins == stopping ~> dtor = "joined"
=============================================================================
