------------------------- MODULE TimerBackendProofs -------------------------
(***************************************************************************)
(* The two timer backends, for any number of threads, timers and ticks:    *)
(* the safety properties of ThreadTimerBackend, and that both it and       *)
(* LoopTimerBackend implement the contract of ITimerBackend.  The module   *)
(* extends the first and instantiates the second, as Loop.                 *)
(***************************************************************************)
EXTENDS ThreadTimerBackend, SequenceTheorems, FiniteSetTheorems, TLAPS

\* An id that ScheduleAt() has taken and not yet inserted is fresh.
InsertInv ==
    \A c \in Callers : call[c].op = "insert" =>
        /\ call[c].id \in Timers /\ call[c].id < nextId
        /\ call[c].id \notin active \cup fired \cup released
        /\ \A e \in queue : e.id # call[c].id
        /\ \A b \in Callers : b # c /\ call[b].op # "idle" => call[b].id # call[c].id

\* Every call under way is about an id that has been handed out, and callbacks
\* call the backend only while they run.
CallInv ==
    /\ \A c \in Callers : call[c].op # "idle" => call[c].id \in Timers /\ call[c].id < nextId
    /\ \A c \in Callers : call[c].op = "idle" => call[c] = Idle
    /\ pc # "callback" => call[TimerThread] = Idle
    /\ \A c \in Callers : call[c].op \in {"cancel", "blocked"} /\ c = TimerThread =>
         call[c].id # inflight

\* Heap, active ids, the id in flight and the two histories fit together.
HeapInv ==
    /\ \A e \in queue : e.id < nextId
    /\ \A e, f \in queue : e.id = f.id => e = f
    /\ \A t \in active : t \notin fired \cup released
    /\ \A t \in fired \cup released : t < nextId
    /\ inflight # Invalid <=> pc \in {"callback", "returned"}
    /\ inflight # Invalid => inflight \in fired \ active
    /\ inflight \notin released

\* What the timer thread read under the mutex is still true while it holds it;
\* once asleep, a heap that has changed means a notification is on its way.
SleepInv ==
    /\ pc = "enterWait" => queue = {}
    /\ pc = "enterTimed" => \A e \in queue : waitDeadline <= e.deadline
    /\ \/ \E c \in Callers : call[c].op = "notify"
       \/ /\ pc = "waiting" => queue = {}
          /\ pc = "timed" => \A e \in queue : waitDeadline <= e.deadline

\* What is proved of each step, given the types; with them it is inductive.
SafeInv ==
    /\ InsertInv
    /\ CallInv
    /\ HeapInv
    /\ ActiveQueued
    /\ BlockedOnInflight
    /\ SleepInv

IInv == TypeOK /\ SafeInv
-----------------------------------------------------------------------------
\* The variables keep their types.
LEMMA TypeStep == TypeOK /\ CallInv /\ [Next]_vars => TypeOK'
<1> SUFFICES ASSUME TypeOK, CallInv, [Next]_vars PROVE TypeOK'
  OBVIOUS
<1> USE ThreadTimerAssumption DEF TypeOK, Time, Timers, Callers, Invalid, Idle, Holding,
        shared, history, Go, Rest
<1>1. ASSUME NEW c \in Callers, NEW d \in Time, ScheduleAt(c, d) PROVE TypeOK'
  BY <1>1 DEF ScheduleAt, CanCall, FreshId
<1>2. ASSUME NEW c \in Callers, NEW t \in Timers, CancelCall(c, t) PROVE TypeOK'
  BY <1>2 DEF CancelCall, CanCall
<1>3. ASSUME NEW c \in Callers, Insert(c) PROVE TypeOK'
  BY <1>3 DEF Insert, Push, MutexFree, CallInv
<1>4. ASSUME NEW c \in Callers, NotifyOne(c) PROVE TypeOK'
  BY <1>4 DEF NotifyOne, WakeThread
<1>5. ASSUME NEW c \in Callers, CancelBlock(c) PROVE TypeOK'
  BY <1>5 DEF CancelBlock, Executing, MutexFree
<1>6. ASSUME NEW c \in Callers, CancelReturn(c) PROVE TypeOK'
  <2>1. call[c].id \in Timers
    BY <1>6 DEF CancelReturn, CallInv
  <2>2. active' \in SUBSET Timers /\ released' \in SUBSET Timers
    BY <1>6, <2>1, Zenon DEF CancelReturn
  <2>3. call' = [call EXCEPT ![c] = Idle]
    BY <1>6 DEF CancelReturn
  <2> QED
    BY <1>6, <2>2, <2>3 DEF CancelReturn
<1>7. CASE Lock
  BY <1>7 DEF Lock
<1>8. CASE Check
  BY <1>8 DEF Check, Tops
<1>9. CASE WaitPredicate
  BY <1>9 DEF WaitPredicate
<1>10. CASE Sleep
  BY <1>10 DEF Sleep
<1>11. CASE SpuriousWakeup
  BY <1>11 DEF SpuriousWakeup, WakeThread
<1>12. CASE Timeout
  BY <1>12 DEF Timeout
<1>13. CASE WaitUntilReturns
  BY <1>13 DEF WaitUntilReturns
<1>14. CASE Pop
  BY <1>14, ZenonT(30) DEF Pop, Tops
<1>15. CASE CallbackReturns
  BY <1>15 DEF CallbackReturns
<1>16. CASE ClearInflight
  BY <1>16 DEF ClearInflight, NotifyDone, WakeCallers, Blocked
<1>17. CASE Destroy
  BY <1>17 DEF Destroy
<1>18. CASE NotifyAll
  BY <1>18 DEF NotifyAll, WakeThread
<1>19. CASE Join
  BY <1>19 DEF Join
<1>20. CASE ClockTick
  BY <1>20 DEF ClockTick
<1>21. CASE UNCHANGED vars
  BY <1>21 DEF vars
<1> HIDE DEF TypeOK, CallInv
<1> QED
  BY <1>1, <1>2, <1>3, <1>4, <1>5, <1>6, <1>7, <1>8, <1>9, <1>10, <1>11,
     <1>12, <1>13, <1>14, <1>15, <1>16, <1>17, <1>18, <1>19, <1>20, <1>21
     DEF Next, CallStep, RunTimerThread

\* Callers schedule and cancel.
LEMMA CallerStep ==
  ASSUME IInv,
         \/ \E c \in Callers, d \in Time : ScheduleAt(c, d)
         \/ \E c \in Callers, t \in Timers : CancelCall(c, t)
         \/ \E c \in Callers : CallStep(c)
  PROVE  SafeInv'
<1> USE ThreadTimerAssumption DEF IInv, SafeInv, TypeOK, InsertInv, CallInv, HeapInv,
        ActiveQueued, BlockedOnInflight, SleepInv, Time, Timers, Callers, Invalid, Idle,
        Holding, shared, history, Go, Rest
<1>1. ASSUME NEW c \in Callers, NEW d \in Time, ScheduleAt(c, d) PROVE SafeInv'
  BY <1>1 DEF ScheduleAt, CanCall, FreshId
<1>2. ASSUME NEW c \in Callers, NEW t \in Timers, CancelCall(c, t) PROVE SafeInv'
  BY <1>2 DEF CancelCall, CanCall
<1>3. ASSUME NEW c \in Callers, Insert(c) PROVE SafeInv'
  <2> USE <1>3 DEF Insert, Push, MutexFree
  <2>1. InsertInv'
    OBVIOUS
  <2>2. CallInv' /\ BlockedOnInflight' /\ SleepInv'
    OBVIOUS
  <2>3. HeapInv'
    OBVIOUS
  <2>4. ASSUME NEW t \in active' PROVE \E e \in queue' : e.id = t
    <3>1. CASE t = call[c].id
      <4> DEFINE new == [deadline |-> call[c].deadline, id |-> call[c].id]
      <4>1. new \in queue' /\ new.id = t
        BY <3>1
      <4> QED
        BY <4>1, ZenonT(30)
    <3>2. CASE t # call[c].id
      <4>1. PICK e \in queue : e.id = t
        BY <2>4, <3>2
      <4> QED
        BY <4>1
    <3> QED
      BY <3>1, <3>2
  <2> QED
    BY <2>1, <2>2, <2>3, <2>4, Zenon
<1>4. ASSUME NEW c \in Callers, NotifyOne(c) PROVE SafeInv'
  BY <1>4 DEF NotifyOne, WakeThread
<1>5. ASSUME NEW c \in Callers, CancelBlock(c) PROVE SafeInv'
  BY <1>5 DEF CancelBlock, Executing, MutexFree
<1>6. ASSUME NEW c \in Callers, CancelReturn(c) PROVE SafeInv'
  BY <1>6 DEF CancelReturn, Executing, MutexFree
<1> HIDE DEF IInv, SafeInv
<1> QED
  BY <1>1, <1>2, <1>3, <1>4, <1>5, <1>6 DEF CallStep

\* The timer thread waits, pops and fires.
LEMMA TimerThreadStep == ASSUME IInv, RunTimerThread PROVE SafeInv'
<1> USE ThreadTimerAssumption DEF IInv, SafeInv, TypeOK, InsertInv, CallInv, HeapInv,
        ActiveQueued, BlockedOnInflight, SleepInv, Time, Timers, Callers, Invalid, Idle,
        Holding, shared, history, Go, Rest
<1>7. CASE Lock
  BY <1>7 DEF Lock
<1>8. CASE Check
  BY <1>8 DEF Check, Tops
<1>9. CASE WaitPredicate
  BY <1>9 DEF WaitPredicate
<1>10. CASE Sleep
  BY <1>10 DEF Sleep
<1>12. CASE Timeout
  BY <1>12 DEF Timeout
<1>13. CASE WaitUntilReturns
  BY <1>13 DEF WaitUntilReturns
<1>14. CASE Pop
  <2>1. pc = "pop" /\ UNCHANGED <<now, nextId, waitDeadline, call, dtor, released>>
    BY <1>14 DEF Pop
  <2>2. CASE pc' = "check" /\ UNCHANGED <<queue, active, inflight, fired>>
    BY <2>1, <2>2
  <2>3. ASSUME NEW e \in queue, queue' = queue \ {e}, e.id \notin active,
               UNCHANGED <<pc, active, inflight, fired>>
        PROVE  SafeInv'
    BY <2>1, <2>3
  <2>4. ASSUME NEW e \in queue, queue' = queue \ {e}, e.id \in active,
               active' = active \ {e.id}, inflight' = e.id, fired' = fired \cup {e.id},
               pc' = "callback"
        PROVE  SafeInv'
    BY <2>1, <2>4
  <2> QED
    BY <1>14, <2>2, <2>3, <2>4, ZenonT(30) DEF Pop, Tops
<1>15. CASE CallbackReturns
  BY <1>15 DEF CallbackReturns
<1>16. CASE ClearInflight
  <2>1. /\ pc = "returned" /\ pc' = "pop" /\ inflight' = Invalid
        /\ UNCHANGED <<now, queue, active, nextId, waitDeadline, dtor, fired, released>>
    BY <1>16 DEF ClearInflight
  <2>2. ASSUME NEW c \in Callers
        PROVE  /\ call'[c].id = call[c].id /\ call'[c].op # "blocked"
               /\ call[c].op # "blocked" => call'[c] = call[c]
               /\ call[c].op = "blocked" => call'[c].op = "cancel"
    BY <1>16 DEF ClearInflight, NotifyDone, WakeCallers, Blocked
  <2>3. InsertInv' /\ BlockedOnInflight'
    BY <2>1, <2>2
  <2>4. CallInv'
    BY <2>1, <2>2
  <2>5. HeapInv' /\ ActiveQueued'
    BY <2>1
  <2>6. SleepInv'
    BY <2>1, <2>2
  <2> QED
    BY <2>3, <2>4, <2>5, <2>6, ZenonT(30)
<1> HIDE DEF IInv, SafeInv
<1> QED
  BY <1>7, <1>8, <1>9, <1>10, <1>12, <1>13, <1>14, <1>15, <1>16 DEF RunTimerThread

\* The environment and the destructor.
LEMMA OtherStep ==
  ASSUME IInv, SpuriousWakeup \/ Destroy \/ NotifyAll \/ Join \/ ClockTick \/ UNCHANGED vars
  PROVE  SafeInv'
<1> USE ThreadTimerAssumption DEF IInv, SafeInv, TypeOK, InsertInv, CallInv, HeapInv,
        ActiveQueued, BlockedOnInflight, SleepInv, Time, Timers, Callers, Invalid, Idle,
        Holding, shared, history, Go, Rest
<1>11. CASE SpuriousWakeup
  BY <1>11 DEF SpuriousWakeup, WakeThread
<1>17. CASE Destroy
  BY <1>17 DEF Destroy
<1>18. CASE NotifyAll
  BY <1>18 DEF NotifyAll, WakeThread
<1>19. CASE Join
  BY <1>19 DEF Join
<1>20. CASE ClockTick
  BY <1>20 DEF ClockTick
<1>21. CASE UNCHANGED vars
  BY <1>21, ZenonT(30) DEF vars
<1> HIDE DEF IInv, SafeInv
<1> QED
  BY <1>11, <1>17, <1>18, <1>19, <1>20, <1>21

\* IInv is inductive.
LEMMA InductiveStep == IInv /\ [Next]_vars => IInv'
<1> SUFFICES ASSUME IInv, [Next]_vars PROVE IInv'
  OBVIOUS
<1>1. TypeOK'
  BY TypeStep DEF IInv, SafeInv
<1> QED
  BY <1>1, CallerStep, TimerThreadStep, OtherStep DEF IInv, Next

\* The invariant holds when the thread is created.
LEMMA Initially == Init => IInv
  BY ThreadTimerAssumption DEF Init, IInv, SafeInv, TypeOK, InsertInv, CallInv, HeapInv,
            ActiveQueued,
     BlockedOnInflight, SleepInv, Time, Timers, Callers, Invalid, Idle, Holding

\* The inductive invariant holds in every reachable state.
THEOREM Invariance == Spec => []IInv
  BY Initially, InductiveStep, PTL DEF Spec

-----------------------------------------------------------------------------
\* The variables keep their types.
THEOREM Typing == Spec => []TypeOK
<1>1. IInv => TypeOK
  BY DEF IInv, SafeInv
<1> QED
  BY <1>1, Invariance, PTL

\* Popping, cancelling and inserting never separate an active id from its entry.
THEOREM ActiveStaysQueued == Spec => []ActiveQueued
<1>1. IInv => ActiveQueued
  BY DEF IInv, SafeInv
<1> QED
  BY <1>1, Invariance, PTL

\* ScheduleAt() notifies after its unlock and the timer thread checks before it
\* sleeps, so that the thread never sleeps past a timer.
THEOREM WakeupsArrive == Spec => []NoLostWakeup
<1>1. IInv => NoLostWakeup
  BY DEF IInv, SafeInv, SleepInv, NoLostWakeup
<1> QED
  BY <1>1, Invariance, PTL

\* A blocked Cancel() always has the callback's notify_all() ahead of it.
THEOREM BlockedWithReason == Spec => []BlockedOnInflight
<1>1. IInv => BlockedOnInflight
  BY DEF IInv, SafeInv
<1> QED
  BY <1>1, Invariance, PTL
-----------------------------------------------------------------------------
(* Refinement.                                                             *)

\* A step that changes no timer's status and releases none is a stuttering
\* step of the contract.
LEMMA Stutter ==
  ASSUME UNCHANGED released, \A t \in Timers : StatusOf(t)' = StatusOf(t)
  PROVE  UNCHANGED Contract!vars
  BY DEF Contract!vars, Timers

\* Steps that leave heap, active ids, histories and clock alone, and insert or
\* take no id, change no status.
LEMMA QuietStep ==
  ASSUME UNCHANGED <<now, queue, active, inflight, nextId, fired, released>>,
         \A c \in Callers : call'[c].op = "insert" <=> call[c].op = "insert",
         \A c \in Callers : call[c].op = "insert" => call'[c].id = call[c].id
  PROVE  UNCHANGED Contract!vars
<1>1. \A t \in Timers : StatusOf(t)' = StatusOf(t)
  BY DEF StatusOf
<1> QED
  BY <1>1, Stutter

\* ScheduleAt() takes an id: its timer stays unused until it is inserted.
LEMMA TakeIdStep ==
  ASSUME IInv, NEW c \in Callers, NEW d \in Time, ScheduleAt(c, d)
  PROVE  UNCHANGED Contract!vars
<1> USE DEF ScheduleAt, CanCall, FreshId, Idle, history
<1>1. ASSUME NEW t \in Timers PROVE StatusOf(t)' = StatusOf(t)
  BY <1>1, ThreadTimerAssumption
     DEF IInv, SafeInv, TypeOK, HeapInv, CallInv, InsertInv, ActiveQueued, StatusOf,
         Timers, Invalid, Callers
<1> QED
  BY <1>1, Stutter

\* The critical section of ScheduleAt() is the contract's ScheduleAt.
LEMMA InsertStep ==
  ASSUME IInv, NEW c \in Callers, Insert(c)
  PROVE  Contract!ScheduleAt(call[c].id)
<1> DEFINE u == call[c].id
<1> USE DEF Insert, Push, history
<1>1. u \in Timers /\ StatusOf(u) = "unused"
  BY DEF IInv, SafeInv, InsertInv, HeapInv, StatusOf, Timers, Invalid
<1>2. StatusOf(u)' \in Contract!Pending
  BY DEF IInv, SafeInv, InsertInv, HeapInv, StatusOf, Timers, Invalid, Contract!Pending
<1>3. ASSUME NEW t \in Timers, t # u PROVE StatusOf(t)' = StatusOf(t)
  <2>1. (\E e \in queue' : e.id = t /\ e.deadline <= now) <=>
        (\E e \in queue : e.id = t /\ e.deadline <= now)
    BY <1>3
  <2>2. (\A b \in Callers : call'[b].op = "insert" => call'[b].id # t) <=>
        (\A b \in Callers : call[b].op = "insert" => call[b].id # t)
    BY <1>3 DEF IInv, SafeInv, TypeOK
  <2> QED
    BY <1>3, <2>1, <2>2 DEF StatusOf
<1> QED
  BY <1>1, <1>2, <1>3 DEF Contract!ScheduleAt

\* Cancel() returns as the contract's Cancel does.
LEMMA CancelStep ==
  ASSUME IInv, NEW c \in Callers, CancelReturn(c), NEW u, u = call[c].id
  PROVE  Contract!Cancel(u)
<1> USE DEF CancelReturn, Executing
<1>1. u \in Timers /\ u < nextId /\ u # inflight
  BY DEF IInv, SafeInv, CallInv
<1>2. \A b \in Callers : call[b].op = "insert" => call[b].id # u
  BY DEF IInv, SafeInv, InsertInv
<1>3. StatusOf(u) \in Contract!Pending \cup Contract!Done
  BY <1>1, <1>2 DEF StatusOf, Contract!Pending, Contract!Done
<1>4. \A t \in Timers :
        (\A b \in Callers : call'[b].op = "insert" => call'[b].id # t) <=>
        (\A b \in Callers : call[b].op = "insert" => call[b].id # t)
  BY DEF IInv, SafeInv, TypeOK, Idle
<1>5. ASSUME NEW t \in Timers, t # u PROVE StatusOf(t)' = StatusOf(t)
  BY <1>4, <1>5 DEF StatusOf
<1>6. CASE u \in active
  <2>1. StatusOf(u) \in Contract!Pending
    BY <1>1, <1>6 DEF StatusOf, Contract!Pending
  <2>2. u \notin fired
    BY <1>6 DEF IInv, SafeInv, HeapInv
  <2>3. StatusOf(u)' = "cancelled"
    BY <1>1, <1>2, <1>4, <2>2 DEF StatusOf
  <2> QED
    BY <1>1, <1>3, <1>5, <2>1, <2>3 DEF Contract!Cancel
<1>7. CASE u \notin active
  <2>1. StatusOf(u) \notin Contract!Pending
    BY <1>1, <1>7 DEF StatusOf, Contract!Pending
  <2>2. StatusOf(u)' = StatusOf(u)
    BY <1>1, <1>4, <1>7 DEF StatusOf
  <2> QED
    BY <1>1, <1>3, <1>5, <2>1, <2>2 DEF Contract!Cancel
<1> QED
  BY <1>6, <1>7

\* Popping an active entry is the contract's Fire.
LEMMA PopStep ==
  ASSUME IInv, Pop
  PROVE  UNCHANGED Contract!vars \/ \E t \in Timers : Contract!Fire(t)
<1> USE DEF Pop
<1>1. CASE UNCHANGED <<active, inflight, fired>> /\ queue' \subseteq queue
           /\ \A e \in queue \ queue' : e.id \notin active
  <2>1. \A t \in Timers : StatusOf(t)' = StatusOf(t)
    BY <1>1 DEF StatusOf
  <2> QED
    BY <2>1, Stutter
<1>2. ASSUME NEW e \in Tops, e.deadline <= now, queue' = queue \ {e}, e.id \in active,
             active' = active \ {e.id}, inflight' = e.id, fired' = fired \cup {e.id}
      PROVE  Contract!Fire(e.id)
  <2>1. e \in queue /\ e.id \in Timers /\ inflight = Invalid /\ e.id # inflight
    BY <1>2 DEF IInv, SafeInv, TypeOK, HeapInv, Tops, Timers, Invalid
  <2>2. StatusOf(e.id) = "due"
    BY <1>2, <2>1 DEF StatusOf
  <2>3. StatusOf(e.id)' = "inflight"
    BY <1>2 DEF StatusOf
  <2>4. ASSUME NEW t \in Timers, t # e.id PROVE StatusOf(t)' = StatusOf(t)
    <3>1. (\E f \in queue' : f.id = t /\ f.deadline <= now) <=>
          (\E f \in queue : f.id = t /\ f.deadline <= now)
      BY <1>2, <2>4
    <3> QED
      BY <1>2, <2>1, <2>4, <3>1 DEF StatusOf, Timers, Invalid
  <2> QED
    BY <2>1, <2>2, <2>3, <2>4 DEF Contract!Fire
<1>3. \A e \in Tops : e \in queue /\ e.id \in Timers
  BY DEF Tops, IInv, SafeInv, TypeOK
<1> QED
  BY <1>1, <1>2, <1>3

\* Clearing _inflightId is the contract's Return.
LEMMA ClearStep ==
  ASSUME IInv, ClearInflight
  PROVE  Contract!Return(inflight)
<1> USE DEF ClearInflight, NotifyDone, WakeCallers, Blocked, history, Go
<1>1. inflight \in Timers /\ inflight \in fired /\ inflight \notin active
  BY DEF IInv, SafeInv, TypeOK, HeapInv, Invalid
<1>2. \A t \in Timers :
        (\A b \in Callers : call'[b].op = "insert" => call'[b].id # t) <=>
        (\A b \in Callers : call[b].op = "insert" => call[b].id # t)
  BY DEF IInv, SafeInv, TypeOK
<1>3. StatusOf(inflight) = "inflight"
  BY DEF StatusOf
<1>4. ASSUME NEW t \in Timers
      PROVE  StatusOf(t)' = IF t = inflight THEN "fired" ELSE StatusOf(t)
  BY <1>1, <1>2, <1>4 DEF StatusOf, Timers, Invalid
<1> QED
  BY <1>1, <1>3, <1>4, Zenon DEF Contract!Return

\* A tick of the clock passes the deadlines of some armed timers.
LEMMA ClockStep ==
  ASSUME IInv, ClockTick
  PROVE  \E S \in SUBSET Timers : Contract!DeadlinesPass(S)
<1> DEFINE S == {t \in Timers : StatusOf(t) = "armed" /\ StatusOf(t)' = "due"}
<1> USE DEF ClockTick, shared, history
<1>1. ASSUME NEW t \in Timers
      PROVE  StatusOf(t)' = IF t \in S THEN "due" ELSE StatusOf(t)
  <2>1. (\E e \in queue : e.id = t /\ e.deadline <= now) =>
        (\E e \in queue' : e.id = t /\ e.deadline <= now')
    BY DEF IInv, SafeInv, TypeOK, Time
  <2> QED
    BY <2>1 DEF StatusOf
<1>2. Contract!DeadlinesPass(S)
  BY <1>1 DEF Contract!DeadlinesPass
<1> QED
  BY <1>2

\* Every step of the thread backend is a step of the contract or a stutter.
LEMMA RefinementStep == IInv /\ [Next]_vars => [Contract!Next]_Contract!vars
<1> SUFFICES ASSUME IInv, [Next]_vars PROVE Contract!Next \/ UNCHANGED Contract!vars
  OBVIOUS
<1>1. ASSUME NEW c \in Callers, NEW d \in Time, ScheduleAt(c, d)
      PROVE  UNCHANGED Contract!vars
  BY <1>1, TakeIdStep
<1>2. ASSUME NEW c \in Callers, Insert(c) PROVE Contract!Next
  <2>1. call[c].id \in Timers
    BY <1>2 DEF IInv, SafeInv, InsertInv, Insert
  <2> QED
    BY <1>2, <2>1, InsertStep DEF Contract!Next
<1>3. ASSUME NEW c \in Callers, CancelReturn(c) PROVE Contract!Next
  <2>1. call[c].id \in Timers
    BY <1>3 DEF IInv, SafeInv, CallInv, CancelReturn
  <2> QED
    BY <1>3, <2>1, CancelStep DEF Contract!Next
<1>4. CASE Pop
  BY <1>4, PopStep DEF Contract!Next
<1>5. CASE ClearInflight
  <2>1. inflight \in Timers
    BY <1>5 DEF IInv, SafeInv, TypeOK, HeapInv, ClearInflight, Go, Invalid
  <2> QED
    BY <1>5, <2>1, ClearStep DEF Contract!Next
<1>6. CASE ClockTick
  BY <1>6, ClockStep DEF Contract!Next
<1>7. CASE \/ \E c \in Callers, t \in Timers : CancelCall(c, t)
           \/ \E c \in Callers : NotifyOne(c) \/ CancelBlock(c)
  <2>1. /\ UNCHANGED <<now, queue, active, inflight, nextId, fired, released>>
        /\ \A c \in Callers : call'[c].op = "insert" <=> call[c].op = "insert"
        /\ \A c \in Callers : call[c].op = "insert" => call'[c].id = call[c].id
    BY <1>7 DEF IInv, SafeInv, TypeOK, CancelCall, CanCall, NotifyOne, CancelBlock, Idle,
            shared, history
  <2> QED
    BY <2>1, QuietStep
<1>8. CASE \/ Lock \/ Check \/ WaitPredicate \/ Sleep \/ SpuriousWakeup \/ Timeout
           \/ WaitUntilReturns \/ CallbackReturns \/ Destroy \/ NotifyAll \/ Join
           \/ UNCHANGED vars
  <2>1. UNCHANGED <<now, queue, active, inflight, nextId, fired, released, call>>
    BY <1>8 DEF Lock, Check, WaitPredicate, Sleep, SpuriousWakeup, Timeout, WaitUntilReturns,
       CallbackReturns, Destroy, NotifyAll, Join, Rest, shared, history, vars
  <2> QED
    BY <2>1, QuietStep
<1> QED
  BY <1>1, <1>2, <1>3, <1>4, <1>5, <1>6, <1>7, <1>8 DEF Next, CallStep, RunTimerThread

\* ThreadTimerBackend implements ITimerBackend's contract: callbacks run at most
\* once and not early, and Cancel() returns only for a callback that is not
\* running and never will.
THEOREM Refinement == Spec => ImplementsTimerBackend
<1>1. Init => Contract!Init
  BY ThreadTimerAssumption DEF Init, Contract!Init, StatusOf, Timers, Invalid
<1>2. IInv /\ [Next]_vars => [Contract!Next]_Contract!vars
  BY RefinementStep
<1> QED
  BY <1>1, <1>2, Invariance, PTL DEF Spec, ImplementsTimerBackend, Contract!Spec

\* The contract alone keeps what a caller of Cancel() relies on.
LEMMA ContractStep ==
  ASSUME Contract!TypeOK, Contract!Quiescent, [Contract!Next]_Contract!vars
  PROVE  Contract!TypeOK' /\ Contract!Quiescent'
<1> USE DEF Contract!TypeOK, Contract!Quiescent, Contract!Pending, Contract!Done
<1>1. ASSUME NEW S \in SUBSET Timers, Contract!DeadlinesPass(S)
      PROVE  Contract!TypeOK' /\ Contract!Quiescent'
  BY <1>1, Zenon DEF Contract!DeadlinesPass
<1>2. ASSUME NEW t \in Timers, Contract!ScheduleAt(t)
      PROVE  Contract!TypeOK' /\ Contract!Quiescent'
  BY <1>2, Zenon DEF Contract!ScheduleAt
<1>3. ASSUME NEW t \in Timers, Contract!Fire(t)
      PROVE  Contract!TypeOK' /\ Contract!Quiescent'
  BY <1>3, Zenon DEF Contract!Fire
<1>4. ASSUME NEW t \in Timers, Contract!Return(t)
      PROVE  Contract!TypeOK' /\ Contract!Quiescent'
  BY <1>4, Zenon DEF Contract!Return
<1>5. ASSUME NEW t \in Timers, Contract!Cancel(t)
      PROVE  Contract!TypeOK' /\ Contract!Quiescent'
  BY <1>5, Zenon DEF Contract!Cancel
<1>6. CASE UNCHANGED Contract!vars
  BY <1>6 DEF Contract!vars
<1> QED
  BY <1>1, <1>2, <1>3, <1>4, <1>5, <1>6 DEF Contract!Next

\* What TimedOperation relies on when it frees what its callback uses: once Cancel()
\* of the thread backend has returned for a timer, its callback is not running and
\* cannot run.
THEOREM CancelQuiesces == Spec => []Contract!Quiescent
<1>1. Contract!Init => Contract!TypeOK /\ Contract!Quiescent
  BY DEF Contract!Init, Contract!TypeOK, Contract!Quiescent, Contract!Pending, Contract!Done
<1>2. Contract!TypeOK /\ Contract!Quiescent /\ [Contract!Next]_Contract!vars
      => Contract!TypeOK' /\ Contract!Quiescent'
  BY ContractStep
<1>3. Contract!Spec => []Contract!Quiescent
  BY <1>1, <1>2, PTL DEF Contract!Spec
<1> QED
  BY <1>3, Refinement, PTL DEF ImplementsTimerBackend

-----------------------------------------------------------------------------
(* LoopTimerBackend *)

\* What LoopTimerBackend has besides a clock, ids and the two histories.
VARIABLES entries, ticking, snapshot, running

Loop == INSTANCE LoopTimerBackend

\* Types.
Entry == [deadline : Loop!Time, id : Loop!Timers]

LoopTypeOK ==
    /\ now \in Nat /\ entries \in Seq(Entry) /\ nextId \in Nat \ {0}
    /\ ticking \in BOOLEAN /\ snapshot \in Nat /\ running \in Loop!Timers \cup {Loop!Invalid}
    /\ fired \in SUBSET Loop!Timers /\ released \in SUBSET Loop!Timers

\* What the vector holds, and that no id is in it twice.
Held(s)  == {s[i] : i \in DOMAIN s}
Apart(s) == \A i, j \in DOMAIN s : s[i].id = s[j].id => i = j

\* An id in the vector was handed out and has not fired; the id that runs has left
\* the vector; the snapshot of Tick() is not ahead of the clock.
LoopIdInv ==
    /\ Apart(entries)
    /\ \A e \in Held(entries) : e.id < nextId /\ e.id # running /\ e.id \notin fired
    /\ \A t \in fired : t < nextId
    /\ running # Loop!Invalid => running \in fired
    /\ snapshot <= now

LoopInv == LoopTypeOK /\ LoopIdInv

-----------------------------------------------------------------------------
\* Two sequences one after the other.
LEMMA Joined ==
    ASSUME NEW a \in Seq(Entry), NEW b \in Seq(Entry)
    PROVE  /\ a \o b \in Seq(Entry) /\ Len(a \o b) = Len(a) + Len(b)
           /\ \A i \in 1 .. Len(a) : (a \o b)[i] = a[i]
           /\ \A i \in 1 .. Len(b) : (a \o b)[Len(a) + i] = b[i]
<1>1. a \o b \in Seq(Entry) /\ Len(a \o b) = Len(a) + Len(b) BY ConcatProperties, Zenon
<1>2. \A i \in 1 .. (Len(a) + Len(b)) : (a \o b)[i] = IF i <= Len(a) THEN a[i] ELSE b[i - Len(a)]
  BY ConcatProperties, Zenon
<1>3. Len(a) \in Nat /\ Len(b) \in Nat OBVIOUS
<1>4. ASSUME NEW i \in 1 .. Len(a) PROVE (a \o b)[i] = a[i]
  <2>1. i \in 1 .. (Len(a) + Len(b)) /\ i <= Len(a) BY <1>3
  <2> QED BY <1>2, <2>1, Zenon
<1>5. ASSUME NEW i \in 1 .. Len(b) PROVE (a \o b)[Len(a) + i] = b[i]
  <2>1. /\ Len(a) + i \in 1 .. (Len(a) + Len(b)) /\ ~(Len(a) + i <= Len(a))
        /\ (Len(a) + i) - Len(a) = i
    BY <1>3
  <2>2. (a \o b)[Len(a) + i] = b[(Len(a) + i) - Len(a)] BY <1>2, <2>1, Zenon
  <2> QED BY <2>1, <2>2, Zenon
<1> QED BY <1>1, <1>4, <1>5, Zenon

\* The elements of a vector up to a place and from a place on.
LEMMA Parts ==
    ASSUME NEW s \in Seq(Entry), NEW k \in 1 .. (Len(s) + 1)
    PROVE  /\ SubSeq(s, 1, k - 1) \in Seq(Entry) /\ Len(SubSeq(s, 1, k - 1)) = k - 1
           /\ \A i \in 1 .. (k - 1) : SubSeq(s, 1, k - 1)[i] = s[i]
           /\ SubSeq(s, k, Len(s)) \in Seq(Entry) /\ Len(SubSeq(s, k, Len(s))) = (Len(s) - k) + 1
           /\ \A i \in 1 .. ((Len(s) - k) + 1) : SubSeq(s, k, Len(s))[i] = s[(k - 1) + i]
<1>1. Len(s) \in Nat /\ k \in Nat /\ k >= 1 /\ k <= Len(s) + 1
      /\ \A i \in 1 .. Len(s) : s[i] \in Entry
  OBVIOUS
<1>2. SubSeq(s, 1, k - 1) \in Seq(Entry) /\ Len(SubSeq(s, 1, k - 1)) = k - 1
      /\ \A i \in 1 .. (k - 1) : SubSeq(s, 1, k - 1)[i] = s[i]
  BY <1>1
<1>3. SubSeq(s, k, Len(s)) \in Seq(Entry) /\ Len(SubSeq(s, k, Len(s))) = (Len(s) - k) + 1
      /\ \A i \in 1 .. ((Len(s) - k) + 1) : SubSeq(s, k, Len(s))[i] = s[(k - 1) + i]
  BY <1>1
<1> QED BY <1>2, <1>3, Zenon

\* Vector insert().
LEMMA Inserted ==
    ASSUME NEW s \in Seq(Entry), NEW k \in 1 .. (Len(s) + 1), NEW e \in Entry
    PROVE  /\ Loop!Insert(s, k, e) \in Seq(Entry) /\ Len(Loop!Insert(s, k, e)) = Len(s) + 1
           /\ \A i \in 1 .. (k - 1) : Loop!Insert(s, k, e)[i] = s[i]
           /\ Loop!Insert(s, k, e)[k] = e
           /\ \A i \in k .. Len(s) : Loop!Insert(s, k, e)[i + 1] = s[i]
<1> DEFINE a == SubSeq(s, 1, k - 1)
           b == SubSeq(s, k, Len(s))
           c == a \o <<e>>
<1>1. Len(s) \in Nat /\ k \in Nat /\ k >= 1 /\ k <= Len(s) + 1 OBVIOUS
<1>2. a \in Seq(Entry) /\ Len(a) = k - 1 /\ \A i \in 1 .. (k - 1) : a[i] = s[i] BY Parts, Zenon
<1>3. b \in Seq(Entry) /\ Len(b) = (Len(s) - k) + 1
      /\ \A i \in 1 .. ((Len(s) - k) + 1) : b[i] = s[(k - 1) + i]
  BY Parts, Zenon
<1>4. <<e>> \in Seq(Entry) /\ Len(<<e>>) = 1 /\ <<e>>[1] = e OBVIOUS
<1> HIDE DEF a, b
<1>5. /\ c \in Seq(Entry) /\ Len(c) = Len(a) + Len(<<e>>)
      /\ \A i \in 1 .. Len(a) : c[i] = a[i]
      /\ \A i \in 1 .. Len(<<e>>) : c[Len(a) + i] = <<e>>[i]
  <2>1. a \in Seq(Entry) /\ <<e>> \in Seq(Entry) BY <1>2, <1>4, Zenon
  <2> HIDE DEF c
  <2> QED BY <2>1, Joined, Zenon DEF c
<1>6. c[k] = e
  <2>1. 1 \in 1 .. Len(<<e>>) /\ Len(a) + 1 = k BY <1>1, <1>2, <1>4
  <2>2. c[Len(a) + 1] = <<e>>[1] BY <1>5, <2>1, Zenon
  <2> QED BY <1>4, <2>1, <2>2, Zenon
<1> HIDE DEF c
<1>7. /\ c \o b \in Seq(Entry) /\ Len(c \o b) = Len(c) + Len(b)
      /\ \A i \in 1 .. Len(c) : (c \o b)[i] = c[i]
      /\ \A i \in 1 .. Len(b) : (c \o b)[Len(c) + i] = b[i]
  <2>1. c \in Seq(Entry) /\ b \in Seq(Entry) BY <1>3, <1>5, Zenon
  <2> QED BY <2>1, Joined, Zenon
<1>8. Loop!Insert(s, k, e) = c \o b BY Zenon DEF Loop!Insert, a, b, c
<1>9. Len(c) = k /\ Len(c \o b) = Len(s) + 1 BY <1>1, <1>2, <1>3, <1>4, <1>5, <1>7
<1>10. ASSUME NEW i \in 1 .. (k - 1) PROVE (c \o b)[i] = s[i]
  <2>1. i \in 1 .. Len(c) /\ i \in 1 .. Len(a) BY <1>1, <1>2, <1>9
  <2> QED BY <1>2, <1>5, <1>7, <2>1, Zenon
<1>11. (c \o b)[k] = e
  <2>1. k \in 1 .. Len(c) BY <1>1, <1>9
  <2> QED BY <1>6, <1>7, <2>1, Zenon
<1>12. ASSUME NEW i \in k .. Len(s) PROVE (c \o b)[i + 1] = s[i]
  <2> DEFINE m == (i - k) + 1
  <2>1. m \in 1 .. Len(b) /\ m \in 1 .. ((Len(s) - k) + 1) /\ Len(c) + m = i + 1 /\ (k - 1) + m = i
    BY <1>1, <1>3, <1>9
  <2> HIDE DEF m
  <2>2. (c \o b)[Len(c) + m] = s[(k - 1) + m] BY <1>3, <1>7, <2>1, Zenon
  <2> QED BY <2>1, <2>2, Zenon
<1> QED BY <1>7, <1>8, <1>9, <1>10, <1>11, <1>12, Zenon

\* Vector erase().
LEMMA Removed ==
    ASSUME NEW s \in Seq(Entry), NEW k \in 1 .. Len(s)
    PROVE  /\ Loop!Erase(s, k) \in Seq(Entry) /\ Len(Loop!Erase(s, k)) = Len(s) - 1
           /\ \A i \in 1 .. (k - 1) : Loop!Erase(s, k)[i] = s[i]
           /\ \A i \in k .. (Len(s) - 1) : Loop!Erase(s, k)[i] = s[i + 1]
<1> DEFINE a == SubSeq(s, 1, k - 1)
           b == SubSeq(s, k + 1, Len(s))
<1>1. Len(s) \in Nat /\ k \in Nat /\ k >= 1 /\ k <= Len(s)
      /\ k \in 1 .. (Len(s) + 1) /\ k + 1 \in 1 .. (Len(s) + 1)
  OBVIOUS
<1>2. a \in Seq(Entry) /\ Len(a) = k - 1 /\ \A i \in 1 .. (k - 1) : a[i] = s[i] BY <1>1, Parts, Zenon
<1>3. b \in Seq(Entry) /\ Len(b) = (Len(s) - (k + 1)) + 1
      /\ \A i \in 1 .. ((Len(s) - (k + 1)) + 1) : b[i] = s[((k + 1) - 1) + i]
  BY <1>1, Parts, Zenon
<1> HIDE DEF a, b
<1>4. /\ a \o b \in Seq(Entry) /\ Len(a \o b) = Len(a) + Len(b)
      /\ \A i \in 1 .. Len(a) : (a \o b)[i] = a[i]
      /\ \A i \in 1 .. Len(b) : (a \o b)[Len(a) + i] = b[i]
  <2>1. a \in Seq(Entry) /\ b \in Seq(Entry) BY <1>2, <1>3, Zenon
  <2> QED BY <2>1, Joined, Zenon
<1>5. Loop!Erase(s, k) = a \o b BY Zenon DEF Loop!Erase, a, b
<1>6. Len(a \o b) = Len(s) - 1 BY <1>1, <1>2, <1>3, <1>4
<1>7. \A i \in 1 .. (k - 1) : (a \o b)[i] = s[i] BY <1>2, <1>4, Zenon
<1>8. ASSUME NEW i \in k .. (Len(s) - 1) PROVE (a \o b)[i] = s[i + 1]
  <2> DEFINE m == (i - k) + 1
  <2>1. /\ m \in 1 .. Len(b) /\ m \in 1 .. ((Len(s) - (k + 1)) + 1)
        /\ Len(a) + m = i /\ ((k + 1) - 1) + m = i + 1
    BY <1>1, <1>2, <1>3
  <2> HIDE DEF m
  <2>2. (a \o b)[Len(a) + m] = s[((k + 1) - 1) + m] BY <1>3, <1>4, <2>1, Zenon
  <2> QED BY <2>1, <2>2, Zenon
<1> QED BY <1>4, <1>5, <1>6, <1>7, <1>8, Zenon

\* What a vector of entries holds are entries.
LEMMA HeldEntry == ASSUME NEW s \in Seq(Entry), NEW e \in Held(s) PROVE e \in Entry
<1>1. \A i \in DOMAIN s : s[i] \in Entry OBVIOUS
<1> QED BY <1>1, Zenon DEF Held

\* An entry with a new id joins the others.
LEMMA InsertHeld ==
    ASSUME NEW s \in Seq(Entry), NEW k \in 1 .. (Len(s) + 1), NEW e \in Entry,
           Apart(s), \A f \in Held(s) : f.id # e.id
    PROVE  /\ Loop!Insert(s, k, e) \in Seq(Entry)
           /\ Held(Loop!Insert(s, k, e)) = Held(s) \cup {e}
           /\ Apart(Loop!Insert(s, k, e))
<1> DEFINE n == Loop!Insert(s, k, e)
           from(i) == IF i < k THEN i ELSE i - 1
           moved(i) == IF i < k THEN i ELSE i + 1
<1>1. /\ n \in Seq(Entry) /\ Len(n) = Len(s) + 1
      /\ \A i \in 1 .. (k - 1) : n[i] = s[i]
      /\ n[k] = e
      /\ \A i \in k .. Len(s) : n[i + 1] = s[i]
  BY Inserted, ZenonT(30)
<1> HIDE DEF n
<1>2. /\ Len(s) \in Nat /\ DOMAIN s = 1 .. Len(s) /\ DOMAIN n = 1 .. (Len(s) + 1)
      /\ k \in Nat /\ k >= 1 /\ k <= Len(s) + 1
  BY <1>1
<1>3. ASSUME NEW i \in DOMAIN n, i # k PROVE from(i) \in DOMAIN s /\ n[i] = s[from(i)]
  <2>1. CASE i < k BY <1>1, <1>2, <2>1
  <2>2. CASE i > k
    <3>1. from(i) = i - 1 /\ i - 1 \in k .. Len(s) /\ i - 1 \in DOMAIN s /\ (i - 1) + 1 = i
      BY <1>2, <2>2
    <3> HIDE DEF from
    <3> QED BY <1>1, <3>1, Zenon
  <2> QED BY <1>2, <1>3, <2>1, <2>2
<1>4. ASSUME NEW i \in DOMAIN n, NEW j \in DOMAIN n, i # k, j # k, from(i) = from(j) PROVE i = j
  BY <1>2, <1>4
<1>5. ASSUME NEW i \in DOMAIN s PROVE moved(i) \in DOMAIN n /\ moved(i) # k /\ n[moved(i)] = s[i]
  <2>1. CASE i < k BY <1>1, <1>2, <2>1
  <2>2. CASE i >= k BY <1>1, <1>2, <2>2
  <2> QED BY <1>2, <2>1, <2>2
<1> HIDE DEF from, moved
<1>6. k \in DOMAIN n BY <1>2
<1>7. Held(n) = Held(s) \cup {e}
  <2>1. ASSUME NEW i \in DOMAIN n PROVE n[i] \in Held(s) \cup {e}
    <3>1. CASE i = k BY <1>1, <3>1, Zenon
    <3>2. CASE i # k BY <1>3, <3>2, Zenon DEF Held
    <3> QED BY <3>1, <3>2, Zenon
  <2>2. ASSUME NEW i \in DOMAIN s PROVE s[i] \in Held(n) BY <1>5, Zenon DEF Held
  <2>3. e \in Held(n) BY <1>1, <1>6, Zenon DEF Held
  <2> QED BY <2>1, <2>2, <2>3, Zenon DEF Held
<1>8. ASSUME NEW i \in DOMAIN n, NEW j \in DOMAIN n, n[i].id = n[j].id PROVE i = j
  <2>1. \A m \in DOMAIN s : s[m].id # e.id BY Zenon DEF Held
  <2>2. CASE i # k /\ j # k
    <3>1. s[from(i)].id = s[from(j)].id /\ from(i) \in DOMAIN s /\ from(j) \in DOMAIN s
      BY <1>3, <1>8, <2>2, Zenon
    <3>2. from(i) = from(j) BY <3>1, Zenon DEF Apart
    <3> QED BY <1>4, <2>2, <3>2, Zenon
  <2>3. CASE i = k /\ j # k BY <1>1, <1>3, <1>8, <2>1, <2>3, Zenon
  <2>4. CASE i # k /\ j = k BY <1>1, <1>3, <1>8, <2>1, <2>4, Zenon
  <2> QED BY <2>2, <2>3, <2>4, Zenon
<1> QED BY <1>1, <1>7, <1>8, Zenon DEF n, Apart

\* The others stay when the entry at k is erased.
LEMMA RemoveHeld ==
    ASSUME NEW s \in Seq(Entry), NEW k \in 1 .. Len(s), Apart(s)
    PROVE  /\ Loop!Erase(s, k) \in Seq(Entry)
           /\ Held(Loop!Erase(s, k)) = Held(s) \ {s[k]}
           /\ Apart(Loop!Erase(s, k))
<1> DEFINE n == Loop!Erase(s, k)
           from(i) == IF i < k THEN i ELSE i + 1
           moved(i) == IF i < k THEN i ELSE i - 1
<1>1. /\ n \in Seq(Entry) /\ Len(n) = Len(s) - 1
      /\ \A i \in 1 .. (k - 1) : n[i] = s[i]
      /\ \A i \in k .. (Len(s) - 1) : n[i] = s[i + 1]
  BY Removed, Zenon
<1> HIDE DEF n
<1>2. /\ Len(s) \in Nat /\ DOMAIN s = 1 .. Len(s) /\ DOMAIN n = 1 .. (Len(s) - 1)
      /\ k \in Nat /\ k >= 1 /\ k <= Len(s) /\ k \in DOMAIN s
  BY <1>1
<1>3. ASSUME NEW i \in DOMAIN n
      PROVE  from(i) \in DOMAIN s /\ from(i) # k /\ n[i] = s[from(i)]
  <2>1. CASE i < k BY <1>1, <1>2, <2>1
  <2>2. CASE i >= k BY <1>1, <1>2, <2>2
  <2> QED BY <1>2, <2>1, <2>2
<1>4. ASSUME NEW i \in DOMAIN n, NEW j \in DOMAIN n, from(i) = from(j) PROVE i = j
  BY <1>2, <1>4
<1>5. ASSUME NEW i \in DOMAIN s, i # k PROVE moved(i) \in DOMAIN n /\ n[moved(i)] = s[i]
  <2>1. CASE i < k BY <1>1, <1>2, <2>1
  <2>2. CASE i > k
    <3>1. moved(i) = i - 1 /\ i - 1 \in k .. (Len(s) - 1) /\ i - 1 \in DOMAIN n /\ (i - 1) + 1 = i
      BY <1>2, <2>2
    <3> HIDE DEF moved
    <3> QED BY <1>1, <3>1, Zenon
  <2> QED BY <1>2, <1>5, <2>1, <2>2
<1> HIDE DEF from, moved
<1>6. \A i \in DOMAIN s : i # k => s[i] # s[k] BY <1>2, Zenon DEF Apart
<1>7. Held(n) = Held(s) \ {s[k]}
  <2>1. ASSUME NEW i \in DOMAIN n PROVE n[i] \in Held(s) \ {s[k]}
    <3>1. n[i] = s[from(i)] /\ from(i) \in DOMAIN s /\ s[from(i)] # s[k] BY <1>3, <1>6, Zenon
    <3> QED BY <3>1, Zenon DEF Held
  <2>2. ASSUME NEW i \in DOMAIN s, s[i] # s[k] PROVE s[i] \in Held(n)
    <3>1. i # k BY <2>2, Zenon
    <3> QED BY <1>5, <3>1, Zenon DEF Held
  <2> QED BY <2>1, <2>2, Zenon DEF Held
<1>8. ASSUME NEW i \in DOMAIN n, NEW j \in DOMAIN n, n[i].id = n[j].id PROVE i = j
  <2>1. s[from(i)].id = s[from(j)].id /\ from(i) \in DOMAIN s /\ from(j) \in DOMAIN s
    BY <1>3, <1>8, Zenon
  <2>2. from(i) = from(j) BY <2>1, Zenon DEF Apart
  <2> QED BY <1>4, <2>2, Zenon
<1> QED BY <1>1, <1>7, <1>8, Zenon DEF n, Apart

\* Moving the front out is erasing at the first place.
LEMMA FrontHeld ==
    ASSUME NEW s \in Seq(Entry), s # <<>>, Apart(s)
    PROVE  /\ Head(s) \in Held(s)
           /\ Tail(s) \in Seq(Entry) /\ Held(Tail(s)) = Held(s) \ {Head(s)} /\ Apart(Tail(s))
<1>1. 1 \in 1 .. Len(s) /\ 1 \in DOMAIN s /\ Head(s) = s[1] OBVIOUS
<1>2. Tail(s) = Loop!Erase(s, 1)
  <2>1. SubSeq(s, 1, 0) = <<>> /\ Tail(s) = SubSeq(s, 2, Len(s)) BY SubSeqEmpty, TailIsSubSeq
  <2>2. <<>> \o Tail(s) = Tail(s) BY ConcatEmptySeq, HeadTailProperties
  <2> QED BY <2>1, <2>2 DEF Loop!Erase
<1>3. Head(s) \in Held(s) BY <1>1, Zenon DEF Held
<1>4. /\ Loop!Erase(s, 1) \in Seq(Entry) /\ Held(Loop!Erase(s, 1)) = Held(s) \ {s[1]}
      /\ Apart(Loop!Erase(s, 1))
  BY <1>1, RemoveHeld, Zenon
<1> QED BY <1>1, <1>2, <1>3, <1>4, Zenon

\* std::lower_bound returns a place of the vector or its end.
LEMMA LowerBoundIn == ASSUME LoopTypeOK, NEW d PROVE Loop!LowerBound(d) \in 1 .. (Len(entries) + 1)
<1> DEFINE n == Len(entries)
           before == {i \in DOMAIN entries : entries[i].deadline < d}
<1>1. n \in Nat /\ DOMAIN entries = 1 .. n BY DEF LoopTypeOK
<1> HIDE DEF n
<1>2. IsFiniteSet(1 .. n) /\ Cardinality(1 .. n) = n BY <1>1, FS_Interval
<1>3. before \subseteq 1 .. n BY <1>1
<1> HIDE DEF before
<1>4. IsFiniteSet(before) /\ Cardinality(before) <= n BY <1>2, <1>3, FS_Subset, Zenon
<1>5. Cardinality(before) \in Nat BY <1>4, FS_CardinalityType
<1>6. Loop!LowerBound(d) = Cardinality(before) + 1
  BY DEF Loop!LowerBound, Loop!Cardinality, Cardinality, before
<1> QED BY <1>1, <1>4, <1>5, <1>6 DEF n

-----------------------------------------------------------------------------
(* The steps *)

\* ScheduleAt() adds an entry with an id that was never used.
LEMMA LoopScheduleStep ==
    ASSUME LoopInv, NEW d \in Loop!Time, Loop!ScheduleAt(d)
    PROVE  /\ LoopInv' /\ nextId \in Loop!Timers
           /\ Held(entries') = Held(entries) \cup {[deadline |-> d, id |-> nextId]}
<1> DEFINE e == [deadline |-> d, id |-> nextId]
<1>1. /\ nextId <= MaxTimers /\ nextId' = nextId + 1
      /\ entries' = Loop!Insert(entries, Loop!LowerBound(d), e)
      /\ UNCHANGED <<now, ticking, snapshot, running, fired, released>>
  BY Zenon DEF Loop!ScheduleAt, Loop!FreshId, Loop!tick
<1>2. entries \in Seq(Entry) /\ nextId \in Nat /\ nextId >= 1 /\ Apart(entries)
  BY DEF LoopInv, LoopTypeOK, LoopIdInv
<1>3. nextId \in Loop!Timers BY <1>1, <1>2, ThreadTimerAssumption DEF Loop!Timers
<1>4. e \in Entry BY <1>3 DEF Entry
<1>5. e.id = nextId OBVIOUS
<1> HIDE DEF e
<1>6. ASSUME NEW f \in Held(entries) PROVE f.id # nextId /\ f.id \in Nat /\ f.id < nextId'
  <2>1. f \in Entry BY <1>2, HeldEntry, Zenon
  <2>2. f.id \in Nat BY <2>1, ThreadTimerAssumption DEF Entry, Loop!Timers
  <2>3. f.id < nextId BY Zenon DEF LoopInv, LoopIdInv
  <2> QED BY <1>1, <1>2, <2>2, <2>3
<1>7. Loop!LowerBound(d) \in 1 .. (Len(entries) + 1) BY LowerBoundIn, Zenon DEF LoopInv
<1>8. entries' \in Seq(Entry) /\ Held(entries') = Held(entries) \cup {e} /\ Apart(entries')
  BY <1>1, <1>2, <1>4, <1>5, <1>6, <1>7, InsertHeld, ZenonT(30)
<1>9. LoopTypeOK' BY <1>1, <1>2, <1>8 DEF LoopInv, LoopTypeOK
<1>10. \A t \in fired : t < nextId /\ t < nextId' /\ t # nextId
  BY <1>1, <1>2, ThreadTimerAssumption DEF LoopInv, LoopTypeOK, LoopIdInv, Loop!Timers
<1>11. nextId # running
  <2>1. running # Loop!Invalid => running # nextId BY <1>10, Zenon DEF LoopInv, LoopIdInv
  <2> QED BY <1>2, <2>1 DEF Loop!Invalid
<1>12. \A f \in Held(entries') : f.id < nextId' /\ f.id # running /\ f.id \notin fired
  <2>1. nextId < nextId' BY <1>1, <1>2
  <2> QED BY <1>5, <1>6, <1>8, <1>10, <1>11, <2>1, Zenon DEF LoopInv, LoopIdInv
<1>13. LoopIdInv' BY <1>1, <1>8, <1>10, <1>12, Zenon DEF LoopInv, LoopIdInv
<1> QED BY <1>3, <1>8, <1>9, <1>13, Zenon DEF LoopInv, e

\* Cancel() erases the entry of its timer, if there is one.
LEMMA LoopCancelStep ==
    ASSUME LoopInv, NEW t \in Loop!Timers, Loop!Cancel(t)
    PROVE  LoopInv' /\ Held(entries') = {e \in Held(entries) : e.id # t}
<1>1. UNCHANGED <<now, nextId, ticking, snapshot, running, fired>> /\ released' = released \cup {t}
  BY Zenon DEF Loop!Cancel, Loop!tick
<1>2. entries \in Seq(Entry) /\ Apart(entries) /\ DOMAIN entries = 1 .. Len(entries)
  BY DEF LoopInv, LoopTypeOK, LoopIdInv
<1>3. entries' \in Seq(Entry) /\ Held(entries') = {e \in Held(entries) : e.id # t} /\ Apart(entries')
  <2>1. CASE Loop!Find(t) = {}
    <3>1. entries' = entries BY <2>1, Zenon DEF Loop!Cancel
    <3>2. \A i \in DOMAIN entries : entries[i].id # t BY <2>1, Zenon DEF Loop!Find
    <3>3. \A e \in Held(entries) : e.id # t BY <3>2, Zenon DEF Held
    <3> QED BY <1>2, <3>1, <3>3, Zenon
  <2>2. CASE Loop!Find(t) # {}
    <3>1. PICK i \in Loop!Find(t) : entries' = Loop!Erase(entries, i) BY <2>2, Zenon DEF Loop!Cancel
    <3>2. i \in DOMAIN entries /\ entries[i].id = t /\ i \in 1 .. Len(entries)
      BY <1>2, <3>1, Zenon DEF Loop!Find
    <3>3. /\ entries' \in Seq(Entry) /\ Held(entries') = Held(entries) \ {entries[i]}
          /\ Apart(entries')
      BY <1>2, <3>1, <3>2, RemoveHeld, Zenon
    <3>4. \A e \in Held(entries) : e.id = t <=> e = entries[i] BY <1>2, <3>2, Zenon DEF Held, Apart
    <3> QED BY <3>3, <3>4, Zenon
  <2> QED BY <2>1, <2>2, Zenon
<1>4. LoopTypeOK' BY <1>1, <1>3 DEF LoopInv, LoopTypeOK
<1>5. LoopIdInv' BY <1>1, <1>3, Zenon DEF LoopInv, LoopIdInv
<1> QED BY <1>3, <1>4, <1>5, Zenon DEF LoopInv

\* Tick() invokes the callback of an entry that is due.
LEMMA LoopFireStep ==
    ASSUME LoopInv, Loop!TickFire
    PROVE  /\ LoopInv' /\ running = Loop!Invalid
           /\ \E e \in Held(entries) :
                /\ e.deadline <= now /\ e.id \in Loop!Timers
                /\ running' = e.id /\ fired' = fired \cup {e.id}
                /\ Held(entries') = {f \in Held(entries) : f.id # e.id}
<1> DEFINE e == Head(entries)
<1>1. /\ running = Loop!Invalid /\ running' = e.id /\ entries' = Tail(entries)
      /\ fired' = fired \cup {e.id}
      /\ entries # <<>> /\ e.deadline <= snapshot
      /\ UNCHANGED <<now, nextId, ticking, snapshot, released>>
  BY Zenon DEF Loop!TickFire, Loop!FrontDue, Loop!tick
<1>2. entries \in Seq(Entry) /\ Apart(entries) BY DEF LoopInv, LoopTypeOK, LoopIdInv
<1>3. /\ e \in Held(entries) /\ entries' \in Seq(Entry) /\ Apart(entries')
      /\ Held(entries') = Held(entries) \ {e}
  BY <1>1, <1>2, FrontHeld, Zenon
<1> HIDE DEF e
<1>4. e \in Entry BY <1>2, <1>3, HeldEntry, Zenon
<1>5. e.id \in Loop!Timers /\ e.deadline \in Nat BY <1>4, ThreadTimerAssumption DEF Entry, Loop!Time
<1>6. e.deadline <= now
  <2>1. snapshot \in Nat /\ now \in Nat /\ snapshot <= now BY DEF LoopInv, LoopTypeOK, LoopIdInv
  <2> QED BY <1>1, <1>5, <2>1
<1>7. \A f \in Held(entries) : f.id = e.id <=> f = e BY <1>3, Zenon DEF LoopInv, LoopIdInv, Held, Apart
<1>8. Held(entries') = {f \in Held(entries) : f.id # e.id} BY <1>3, <1>7, Zenon
<1>9. LoopTypeOK' BY <1>1, <1>3, <1>5 DEF LoopInv, LoopTypeOK
<1>10. e.id < nextId BY <1>3, Zenon DEF LoopInv, LoopIdInv
<1>11. \A f \in Held(entries') : f.id < nextId' /\ f.id # running' /\ f.id \notin fired'
  BY <1>1, <1>8, Zenon DEF LoopInv, LoopIdInv
<1>12. LoopIdInv' BY <1>1, <1>3, <1>10, <1>11, Zenon DEF LoopInv, LoopIdInv
<1> QED BY <1>1, <1>3, <1>5, <1>6, <1>8, <1>9, <1>12, ZenonT(30) DEF LoopInv

\* Every other step leaves the vector alone.
LEMMA LoopOtherStep ==
    ASSUME LoopInv,
           \/ Loop!TickBegin \/ Loop!TickEnd \/ Loop!CallbackReturns
           \/ Loop!ClockTick \/ UNCHANGED Loop!vars
    PROVE  LoopInv' /\ UNCHANGED <<entries, nextId, fired, released>>
<1>1. UNCHANGED <<entries, nextId, fired, released>>
  BY Zenon DEF Loop!TickBegin, Loop!TickEnd, Loop!CallbackReturns, Loop!ClockTick, Loop!vars
<1>2. /\ now' \in Nat /\ ticking' \in BOOLEAN /\ snapshot' \in Nat /\ snapshot' <= now'
      /\ running' = running \/ running' = Loop!Invalid
  <2>1. now \in Nat /\ ticking \in BOOLEAN /\ snapshot \in Nat /\ snapshot <= now
    BY Zenon DEF LoopInv, LoopTypeOK, LoopIdInv
  <2>2. CASE Loop!TickBegin BY <2>1, <2>2 DEF Loop!TickBegin
  <2>3. CASE Loop!TickEnd BY <2>1, <2>3, Zenon DEF Loop!TickEnd
  <2>4. CASE Loop!CallbackReturns BY <2>1, <2>4 DEF Loop!CallbackReturns, Loop!tick
  <2>5. CASE Loop!ClockTick BY <2>1, <2>5 DEF Loop!ClockTick, Loop!tick
  <2>6. CASE UNCHANGED Loop!vars BY <2>1, <2>6 DEF Loop!vars, Loop!tick
  <2> QED BY <2>2, <2>3, <2>4, <2>5, <2>6, ZenonT(30)
<1>3. LoopTypeOK' BY <1>1, <1>2 DEF LoopInv, LoopTypeOK
<1>4. \A e \in Held(entries) : e.id # Loop!Invalid
  <2>1. \A e \in Held(entries) : e \in Entry BY HeldEntry, Zenon DEF LoopInv, LoopTypeOK
  <2> QED BY <2>1, ThreadTimerAssumption DEF Entry, Loop!Timers, Loop!Invalid
<1>5. LoopIdInv' BY <1>1, <1>2, <1>4, Zenon DEF LoopInv, LoopIdInv
<1> QED BY <1>1, <1>3, <1>5, Zenon DEF LoopInv

\* The inductive invariant.
LEMMA LoopInvariance == Loop!Spec => []LoopInv
<1>1. Loop!Init => LoopInv
  <2> SUFFICES ASSUME Loop!Init PROVE LoopInv OBVIOUS
  <2>1. LoopTypeOK
    <3>1. entries \in Seq(Entry) /\ nextId \in Nat \ {0} /\ now \in Nat /\ snapshot \in Nat
      BY DEF Loop!Init
    <3> QED BY <3>1, Zenon DEF Loop!Init, LoopTypeOK
  <2>2. DOMAIN entries = {}
    <3>1. entries \in Seq(Entry) /\ Len(entries) = 0 BY DEF Loop!Init
    <3>2. DOMAIN entries = 1 .. 0 BY <3>1
    <3> QED BY <3>2
  <2>3. Held(entries) = {} /\ Apart(entries) BY <2>2, Zenon DEF Held, Apart
  <2>4. snapshot <= now /\ fired = {} /\ running = Loop!Invalid BY DEF Loop!Init
  <2> QED BY <2>1, <2>3, <2>4, Zenon DEF LoopInv, LoopIdInv
<1>2. LoopInv /\ [Loop!Next]_Loop!vars => LoopInv'
  BY LoopScheduleStep, LoopCancelStep, LoopFireStep, LoopOtherStep, Zenon DEF Loop!Next, Loop!Tick
<1> QED BY <1>1, <1>2, PTL DEF Loop!Spec

-----------------------------------------------------------------------------
(* The refinement *)

\* What the contract sees, from what the vector holds.
Seen(held, run, clock, gone, next, t) ==
    IF t = run THEN "inflight"
    ELSE IF \E e \in held : e.id = t
         THEN IF \E e \in held : e.id = t /\ e.deadline <= clock THEN "due" ELSE "armed"
    ELSE IF t \in gone THEN "fired"
    ELSE IF t < next THEN "cancelled" ELSE "unused"

LEMMA StatusSeen ==
    ASSUME NEW t
    PROVE  /\ Loop!StatusOf(t) = Seen(Held(entries), running, now, fired, nextId, t)
           /\ Loop!StatusOf(t)' = Seen(Held(entries'), running', now', fired', nextId', t)
<1>1. ASSUME NEW s, NEW c
      PROVE  /\ {i \in DOMAIN s : s[i].id = t} # {} <=> \E e \in Held(s) : e.id = t
             /\ (\E i \in {i \in DOMAIN s : s[i].id = t} : s[i].deadline <= c)
                <=> \E e \in Held(s) : e.id = t /\ e.deadline <= c
  BY Zenon DEF Held
<1>2. /\ Loop!Find(t) # {} <=> \E e \in Held(entries) : e.id = t
      /\ (\E i \in Loop!Find(t) : entries[i].deadline <= now)
         <=> \E e \in Held(entries) : e.id = t /\ e.deadline <= now
  BY <1>1, Zenon DEF Loop!Find
<1>3. /\ Loop!Find(t)' # {} <=> \E e \in Held(entries') : e.id = t
      /\ (\E i \in Loop!Find(t)' : entries'[i].deadline <= now')
         <=> \E e \in Held(entries') : e.id = t /\ e.deadline <= now'
  BY <1>1, Zenon DEF Loop!Find
<1>4. Loop!StatusOf(t) = Seen(Held(entries), running, now, fired, nextId, t)
  BY <1>2, Zenon DEF Loop!StatusOf, Seen
<1>5. Loop!StatusOf(t)' = Seen(Held(entries'), running', now', fired', nextId', t)
  BY <1>3, Zenon DEF Loop!StatusOf, Seen
<1> QED BY <1>4, <1>5, Zenon

\* The contract's view when one timer changes.
LEMMA OneChanges ==
    ASSUME NEW u \in Loop!Timers, NEW v, Loop!StatusOf(u)' = v,
           \A t \in Loop!Timers : t # u => Loop!StatusOf(t)' = Loop!StatusOf(t)
    PROVE  [t \in Loop!Timers |-> Loop!StatusOf(t)'] =
           [[t \in Loop!Timers |-> Loop!StatusOf(t)] EXCEPT ![u] = v]
BY Zenon

\* ScheduleAt() is the contract's ScheduleAt.
LEMMA ScheduleRefines ==
    ASSUME LoopInv, NEW d \in Loop!Time, Loop!ScheduleAt(d)
    PROVE  \E t \in Loop!Timers : Loop!Contract!ScheduleAt(t)
<1>1. PICK n \in Loop!Timers :
        n = nextId /\ Held(entries') = Held(entries) \cup {[deadline |-> d, id |-> n]}
  BY LoopScheduleStep, Zenon
<1> DEFINE e == [deadline |-> d, id |-> n]
           p == IF d <= now THEN "due" ELSE "armed"
<1>2. nextId' = n + 1 /\ UNCHANGED <<now, running, fired, released>> /\ n \in Nat
  BY <1>1 DEF Loop!ScheduleAt, LoopInv, LoopTypeOK
<1>3. (\A f \in Held(entries) : f.id # n) /\ n # running /\ n \notin fired
  BY <1>1, <1>2, ThreadTimerAssumption DEF LoopInv, LoopIdInv, LoopTypeOK, Loop!Timers, Loop!Invalid
<1>4. Held(entries') = Held(entries) \cup {e} /\ e.id = n /\ e.deadline = d BY <1>1
<1> HIDE DEF e
<1>5. Loop!StatusOf(n) = "unused" BY <1>1, <1>2, <1>3, StatusSeen DEF Seen
<1>6. Loop!StatusOf(n)' = p
  <2>1. \E f \in Held(entries') : f.id = n BY <1>4, Zenon
  <2>2. (\E f \in Held(entries') : f.id = n /\ f.deadline <= now) <=> d <= now
    BY <1>3, <1>4, Zenon
  <2>3. Loop!StatusOf(n)' = Seen(Held(entries'), running, now, fired, nextId', n)
    BY <1>2, StatusSeen, Zenon
  <2> QED BY <1>3, <2>1, <2>2, <2>3, ZenonT(30) DEF Seen
<1>7. ASSUME NEW t \in Loop!Timers, t # n PROVE Loop!StatusOf(t)' = Loop!StatusOf(t)
  <2>1. \A f : f \in Held(entries') /\ f.id = t <=> f \in Held(entries) /\ f.id = t
    BY <1>4, <1>7, ZenonT(30)
  <2>2. t < nextId' <=> t < nextId BY <1>1, <1>2, <1>7, ThreadTimerAssumption DEF Loop!Timers
  <2> QED BY <1>2, <2>1, <2>2, StatusSeen, ZenonT(30) DEF Seen
<1>8. p \in Loop!Contract!Pending BY DEF Loop!Contract!Pending
<1> HIDE DEF p
<1>9. [t \in Loop!Timers |-> Loop!StatusOf(t)'] =
      [[t \in Loop!Timers |-> Loop!StatusOf(t)] EXCEPT ![n] = p]
  BY <1>6, <1>7, OneChanges
<1>10. Loop!Contract!ScheduleAt(n) BY <1>2, <1>5, <1>8, <1>9, Zenon DEF Loop!Contract!ScheduleAt
<1> QED BY <1>10, Zenon

\* Cancel() is the contract's Cancel.
LEMMA CancelRefines ==
    ASSUME LoopInv, NEW t \in Loop!Timers, Loop!Cancel(t)
    PROVE  Loop!Contract!Cancel(t)
<1>1. Held(entries') = {e \in Held(entries) : e.id # t} BY LoopCancelStep, Zenon
<1>2. t < nextId /\ t # running /\ UNCHANGED <<now, nextId, running, fired>>
      /\ released' = released \cup {t}
  BY Zenon DEF Loop!Cancel
<1>3. Loop!StatusOf(t) \in {"armed", "due", "fired", "cancelled"} BY <1>2, StatusSeen DEF Seen
<1>4. Loop!StatusOf(t)' = IF Loop!StatusOf(t) \in {"armed", "due"} THEN "cancelled" ELSE Loop!StatusOf(t)
  <2>1. ~\E e \in Held(entries') : e.id = t BY <1>1, Zenon
  <2>2. Loop!StatusOf(t)' = IF t \in fired THEN "fired" ELSE "cancelled"
    BY <1>2, <2>1, StatusSeen, Zenon DEF Seen
  <2>3. CASE \E e \in Held(entries) : e.id = t
    <3>1. t \notin fired BY <2>3, Zenon DEF LoopInv, LoopIdInv
    <3>2. Loop!StatusOf(t) \in {"armed", "due"} BY <1>2, <2>3, StatusSeen DEF Seen
    <3> QED BY <2>2, <3>1, <3>2, Zenon
  <2>4. CASE ~\E e \in Held(entries) : e.id = t
    <3>1. Loop!StatusOf(t) = IF t \in fired THEN "fired" ELSE "cancelled"
      BY <1>2, <2>4, StatusSeen, Zenon DEF Seen
    <3> QED BY <2>2, <3>1
  <2> QED BY <2>3, <2>4, Zenon
<1>5. ASSUME NEW u \in Loop!Timers, u # t PROVE Loop!StatusOf(u)' = Loop!StatusOf(u)
  <2>1. \A e : e \in Held(entries') /\ e.id = u <=> e \in Held(entries) /\ e.id = u
    BY <1>1, <1>5, Zenon
  <2> QED BY <1>2, <2>1, StatusSeen, Zenon DEF Seen
<1> DEFINE p == IF Loop!StatusOf(t) \in {"armed", "due"} THEN "cancelled" ELSE Loop!StatusOf(t)
<1>6. [u \in Loop!Timers |-> Loop!StatusOf(u)'] =
      [[u \in Loop!Timers |-> Loop!StatusOf(u)] EXCEPT ![t] = p]
  BY <1>4, <1>5, OneChanges
<1> QED BY <1>2, <1>3, <1>6, Zenon DEF Loop!Contract!Cancel, Loop!Contract!Pending, Loop!Contract!Done

\* Moving the front out and calling it is the contract's Fire.
LEMMA FireRefines ==
    ASSUME LoopInv, Loop!TickFire
    PROVE  \E t \in Loop!Timers : Loop!Contract!Fire(t)
<1>1. PICK e \in Held(entries) :
        /\ e.deadline <= now /\ e.id \in Loop!Timers
        /\ running' = e.id /\ fired' = fired \cup {e.id}
        /\ Held(entries') = {f \in Held(entries) : f.id # e.id}
  BY LoopFireStep, Zenon
<1>2. running = Loop!Invalid /\ UNCHANGED <<now, nextId, released>> BY Zenon DEF Loop!TickFire
<1>3. \A t \in Loop!Timers : t # Loop!Invalid BY ThreadTimerAssumption DEF Loop!Timers, Loop!Invalid
<1>4. Loop!StatusOf(e.id) = "due" BY <1>1, <1>2, <1>3, StatusSeen, Zenon DEF Seen
<1>5. Loop!StatusOf(e.id)' = "inflight" BY <1>1, StatusSeen, Zenon DEF Seen
<1>6. ASSUME NEW t \in Loop!Timers, t # e.id PROVE Loop!StatusOf(t)' = Loop!StatusOf(t)
  <2>1. \A f : f \in Held(entries') /\ f.id = t <=> f \in Held(entries) /\ f.id = t
    BY <1>1, <1>6, Zenon
  <2>2. /\ Loop!StatusOf(t)' = Seen(Held(entries'), e.id, now, fired \cup {e.id}, nextId, t)
        /\ Loop!StatusOf(t) = Seen(Held(entries), Loop!Invalid, now, fired, nextId, t)
    BY <1>1, <1>2, StatusSeen, Zenon
  <2>3. (t \in fired \cup {e.id} <=> t \in fired) /\ t # Loop!Invalid BY <1>3, <1>6, Zenon
  <2>4. Seen(Held(entries'), e.id, now, fired \cup {e.id}, nextId, t) =
        Seen(Held(entries), Loop!Invalid, now, fired, nextId, t)
    BY <1>6, <2>1, <2>3, ZenonT(30) DEF Seen
  <2> QED BY <2>2, <2>4, Zenon
<1>7. [t \in Loop!Timers |-> Loop!StatusOf(t)'] =
      [[t \in Loop!Timers |-> Loop!StatusOf(t)] EXCEPT ![e.id] = "inflight"]
  BY <1>1, <1>5, <1>6, OneChanges
<1>8. Loop!Contract!Fire(e.id) BY <1>1, <1>2, <1>4, <1>7, Zenon DEF Loop!Contract!Fire
<1> QED BY <1>1, <1>8, Zenon

\* The callback's return is the contract's Return.
LEMMA ReturnRefines ==
    ASSUME LoopInv, Loop!CallbackReturns
    PROVE  \E t \in Loop!Timers : Loop!Contract!Return(t)
<1>1. /\ running # Loop!Invalid /\ running' = Loop!Invalid
      /\ UNCHANGED <<now, entries, nextId, fired, released>>
  BY Zenon DEF Loop!CallbackReturns
<1>2. running \in Loop!Timers /\ running \in fired /\ \A e \in Held(entries) : e.id # running
  BY <1>1, Zenon DEF LoopInv, LoopTypeOK, LoopIdInv
<1>3. \A t \in Loop!Timers : t # Loop!Invalid BY ThreadTimerAssumption DEF Loop!Timers, Loop!Invalid
<1>4. Loop!StatusOf(running) = "inflight" BY StatusSeen, Zenon DEF Seen
<1>5. ASSUME NEW t \in Loop!Timers
      PROVE  /\ Loop!StatusOf(t)' = Seen(Held(entries), Loop!Invalid, now, fired, nextId, t)
             /\ Loop!StatusOf(t) = Seen(Held(entries), running, now, fired, nextId, t)
  BY <1>1, StatusSeen, Zenon
<1>6. Seen(Held(entries), Loop!Invalid, now, fired, nextId, running) = "fired"
  BY <1>1, <1>2, Zenon DEF Seen
<1>7. ASSUME NEW t \in Loop!Timers, t # running PROVE Loop!StatusOf(t)' = Loop!StatusOf(t)
  BY <1>3, <1>5, <1>7, ZenonT(30) DEF Seen
<1>8. [t \in Loop!Timers |-> Loop!StatusOf(t)'] =
      [[t \in Loop!Timers |-> Loop!StatusOf(t)] EXCEPT ![running] = "fired"]
  <2>1. Seen(Held(entries), Loop!Invalid, now, fired, nextId, running) = "fired" BY <1>6, Zenon
  <2> QED BY <1>2, <1>5, <1>7, <2>1, OneChanges
<1>9. Loop!Contract!Return(running) BY <1>1, <1>4, <1>2, <1>8, Zenon DEF Loop!Contract!Return
<1> QED BY <1>2, <1>9, Zenon

\* A tick of the clock passes the deadlines of some armed timers.
LEMMA ClockRefines ==
    ASSUME LoopInv, Loop!ClockTick
    PROVE  \E S \in SUBSET Loop!Timers : Loop!Contract!DeadlinesPass(S)
<1> DEFINE S == {t \in Loop!Timers : Loop!StatusOf(t) = "armed" /\ Loop!StatusOf(t)' = "due"}
<1>1. now' = now + 1 /\ UNCHANGED <<entries, nextId, running, fired, released>>
  BY Zenon DEF Loop!ClockTick
<1>2. \A e \in Held(entries) : e.deadline <= now => e.deadline <= now'
  <2>1. \A e \in Held(entries) : e \in Entry BY HeldEntry, Zenon DEF LoopInv, LoopTypeOK
  <2>2. \A e \in Held(entries) : e.deadline \in Nat BY <2>1, ThreadTimerAssumption DEF Entry, Loop!Time
  <2>3. now \in Nat BY DEF LoopInv, LoopTypeOK
  <2> QED BY <1>1, <2>2, <2>3
<1>3. ASSUME NEW t \in Loop!Timers PROVE Loop!StatusOf(t)' = IF t \in S THEN "due" ELSE Loop!StatusOf(t)
  <2>1. /\ Loop!StatusOf(t)' = Seen(Held(entries), running, now', fired, nextId, t)
        /\ Loop!StatusOf(t) = Seen(Held(entries), running, now, fired, nextId, t)
    BY <1>1, StatusSeen, Zenon
  <2> DEFINE due(c) == \E e \in Held(entries) : e.id = t /\ e.deadline <= c
  <2>2. due(now) => due(now') BY <1>2, Zenon
  <2>3. Loop!StatusOf(t)' = Loop!StatusOf(t) \/ (Loop!StatusOf(t) = "armed" /\ Loop!StatusOf(t)' = "due")
    BY <2>1, <2>2, Zenon DEF Seen
  <2> QED BY <2>3, Zenon
<1>4. Loop!Contract!DeadlinesPass(S)
  <2>1. \A t \in S : t \in Loop!Timers /\ Loop!StatusOf(t) = "armed" OBVIOUS
  <2> HIDE DEF S
  <2>2. [t \in Loop!Timers |-> Loop!StatusOf(t)'] =
        [t \in Loop!Timers |-> IF t \in S THEN "due" ELSE Loop!StatusOf(t)]
    BY <1>3, Zenon
  <2>3. \A t \in Loop!Timers : [u \in Loop!Timers |-> Loop!StatusOf(u)][t] = Loop!StatusOf(t) OBVIOUS
  <2> QED BY <1>1, <2>1, <2>2, <2>3 DEF Loop!Contract!DeadlinesPass
<1> QED BY <1>4, Zenon

\* A Tick() that starts or ends is nothing to the contract.
LEMMA QuietRefines ==
    ASSUME Loop!TickBegin \/ Loop!TickEnd \/ UNCHANGED Loop!vars
    PROVE  UNCHANGED Loop!Contract!vars
<1>1. UNCHANGED <<now, entries, nextId, running, fired, released>>
  BY Zenon DEF Loop!TickBegin, Loop!TickEnd, Loop!vars
<1>2. \A t \in Loop!Timers : Loop!StatusOf(t)' = Loop!StatusOf(t) BY <1>1, StatusSeen, Zenon
<1>3. [t \in Loop!Timers |-> Loop!StatusOf(t)'] = [t \in Loop!Timers |-> Loop!StatusOf(t)] BY <1>2, Zenon
<1> QED BY <1>1, <1>3, Zenon DEF Loop!Contract!vars

\* LoopTimerBackend implements ITimerBackend's contract: callbacks run at most once
\* and not early, and Cancel() returns only for a callback that is not running and
\* never will.
THEOREM LoopRefinement == Loop!Spec => Loop!ImplementsTimerBackend
<1>1. Loop!Init => Loop!Contract!Init
  <2> SUFFICES ASSUME Loop!Init PROVE Loop!Contract!Init OBVIOUS
  <2>1. running = Loop!Invalid /\ nextId = 1 /\ fired = {} /\ released = {} /\ entries = <<>>
    BY DEF Loop!Init
  <2>2. ASSUME NEW t \in Loop!Timers PROVE Loop!StatusOf(t) = "unused"
    <3>1. t # Loop!Invalid /\ ~(t < 1) BY ThreadTimerAssumption DEF Loop!Timers, Loop!Invalid
    <3>2. Loop!Find(t) = {} BY <2>1 DEF Loop!Find
    <3> QED BY <2>1, <3>1, <3>2, Zenon DEF Loop!StatusOf
  <2> QED BY <2>1, <2>2, Zenon DEF Loop!Contract!Init
<1>2. LoopInv /\ [Loop!Next]_Loop!vars => [Loop!Contract!Next]_Loop!Contract!vars
  <2> SUFFICES ASSUME LoopInv, [Loop!Next]_Loop!vars
               PROVE Loop!Contract!Next \/ UNCHANGED Loop!Contract!vars
    OBVIOUS
  <2>1. ASSUME NEW d \in Loop!Time, Loop!ScheduleAt(d) PROVE Loop!Contract!Next
    BY <2>1, ScheduleRefines, Zenon DEF Loop!Contract!Next
  <2>2. ASSUME NEW t \in Loop!Timers, Loop!Cancel(t) PROVE Loop!Contract!Next
    BY <2>2, CancelRefines, Zenon DEF Loop!Contract!Next
  <2>3. CASE Loop!TickFire BY <2>3, FireRefines, Zenon DEF Loop!Contract!Next
  <2>4. CASE Loop!CallbackReturns BY <2>4, ReturnRefines, Zenon DEF Loop!Contract!Next
  <2>5. CASE Loop!ClockTick BY <2>5, ClockRefines, Zenon DEF Loop!Contract!Next
  <2>6. CASE Loop!TickBegin \/ Loop!TickEnd \/ UNCHANGED Loop!vars BY <2>6, QuietRefines, Zenon
  <2> QED BY <2>1, <2>2, <2>3, <2>4, <2>5, <2>6, ZenonT(30) DEF Loop!Next, Loop!Tick
<1> QED BY <1>1, <1>2, LoopInvariance, PTL DEF Loop!Spec, Loop!ImplementsTimerBackend, Loop!Contract!Spec

\* The step of the contract again, for the timers of Loop.
LEMMA LoopContractStep ==
  ASSUME Loop!Contract!TypeOK, Loop!Contract!Quiescent, [Loop!Contract!Next]_Loop!Contract!vars
  PROVE  Loop!Contract!TypeOK' /\ Loop!Contract!Quiescent'
<1> USE DEF Loop!Contract!TypeOK, Loop!Contract!Quiescent, Loop!Contract!Pending, Loop!Contract!Done
<1>1. ASSUME NEW S \in SUBSET Loop!Timers, Loop!Contract!DeadlinesPass(S)
      PROVE  Loop!Contract!TypeOK' /\ Loop!Contract!Quiescent'
  BY <1>1, Zenon DEF Loop!Contract!DeadlinesPass
<1>2. ASSUME NEW t \in Loop!Timers, Loop!Contract!ScheduleAt(t)
      PROVE  Loop!Contract!TypeOK' /\ Loop!Contract!Quiescent'
  BY <1>2, Zenon DEF Loop!Contract!ScheduleAt
<1>3. ASSUME NEW t \in Loop!Timers, Loop!Contract!Fire(t)
      PROVE  Loop!Contract!TypeOK' /\ Loop!Contract!Quiescent'
  BY <1>3, Zenon DEF Loop!Contract!Fire
<1>4. ASSUME NEW t \in Loop!Timers, Loop!Contract!Return(t)
      PROVE  Loop!Contract!TypeOK' /\ Loop!Contract!Quiescent'
  BY <1>4, Zenon DEF Loop!Contract!Return
<1>5. ASSUME NEW t \in Loop!Timers, Loop!Contract!Cancel(t)
      PROVE  Loop!Contract!TypeOK' /\ Loop!Contract!Quiescent'
  BY <1>5, Zenon DEF Loop!Contract!Cancel
<1>6. CASE UNCHANGED Loop!Contract!vars
  BY <1>6 DEF Loop!Contract!vars
<1> QED
  BY <1>1, <1>2, <1>3, <1>4, <1>5, <1>6 DEF Loop!Contract!Next

\* Cancel() of the loop backend, from the loop or from inside a callback: once it
\* has returned for a timer, the callback is not running and no Tick() will run it.
THEOREM LoopCancelQuiesces == Loop!Spec => []Loop!Contract!Quiescent
<1>1. Loop!Contract!Init => Loop!Contract!TypeOK /\ Loop!Contract!Quiescent
  BY DEF Loop!Contract!Init, Loop!Contract!TypeOK, Loop!Contract!Quiescent, Loop!Contract!Pending,
         Loop!Contract!Done
<1>2. Loop!Contract!TypeOK /\ Loop!Contract!Quiescent /\ [Loop!Contract!Next]_Loop!Contract!vars
      => Loop!Contract!TypeOK' /\ Loop!Contract!Quiescent'
  BY LoopContractStep
<1>3. Loop!Contract!Spec => []Loop!Contract!Quiescent
  BY <1>1, <1>2, PTL DEF Loop!Contract!Spec
<1> QED
  BY <1>3, LoopRefinement, PTL DEF Loop!ImplementsTimerBackend

-----------------------------------------------------------------------------
(* Tick() stops at the first entry that is not due *)

\* The vector is sorted by deadline.
Ordered(s) == \A i, j \in DOMAIN s : i <= j => s[i].deadline <= s[j].deadline

LEMMA DeadlineNat ==
    ASSUME NEW s \in Seq(Entry) PROVE \A i \in DOMAIN s : s[i].deadline \in Nat
<1>1. \A e \in Entry : e.deadline \in Nat BY ThreadTimerAssumption DEF Entry, Loop!Time
<1>2. \A i \in DOMAIN s : s[i] \in Entry OBVIOUS
<1> QED BY <1>1, <1>2, Zenon

\* In a sorted vector std::lower_bound returns the place between the earlier
\* deadlines and the others.
LEMMA LowerBoundSplits ==
    ASSUME LoopTypeOK, Ordered(entries), NEW d \in Nat
    PROVE  /\ \A i \in 1 .. (Loop!LowerBound(d) - 1) :
                i \in DOMAIN entries => entries[i].deadline <= d
           /\ \A i \in Loop!LowerBound(d) .. Len(entries) : d <= entries[i].deadline
<1> DEFINE n == Len(entries)
           before == {i \in DOMAIN entries : entries[i].deadline < d}
           m == Cardinality(before)
<1>1. n \in Nat /\ DOMAIN entries = 1 .. n /\ \A i \in 1 .. n : entries[i].deadline \in Nat
  <2>1. n \in Nat /\ DOMAIN entries = 1 .. n BY DEF LoopTypeOK
  <2> QED BY <2>1, DeadlineNat, Zenon DEF LoopTypeOK
<1>2. Loop!LowerBound(d) = m + 1 BY DEF Loop!LowerBound, Loop!Cardinality, Cardinality
<1> HIDE DEF n
<1>3. IsFiniteSet(before) /\ m \in Nat
  <2>1. IsFiniteSet(1 .. n) BY <1>1, FS_Interval
  <2>2. before \subseteq 1 .. n BY <1>1
  <2> HIDE DEF before
  <2> QED BY <2>1, <2>2, FS_Subset, FS_CardinalityType, Zenon
<1>4. ASSUME NEW i \in 1 .. n, i \in before PROVE i <= m
  <2>1. 1 .. i \subseteq before
    <3> SUFFICES ASSUME NEW j \in 1 .. i PROVE j \in before OBVIOUS
    <3>1. j \in 1 .. n /\ j <= i /\ entries[j].deadline \in Nat /\ entries[i].deadline \in Nat
      BY <1>1
    <3>2. entries[j].deadline <= entries[i].deadline BY <1>1, <3>1 DEF Ordered
    <3>3. entries[i].deadline < d BY <1>4
    <3> QED BY <1>1, <3>1, <3>2, <3>3
  <2> HIDE DEF before
  <2>2. Cardinality(1 .. i) = i BY FS_Interval
  <2>3. Cardinality(1 .. i) <= m BY <1>3, <2>1, FS_Subset
  <2> QED BY <2>2, <2>3
<1>5. ASSUME NEW i \in 1 .. n, i \notin before PROVE m <= i - 1
  <2>1. before \subseteq 1 .. (i - 1)
    <3> SUFFICES ASSUME NEW j \in before, ~(j \in 1 .. (i - 1)) PROVE FALSE OBVIOUS
    <3>1. j \in 1 .. n /\ i <= j /\ entries[j].deadline \in Nat /\ entries[i].deadline \in Nat
      BY <1>1
    <3>2. entries[i].deadline <= entries[j].deadline BY <1>1, <3>1 DEF Ordered
    <3>3. entries[j].deadline < d OBVIOUS
    <3> QED BY <1>1, <1>5, <3>1, <3>2, <3>3
  <2> HIDE DEF before
  <2>2. IsFiniteSet(1 .. (i - 1)) /\ Cardinality(1 .. (i - 1)) = i - 1 BY FS_Interval
  <2>3. m <= Cardinality(1 .. (i - 1)) BY <2>1, <2>2, FS_Subset, Zenon
  <2> QED BY <2>2, <2>3
<1>6. \A i \in 1 .. n : i \in before <=> entries[i].deadline < d BY <1>1
<1> HIDE DEF before, m
<1>7. ASSUME NEW i \in 1 .. m, i \in DOMAIN entries PROVE entries[i].deadline <= d
  BY <1>1, <1>3, <1>5, <1>6, <1>7
<1>8. ASSUME NEW i \in (m + 1) .. n PROVE d <= entries[i].deadline
  BY <1>1, <1>3, <1>4, <1>6
<1>9. (m + 1) - 1 = m BY <1>3
<1> QED BY <1>2, <1>7, <1>8, <1>9 DEF n

\* insert() there, erase() anywhere and moving the front out keep it sorted.
LEMMA InsertOrdered ==
    ASSUME NEW s \in Seq(Entry), NEW k \in 1 .. (Len(s) + 1), NEW e \in Entry, Ordered(s),
           \A i \in 1 .. (k - 1) : i \in DOMAIN s => s[i].deadline <= e.deadline,
           \A i \in k .. Len(s) : e.deadline <= s[i].deadline
    PROVE  Ordered(Loop!Insert(s, k, e))
<1> DEFINE n == Loop!Insert(s, k, e)
<1>1. /\ n \in Seq(Entry) /\ Len(n) = Len(s) + 1
      /\ \A i \in 1 .. (k - 1) : n[i] = s[i]
      /\ n[k] = e
      /\ \A i \in k .. Len(s) : n[i + 1] = s[i]
  BY Inserted, ZenonT(30)
<1> HIDE DEF n
<1>2. /\ Len(s) \in Nat /\ DOMAIN s = 1 .. Len(s) /\ DOMAIN n = 1 .. (Len(s) + 1)
      /\ k \in Nat /\ k >= 1 /\ k <= Len(s) + 1
  BY <1>1
<1>3. e.deadline \in Nat BY ThreadTimerAssumption DEF Entry, Loop!Time
<1>4. \A i \in DOMAIN n : /\ i < k => i \in DOMAIN s /\ n[i] = s[i]
                          /\ i = k => n[i] = e
                          /\ i > k => i - 1 \in k .. Len(s) /\ i - 1 \in DOMAIN s /\ n[i] = s[i - 1]
  <2> SUFFICES ASSUME NEW i \in DOMAIN n
               PROVE  /\ i < k => i \in DOMAIN s /\ n[i] = s[i]
                      /\ i = k => n[i] = e
                      /\ i > k => i - 1 \in k .. Len(s) /\ i - 1 \in DOMAIN s /\ n[i] = s[i - 1]
    OBVIOUS
  <2>1. ASSUME i < k PROVE i \in DOMAIN s /\ n[i] = s[i] BY <1>1, <1>2, <2>1
  <2>2. ASSUME i > k PROVE i - 1 \in k .. Len(s) /\ i - 1 \in DOMAIN s /\ n[i] = s[i - 1]
    <3>1. i - 1 \in k .. Len(s) /\ i - 1 \in DOMAIN s /\ (i - 1) + 1 = i BY <1>2, <2>2
    <3> QED BY <1>1, <3>1, Zenon
  <2> QED BY <1>1, <2>1, <2>2
<1>5. ASSUME NEW i \in DOMAIN n, NEW j \in DOMAIN n, i <= j PROVE n[i].deadline <= n[j].deadline
  <2>1. CASE i < k /\ j < k BY <1>4, <1>5, <2>1 DEF Ordered
  <2>2. CASE i < k /\ j = k
    <3>1. i \in 1 .. (k - 1) BY <1>2, <2>2
    <3> QED BY <1>4, <2>2, <3>1
  <2>3. CASE i < k /\ j > k
    <3>1. i \in DOMAIN s /\ j - 1 \in DOMAIN s /\ i <= j - 1 BY <1>2, <1>4, <2>3
    <3> QED BY <1>4, <2>3, <3>1 DEF Ordered
  <2>4. CASE i = k /\ j = k BY <1>3, <1>4, <2>4
  <2>5. CASE i = k /\ j > k BY <1>4, <2>5
  <2>6. CASE i > k /\ j > k
    <3>1. i - 1 \in DOMAIN s /\ j - 1 \in DOMAIN s /\ i - 1 <= j - 1 BY <1>2, <1>4, <1>5, <2>6
    <3> QED BY <1>4, <2>6, <3>1 DEF Ordered
  <2> QED BY <1>2, <1>5, <2>1, <2>2, <2>3, <2>4, <2>5, <2>6
<1> QED BY <1>5 DEF Ordered, n

LEMMA RemoveOrdered ==
    ASSUME NEW s \in Seq(Entry), NEW k \in 1 .. Len(s), Ordered(s)
    PROVE  Ordered(Loop!Erase(s, k))
<1> DEFINE n == Loop!Erase(s, k)
           from(i) == IF i < k THEN i ELSE i + 1
<1>1. /\ n \in Seq(Entry) /\ Len(n) = Len(s) - 1
      /\ \A i \in 1 .. (k - 1) : n[i] = s[i]
      /\ \A i \in k .. (Len(s) - 1) : n[i] = s[i + 1]
  BY Removed, Zenon
<1> HIDE DEF n
<1>2. /\ Len(s) \in Nat /\ DOMAIN s = 1 .. Len(s) /\ DOMAIN n = 1 .. (Len(s) - 1)
      /\ k \in Nat /\ k >= 1 /\ k <= Len(s)
  BY <1>1
<1>3. ASSUME NEW i \in DOMAIN n PROVE from(i) \in DOMAIN s /\ n[i] = s[from(i)]
  <2>1. CASE i < k BY <1>1, <1>2, <2>1
  <2>2. CASE i >= k BY <1>1, <1>2, <2>2
  <2> QED BY <1>2, <2>1, <2>2
<1>4. \A i, j \in DOMAIN n : i <= j => from(i) <= from(j) BY <1>2
<1> HIDE DEF from
<1> QED BY <1>3, <1>4, Zenon DEF Ordered, n

LEMMA FrontOrdered == ASSUME NEW s \in Seq(Entry), s # <<>>, Ordered(s) PROVE Ordered(Tail(s))
<1>1. Tail(s) \in Seq(Entry) /\ Len(Tail(s)) = Len(s) - 1 /\ Len(s) \in Nat
      /\ DOMAIN s = 1 .. Len(s) /\ \A i \in 1 .. (Len(s) - 1) : Tail(s)[i] = s[i + 1]
  BY HeadTailProperties
<1>2. DOMAIN Tail(s) = 1 .. (Len(s) - 1) BY <1>1
<1> QED BY <1>1, <1>2 DEF Ordered

LoopSorted == Ordered(entries)

LEMMA SortedStep == LoopInv /\ LoopSorted /\ [Loop!Next]_Loop!vars => LoopSorted'
<1> SUFFICES ASSUME LoopInv, Ordered(entries), [Loop!Next]_Loop!vars PROVE Ordered(entries')
  BY DEF LoopSorted
<1>1. entries \in Seq(Entry) /\ LoopTypeOK BY DEF LoopInv, LoopTypeOK
<1>2. ASSUME NEW d \in Loop!Time, Loop!ScheduleAt(d) PROVE Ordered(entries')
  <2> DEFINE e == [deadline |-> d, id |-> nextId]
             k == Loop!LowerBound(d)
  <2>1. entries' = Loop!Insert(entries, k, e) BY <1>2, Zenon DEF Loop!ScheduleAt, Loop!FreshId
  <2>2. nextId \in Loop!Timers BY <1>2, LoopScheduleStep, Zenon
  <2>3. e \in Entry /\ e.deadline = d BY <2>2 DEF Entry
  <2>4. d \in Nat BY ThreadTimerAssumption DEF Loop!Time
  <2>5. k \in 1 .. (Len(entries) + 1) BY <1>1, LowerBoundIn, Zenon
  <2>6. /\ \A i \in 1 .. (k - 1) : i \in DOMAIN entries => entries[i].deadline <= d
        /\ \A i \in k .. Len(entries) : d <= entries[i].deadline
    BY <1>1, <2>4, LowerBoundSplits, Zenon
  <2> HIDE DEF e, k
  <2> QED BY <1>1, <2>1, <2>3, <2>5, <2>6, InsertOrdered, ZenonT(30)
<1>3. ASSUME NEW t \in Loop!Timers, Loop!Cancel(t) PROVE Ordered(entries')
  <2>1. CASE Loop!Find(t) = {} BY <1>3, <2>1, Zenon DEF Loop!Cancel
  <2>2. CASE Loop!Find(t) # {}
    <3>1. PICK i \in Loop!Find(t) : entries' = Loop!Erase(entries, i) BY <1>3, <2>2, Zenon DEF Loop!Cancel
    <3>2. DOMAIN entries = 1 .. Len(entries) BY <1>1
    <3>3. i \in 1 .. Len(entries) BY <3>1, <3>2, Zenon DEF Loop!Find
    <3> QED BY <1>1, <3>1, <3>3, RemoveOrdered, Zenon
  <2> QED BY <2>1, <2>2, Zenon
<1>4. CASE Loop!TickFire BY <1>1, <1>4, FrontOrdered, Zenon DEF Loop!TickFire, Loop!FrontDue
<1>5. CASE \/ Loop!TickBegin \/ Loop!TickEnd \/ Loop!CallbackReturns
           \/ Loop!ClockTick \/ UNCHANGED Loop!vars
  BY <1>5, LoopOtherStep, Zenon
<1> QED BY <1>2, <1>3, <1>4, <1>5, ZenonT(30) DEF Loop!Next, Loop!Tick

\* LoopTimerBackend::_entries is sorted by deadline at all times, through insertions
\* at std::lower_bound, erasures and callbacks that schedule and cancel in a Tick().
THEOREM VectorSorted == Loop!Spec => []LoopSorted
<1>1. Loop!Init => LoopSorted
  <2> SUFFICES ASSUME Loop!Init PROVE LoopSorted OBVIOUS
  <2>1. entries = <<>> /\ DOMAIN <<>> = {} BY DEF Loop!Init
  <2> QED BY <2>1, Zenon DEF LoopSorted, Ordered
<1> QED BY <1>1, SortedStep, LoopInvariance, PTL DEF Loop!Spec

\* Tick() calls the front entry, which no other entry precedes by its deadline.
LEMMA FrontIsEarliest ==
    ASSUME LoopInv, LoopSorted, Loop!TickFire
    PROVE  \A i \in DOMAIN entries, j \in Loop!Find(running') : entries[j].deadline <= entries[i].deadline
<1> SUFFICES ASSUME NEW i \in DOMAIN entries, NEW j \in Loop!Find(running')
             PROVE  entries[j].deadline <= entries[i].deadline
  OBVIOUS
<1>1. entries \in Seq(Entry) /\ entries # <<>> /\ running' = Head(entries).id
  BY Zenon DEF Loop!TickFire, Loop!FrontDue, LoopInv, LoopTypeOK
<1>2. Head(entries) = entries[1] /\ 1 \in DOMAIN entries /\ 1 <= i BY <1>1
<1>3. j \in DOMAIN entries /\ entries[j].id = entries[1].id BY <1>1, <1>2, Zenon DEF Loop!Find
<1>4. j = 1 BY <1>2, <1>3, Zenon DEF LoopInv, LoopIdInv, Apart
<1> QED BY <1>2, <1>4, Zenon DEF LoopSorted, Ordered

\* Tick() ends at the first entry that is not due, and leaves none behind it that was
\* due at its snapshot.
LEMMA NoneDueLeft ==
    ASSUME LoopInv, LoopSorted, Loop!TickEnd
    PROVE  \A i \in DOMAIN entries : snapshot < entries[i].deadline
<1> SUFFICES ASSUME NEW i \in DOMAIN entries PROVE snapshot < entries[i].deadline OBVIOUS
<1>1. entries \in Seq(Entry) /\ snapshot \in Nat BY DEF LoopInv, LoopTypeOK
<1>2. 1 \in DOMAIN entries /\ 1 <= i /\ entries # <<>> BY <1>1
<1>3. ~(entries[1].deadline <= snapshot)
  <2>1. Head(entries) = entries[1] BY <1>1, <1>2
  <2> QED BY <1>2, <2>1, Zenon DEF Loop!TickEnd, Loop!FrontDue
<1>4. entries[1].deadline <= entries[i].deadline BY <1>2, Zenon DEF LoopSorted, Ordered
<1>5. entries[1].deadline \in Nat /\ entries[i].deadline \in Nat BY <1>1, <1>2, DeadlineNat, Zenon
<1> QED BY <1>1, <1>3, <1>4, <1>5

\* LoopTimerBackend::Tick() invokes the callbacks in the order of their deadlines and
\* returns with no entry left that was due at its snapshot, whatever its callbacks
\* schedule and cancel, for any number of timers.
THEOREM TickInOrder == Loop!Spec => Loop!FiresInOrder
<1> DEFINE Earliest == \A i \in DOMAIN entries, j \in Loop!Find(running') :
                           entries[j].deadline <= entries[i].deadline
           NoneDue  == \A i \in DOMAIN entries : snapshot < entries[i].deadline
<1>1. ASSUME LoopInv, LoopSorted, [Loop!Next]_Loop!vars, running' \notin {running, Loop!Invalid}
      PROVE  Earliest
  <2>1. Loop!TickFire
    BY <1>1, ZenonT(30) DEF Loop!Next, Loop!ScheduleAt, Loop!Cancel, Loop!Tick, Loop!TickBegin,
       Loop!TickEnd, Loop!CallbackReturns, Loop!ClockTick, Loop!vars
  <2> QED BY <1>1, <2>1, FrontIsEarliest, Zenon
<1>2. ASSUME LoopInv, LoopSorted, [Loop!Next]_Loop!vars, ticking, ~ticking'
      PROVE  NoneDue
  <2>1. Loop!TickEnd
    BY <1>2, ZenonT(30) DEF Loop!Next, Loop!ScheduleAt, Loop!Cancel, Loop!Tick, Loop!TickBegin,
       Loop!TickFire, Loop!CallbackReturns, Loop!ClockTick, Loop!vars, Loop!tick
  <2> QED BY <1>2, <2>1, NoneDueLeft, Zenon
<1>3. LoopInv /\ LoopSorted /\ [Loop!Next]_Loop!vars
      => [/\ running' \notin {running, Loop!Invalid} => Earliest
          /\ ticking /\ ~ticking' => NoneDue]_Loop!vars
  BY <1>1, <1>2, Zenon
<1> QED BY <1>3, LoopInvariance, VectorSorted, PTL DEF Loop!Spec, Loop!FiresInOrder
=============================================================================
