-------------------------- MODULE ExecDomainProofs --------------------------
(***************************************************************************)
(* The safety properties of ExecDomain, for every set of operations, from  *)
(* one inductive invariant.                                                *)
(***************************************************************************)
EXTENDS ExecDomain, TLAPS

\* Where the loop thread is inside an operation, the operation is a live timed
\* one; a stop callback runs only for a stop that was requested.
ThreadInv ==
    /\ pc \in {"assign", "stopCancel", "stopCas", "dtorCancel"} =>
         cur \in TimedOps /\ life[cur] = "live"
    /\ pc \in {"stopCancel", "stopCas"} => stopReq[cur]
    /\ pc \in {"run", "crashed"} => cur = None
    /\ pc \in {"assign", "dtorCancel"} => toStop = {}
    /\ \A o \in toStop : life[o] = "live" /\ stopReq[o]

\* A loop operation is in the queue from its start to its completion, and
\* Domain::Stop() leaves none behind.
LoopInv(o) ==
    /\ life[o] = "unborn" => queue[o] = 0 /\ outcome[o] = None
    /\ life[o] = "live" => \/ queue[o] = 1 /\ outcome[o] = None
                           \/ queue[o] = 0 /\ outcome[o] # None
    /\ life[o] = "dead" => queue[o] = 0
    /\ domain \in {"resetting", "stopped"} => queue[o] = 0

\* Where a live timed operation is, according to its state.
PlaceInv(o) ==
    /\ state[o] = "Pending" => queue[o] = 0 /\ outcome[o] = None /\ cb[o] # "enqueue"
    /\ state[o] # "Pending" =>
         \/ queue[o] = 1 /\ outcome[o] = None /\ cb[o] # "enqueue"
         \/ queue[o] = 0 /\ outcome[o] = None /\ cb[o] = "enqueue" /\ state[o] = "TimerWon"
         \/ queue[o] = 0 /\ outcome[o] # None /\ cb[o] # "enqueue"

\* What still moves a pending operation on.
PendingInv(o) ==
    state[o] = "Pending" =>
        \/ status[o] \in Backend!Pending \/ cb[o] \in {"reset", "cas"}
        \/ o \in toStop \/ (pc \in {"stopCancel", "stopCas"} /\ cur = o)

\* While the callback of a live operation may still write timerId, the field
\* tells the loop thread so, or the loop thread is about to make it.
TimerIdInv(o) ==
    status[o] \in Backend!Pending \/ cb[o] = "reset" =>
        timerId[o] \/ (pc \in {"assign", "stopCancel"} /\ cur = o)

TimedInv(o) ==
    /\ life[o] = "unborn" =>
         /\ queue[o] = 0 /\ outcome[o] = None /\ state[o] = "Pending"
         /\ status[o] = "unused" /\ cb[o] = "idle"
    /\ life[o] # "unborn" => (cb[o] # "idle" <=> status[o] = "inflight")
    /\ life[o] = "live" => PlaceInv(o) /\ PendingInv(o) /\ TimerIdInv(o)
    /\ life[o] = "dead" => status[o] \notin Backend!Pending /\ cb[o] # "reset"
    /\ state[o] = "TimerWon" => status[o] \in {"inflight", "fired"} /\ cb[o] \notin {"reset", "cas"}
    /\ state[o] = "StopWon" => stopReq[o]
    /\ outcome[o] = "value" => status[o] \in {"inflight", "fired"}

\* What is proved of each step, given the types; with them it is inductive.
SafeInv ==
    /\ ThreadInv
    /\ CompletesOnce
    /\ domain = "stopped" => \A o \in Ops : life[o] # "live"
    /\ \A o \in LoopOps : LoopInv(o)
    /\ \A o \in TimedOps : TimedInv(o)

IInv == TypeOK /\ SafeInv
-----------------------------------------------------------------------------
\* Destroying an operation, which frees it or goes on to Cancel(), keeps the types.
LEMMA DestroyTypes ==
  ASSUME TypeOK, NEW o \in Ops, Destroy(o)
  PROVE  TypeOK'
<1>1. \/ UNCHANGED life
      \/ life' = [life EXCEPT ![o] = "dead"]
  BY Zenon DEF Destroy
<1>2. life' \in [Ops -> {"unborn", "live", "dead"}]
  BY <1>1 DEF TypeOK
<1>3. \/ pc' = "dtorCancel" /\ cur' = o /\ UNCHANGED <<domain, draining>>
      \/ UNCHANGED <<domain, draining, pc, cur>>
  BY Zenon DEF Destroy, Goto
<1>4. UNCHANGED <<toStop, stopReq, state, timerId, outcome, queue, cb, backend>>
  BY DEF Destroy
<1> QED
  BY <1>2, <1>3, <1>4 DEF TypeOK, Backend!TypeOK, backend

\* The typing of the state is preserved; the loop thread's place is needed to
\* know that cur is a timed operation where it is used as one.
LEMMA TypeStep == TypeOK /\ ThreadInv /\ [Next]_vars => TypeOK'
<1> SUFFICES ASSUME TypeOK, ThreadInv, [Next]_vars PROVE TypeOK'
  OBVIOUS
<1> USE DEF TypeOK, ThreadInv, Backend!TypeOK, Backend!Pending, Backend!Done, Goto,
            Enqueue, Ops, None, loop, ops, backend
<1>1. ASSUME NEW o \in LoopOps, StartLoop(o) PROVE TypeOK'
  BY <1>1 DEF StartLoop, Connect
<1>2. ASSUME NEW o \in TimedOps, StartTimed(o) PROVE TypeOK'
  BY <1>2 DEF StartTimed, Connect, Backend!ScheduleAt
<1>3. ASSUME NEW o \in Ops, RequestStop(o) PROVE TypeOK'
  BY <1>3 DEF RequestStop, Registered
<1>4. ASSUME NEW o \in Ops, DestroyCompleted(o) PROVE TypeOK'
  BY <1>4, DestroyTypes DEF DestroyCompleted
<1>5. CASE AssignTimerId
  BY <1>5 DEF AssignTimerId
<1>6. CASE StopCancel
  BY <1>6 DEF StopCancel, Backend!Cancel
<1>7. CASE StopCas
  BY <1>7 DEF StopCas
<1>8. CASE DtorCancel
  BY <1>8 DEF DtorCancel, Backend!Cancel
<1>9. ASSUME NEW o \in TimedOps, StopCallback(o) PROVE TypeOK'
  <2>1. \/ timerId' = [timerId EXCEPT ![o] = FALSE] /\ pc' = "stopCancel"
        \/ timerId' = timerId /\ pc' = "stopCas"
    BY <1>9 DEF StopCallback
  <2>2. toStop' = toStop \ {o} /\ cur' = o /\ UNCHANGED <<domain, draining>>
    BY <1>9 DEF StopCallback
  <2>3. UNCHANGED <<life, stopReq, state, outcome, queue, cb, backend>>
    BY <1>9 DEF StopCallback
  <2>4. timerId' \in [TimedOps -> BOOLEAN] /\ pc' \in {"stopCancel", "stopCas"}
    BY <2>1, ZenonT(30)
  <2> QED
    BY <2>2, <2>3, <2>4
<1>10. CASE Update
  BY <1>10 DEF Update
<1>11. CASE Drained
  BY <1>11, Zenon DEF Drained
<1>12. CASE Stopped
  BY <1>12 DEF Stopped
<1>13. ASSUME NEW o \in Ops, Dequeue(o) PROVE TypeOK'
  BY <1>13 DEF Dequeue, Signal
<1>14. ASSUME NEW o \in Ops, Reset(o) PROVE TypeOK'
  BY <1>14, DestroyTypes DEF Reset
<1>15. CASE Stop
  BY <1>15 DEF Stop, Registered, Inherits
<1>16. CASE DeadlinesPass
  BY <1>16 DEF DeadlinesPass, Backend!DeadlinesPass
<1>17. ASSUME NEW o \in TimedOps, Fire(o) PROVE TypeOK'
  BY <1>17 DEF Fire, Backend!Fire
<1>18. ASSUME NEW o \in TimedOps, CbReset(o) PROVE TypeOK'
  BY <1>18 DEF CbReset
<1>19. ASSUME NEW o \in TimedOps, CbCas(o) PROVE TypeOK'
  BY <1>19 DEF CbCas
<1>20. ASSUME NEW o \in TimedOps, CbEnqueue(o) PROVE TypeOK'
  BY <1>20 DEF CbEnqueue
<1>21. ASSUME NEW o \in TimedOps, CbReturn(o) PROVE TypeOK'
  BY <1>21 DEF CbReturn, Backend!Return
<1>22. CASE UNCHANGED vars
  BY <1>22 DEF vars
<1> HIDE DEF TypeOK, ThreadInv
<1> QED
  BY <1>1, <1>2, <1>3, <1>4, <1>5, <1>6, <1>7, <1>8, <1>9, <1>10, <1>11,
     <1>12, <1>13, <1>14, <1>15, <1>16, <1>17, <1>18, <1>19, <1>20, <1>21,
     <1>22 DEF Next, UserCode, LoopThread, Callback

\* ~TimedOperation() skips Cancel() only when it has read an unset timerId.
LEMMA ReadUnset ==
  ASSUME NEW o \in TimedOps, TypeOK, FALSE \in TimerIdReads(o)
  PROVE  timerId[o] = FALSE
  BY Zenon DEF TypeOK, TimerIdReads

\* Destruction, by the owner of a completed operation or by Domain::Stop().
LEMMA DestroyStep ==
  ASSUME IInv, NEW o \in Ops, Free, Destroy(o),
         outcome[o] # None \/ domain = "resetting"
  PROVE  SafeInv'
<1> USE OpsDisjoint DEF IInv, SafeInv, TypeOK, Backend!TypeOK, Backend!Pending,
            Backend!Done, Ops, None, ops, backend, Free
<1>1. CASE life' = life /\ Goto("dtorCancel", o) /\ o \in TimedOps
  <2>1. ThreadInv'
    BY <1>1 DEF ThreadInv, Destroy, Goto
  <2>2. ASSUME NEW q \in LoopOps PROVE LoopInv(q)'
    BY <1>1 DEF LoopInv, Destroy, Goto
  <2>3. ASSUME NEW q \in TimedOps PROVE TimedInv(q)'
    BY <1>1 DEF TimedInv, PlaceInv, PendingInv, TimerIdInv, ThreadInv, Destroy, Goto
  <2> QED
    BY <1>1, <2>1, <2>2, <2>3 DEF CompletesOnce, Destroy, Goto
<1>2. CASE /\ life' = [life EXCEPT ![o] = "dead"]
           /\ UNCHANGED <<domain, draining, pc, cur>>
           /\ o \in TimedOps => FALSE \in TimerIdReads(o)
  <2>0. o \in TimedOps => timerId[o] = FALSE
    BY <1>2, ReadUnset, ZenonT(30)
  <2>1. ThreadInv'
    BY <1>2 DEF ThreadInv, Destroy
  <2>2. ASSUME NEW q \in LoopOps PROVE LoopInv(q)'
    BY <1>2 DEF LoopInv, Destroy
  <2>3. ASSUME NEW q \in TimedOps PROVE TimedInv(q)'
    BY <1>2, <2>0 DEF TimedInv, PlaceInv, PendingInv, TimerIdInv, ThreadInv, Destroy
  <2> QED
    BY <1>2, <2>1, <2>2, <2>3 DEF CompletesOnce, Destroy
<1> QED
  BY <1>1, <1>2, Zenon DEF Destroy

\* The code of senders starts, stops and destroys operations.
LEMMA UserStep == ASSUME IInv, UserCode PROVE SafeInv'
<1>4. ASSUME NEW o \in Ops, DestroyCompleted(o) PROVE SafeInv'
  BY <1>4, DestroyStep DEF DestroyCompleted, InUserCode
<1> USE OpsDisjoint DEF IInv, SafeInv, TypeOK, Backend!TypeOK, Backend!Pending, Backend!Done,
        Ops, None, loop, ops, backend, Goto, CompletesOnce, ThreadInv, LoopInv,
        TimedInv, PlaceInv, PendingInv, TimerIdInv
<1>1. ASSUME NEW o \in LoopOps, StartLoop(o) PROVE SafeInv'
  BY <1>1 DEF StartLoop, Connect, Enqueue, InUserCode, Free
<1>2. ASSUME NEW o \in TimedOps, StartTimed(o) PROVE SafeInv'
  BY <1>2 DEF StartTimed, Connect, Backend!ScheduleAt, Enqueue, InUserCode, Free
<1>3. ASSUME NEW o \in Ops, RequestStop(o) PROVE SafeInv'
  BY <1>3 DEF RequestStop, Registered, InUserCode, Free
<1> HIDE DEF IInv, SafeInv
<1> QED
  BY <1>1, <1>2, <1>3, <1>4 DEF UserCode

\* The loop thread goes on inside an operation, drains the queue and stops.
LEMMA LoopStep == ASSUME IInv, LoopThread PROVE SafeInv'
<1>14. ASSUME NEW o \in Ops, Reset(o) PROVE SafeInv'
  BY <1>14, DestroyStep DEF Reset
<1> USE OpsDisjoint DEF IInv, SafeInv, TypeOK, Backend!TypeOK, Backend!Pending, Backend!Done,
        Ops, None, loop, ops, backend, Goto, CompletesOnce, ThreadInv, LoopInv,
        TimedInv, PlaceInv, PendingInv, TimerIdInv
<1>5. CASE AssignTimerId
  BY <1>5 DEF AssignTimerId
<1>6. CASE StopCancel
  BY <1>6 DEF StopCancel, Backend!Cancel
<1>7. CASE StopCas
  <2>1. CASE Wins(cur)
    <3>1. cur \in TimedOps /\ cur \notin LoopOps /\ stopReq[cur] /\ life[cur] = "live"
      BY <1>7 DEF StopCas
    <3>2. ASSUME NEW q \in LoopOps PROVE LoopInv(q)'
      BY <1>7, <2>1, <3>1 DEF StopCas, Enqueue
    <3>3. ASSUME NEW q \in TimedOps PROVE TimedInv(q)'
      BY <1>7, <2>1, <3>1 DEF StopCas, Wins, Enqueue
    <3> QED
      BY <1>7, <2>1, <3>1, <3>2, <3>3 DEF StopCas
  <2>2. CASE ~Wins(cur)
    BY <1>7, <2>2 DEF StopCas, Wins
  <2> QED
    BY <2>1, <2>2, ZenonT(30)
<1>8. CASE DtorCancel
  BY <1>8 DEF DtorCancel, Backend!Cancel
<1>9. ASSUME NEW o \in TimedOps, StopCallback(o) PROVE SafeInv'
  BY <1>9 DEF StopCallback, TimerIdReads
<1>10. CASE Update
  BY <1>10 DEF Update, Free
<1>11. CASE Drained
  BY <1>11 DEF Drained, Free, QueueEmpty
<1>12. CASE Stopped
  BY <1>12 DEF Stopped, Free
<1>13. ASSUME NEW o \in Ops, Dequeue(o) PROVE SafeInv'
  <2>1. CASE life[o] = "live"
    <3>1. queue[o] = 1 /\ outcome[o] = None
      BY <1>13, <2>1 DEF Dequeue
    <3>2. /\ queue' = [queue EXCEPT ![o] = 0]
          /\ outcome' = [outcome EXCEPT ![o] = IF stopReq[o] THEN "stopped" ELSE "value"]
          /\ UNCHANGED <<domain, draining, pc, cur, toStop, life, stopReq, state, timerId,
                         cb, backend>>
      BY <1>13, <2>1, <3>1 DEF Dequeue, Signal
    <3> QED
      BY <2>1, <3>1, <3>2
  <2>2. CASE life[o] # "live"
    BY <1>13, <2>2 DEF Dequeue, Free
  <2> QED
    BY <2>1, <2>2, ZenonT(30)
<1> HIDE DEF IInv, SafeInv
<1> QED
  BY <1>5, <1>6, <1>7, <1>8, <1>9, <1>10, <1>11, <1>12, <1>13, <1>14 DEF LoopThread

\* Deadlines pass, timers fire and their callbacks run.
LEMMA CallbackStep ==
  ASSUME IInv, DeadlinesPass \/ \E o \in TimedOps : Fire(o) \/ Callback(o)
  PROVE  SafeInv'
<1> USE OpsDisjoint DEF IInv, SafeInv, TypeOK, Backend!TypeOK, Backend!Pending, Backend!Done,
        Ops, None, loop, ops, backend, Goto, CompletesOnce, ThreadInv, LoopInv,
        TimedInv, PlaceInv, PendingInv, TimerIdInv
<1>16. CASE DeadlinesPass
  BY <1>16 DEF DeadlinesPass, Backend!DeadlinesPass
<1>17. ASSUME NEW o \in TimedOps, Fire(o) PROVE SafeInv'
  BY <1>17 DEF Fire, Backend!Fire
<1>18. ASSUME NEW o \in TimedOps, CbReset(o) PROVE SafeInv'
  BY <1>18 DEF CbReset
<1>19. ASSUME NEW o \in TimedOps, CbCas(o) PROVE SafeInv'
  BY <1>19 DEF CbCas, Wins
<1>20. ASSUME NEW o \in TimedOps, CbEnqueue(o) PROVE SafeInv'
  BY <1>20 DEF CbEnqueue, Enqueue
<1>21. ASSUME NEW o \in TimedOps, CbReturn(o) PROVE SafeInv'
  BY <1>21 DEF CbReturn, Backend!Return
<1> HIDE DEF IInv, SafeInv
<1> QED
  BY <1>16, <1>17, <1>18, <1>19, <1>20, <1>21 DEF Callback

\* IInv is inductive.
LEMMA InductiveStep == IInv /\ [Next]_vars => IInv'
<1> SUFFICES ASSUME IInv, [Next]_vars PROVE IInv'
  OBVIOUS
<1>1. TypeOK'
  BY TypeStep DEF IInv, SafeInv
<1>2. CASE Stop \/ UNCHANGED vars
  <2> USE OpsDisjoint DEF IInv, SafeInv, TypeOK, Backend!TypeOK, Backend!Pending, Backend!Done,
          Ops, None, loop, ops, backend, CompletesOnce, ThreadInv, LoopInv,
          TimedInv, PlaceInv, PendingInv, TimerIdInv
  <2>1. CASE Stop
    <3>1. stopReq' = [o \in Ops |-> TRUE] BY <2>1 DEF Stop, Inherits
    <3>2. toStop' = {o \in TimedOps : life[o] = "live" /\ ~stopReq[o]} BY <2>1 DEF Stop, Registered, Inherits
    <3>3. /\ Free /\ domain = "running" /\ domain' = "stopping"
          /\ UNCHANGED <<pc, cur, life, state, timerId, outcome, queue, cb, backend>>
      BY <2>1 DEF Stop
    <3> QED BY <1>1, <3>1, <3>2, <3>3 DEF Free
  <2>2. CASE UNCHANGED vars
    BY <1>1, <2>2 DEF vars
  <2> HIDE DEF IInv
  <2> QED
    BY <1>2, <2>1, <2>2
<1> QED
  BY <1>1, <1>2, UserStep, LoopStep, CallbackStep DEF IInv, Next

\* The invariant holds before the first operation is started.
LEMMA Initially == Init => IInv
<1> SUFFICES ASSUME Init PROVE IInv
  OBVIOUS
<1> USE DEF Init, Backend!Init, Ops, None
<1>1. TypeOK
  BY Zenon DEF TypeOK, Backend!TypeOK
<1>2. ThreadInv /\ CompletesOnce /\ domain # "stopped"
  BY DEF ThreadInv, CompletesOnce
<1>3. ASSUME NEW o \in LoopOps PROVE LoopInv(o)
  BY DEF LoopInv
<1>4. ASSUME NEW o \in TimedOps PROVE TimedInv(o)
  BY DEF TimedInv
<1> QED
  BY <1>1, <1>2, <1>3, <1>4 DEF IInv, SafeInv

\* The inductive invariant holds in every reachable state.
THEOREM Invariance == Spec => []IInv
<1>1. Init => IInv
  BY Initially
<1>2. IInv /\ [Next]_vars => IInv'
  BY InductiveStep
<1> QED
  BY <1>1, <1>2, PTL DEF Spec

-----------------------------------------------------------------------------
\* The variables keep their types, for any number of operations.
THEOREM Typing == Spec => []TypeOK
<1>1. IInv => TypeOK
  BY DEF IInv, SafeInv
<1> QED
  BY <1>1, Invariance, PTL

\* The compare-and-exchange of TryEnqueue() lets one side enqueue the node, so
\* no receiver is completed twice.
THEOREM AtMostOneSignal == Spec => []CompletesOnce
<1>1. IInv => CompletesOnce
  BY DEF IInv, SafeInv
<1> QED
  BY <1>1, Invariance, PTL

\* Execute() sends set_value() only for an operation that its timer enqueued.
THEOREM NoEarlyValue == Spec => []ValueMeansFired
<1>1. IInv => ValueMeansFired
  BY DEF IInv, SafeInv, TimedInv, ValueMeansFired
<1> QED
  BY <1>1, Invariance, PTL

\* Cancel() in TryEnqueueStop() and in the destructor keeps every callback that
\* has not yet written timerId away from a destroyed operation.
THEOREM DestructionIsGuarded == Spec => []CancelProtects
<1>1. IInv => CancelProtects
  BY DEF IInv, SafeInv, TimedInv, CancelProtects
<1> QED
  BY <1>1, Invariance, PTL

\* A timer that is cancelled by a stop, or that loses the exchange, never leaves
\* its operation without anybody to complete it.
THEOREM NobodyStranded == Spec => []NeverStranded
<1>1. IInv => NeverStranded
  BY DEF IInv, SafeInv, TimedInv, PlaceInv, PendingInv, NeverStranded, None
<1> QED
  BY <1>1, Invariance, PTL

\* Domain::Stop() returns with no operation of schedule() alive or queued.
THEOREM StopLeavesNoLoopOp == Spec => []NoDanglingLoopOps
<1>1. IInv => NoDanglingLoopOps
  BY Zenon DEF IInv, SafeInv, LoopInv, NoDanglingLoopOps, Ops
<1> QED
  BY <1>1, Invariance, PTL
=============================================================================
