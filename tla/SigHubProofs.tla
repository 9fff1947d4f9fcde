---------------------------- MODULE SigHubProofs ----------------------------
(* Proofs about SigHub: its locks, its users and its messages, and what a  *)
(* history of calls leaves behind: no message is lost, overtaken or in two *)
(* places, and OnLeft() is called once at most.                            *)
EXTENDS SigHub, TLAPS

Holding == {"locked", "onMessage"}

\* _handlerMutex of a user is held by the call that runs its handler, and there are
\* messages to replay only then.
LockInv(u, d) ==
    /\ call[d].pc # "idle" => call[d].user \in Users
    /\ mutex[u] = d <=> call[d].pc \in Holding /\ call[d].user = u
    /\ replay[u] # <<>> => mutex[u] # None /\ handler[u] = "set"
MutexInv == \A u \in Users, d \in Calls : LockInv(u, d)

\* A user is registered by one call, and is given its handler by it; nothing is
\* pending once the handler is set.
HandlerInv(u, c, d) ==
    /\ handler[u] = "set" => pending[u] = <<>>
    /\ user[u] = "unborn" => handler[u] = None
    /\ call[c].pc = "factory" /\ call[c].user = u =>
         handler[u] = None /\ user[u] # "unborn"
    /\ call[c].pc = "set" /\ call[c].user = u => handler[u] # None
    /\ call[c].pc = "factory" /\ call[d].pc = "factory" /\ call[c].user = call[d].user
         => c = d
JoinInv == \A u \in Users, c, d \in Calls : HandlerInv(u, c, d)

\* Messages have been looked up before they are anywhere, and a call carries a
\* message to the user it was accepted for.
MessageInv(u, c, m, k) ==
    /\ call[c].msg = m => m <= sent /\ target[m] = call[c].user /\ call[c].pc # "idle"
    /\ call[c].pc = "deliver" => call[c].msg \in Msgs
    /\ m \in got[u] \cup Elements(pending[u]) \cup Elements(replay[u]) => m <= sent
    /\ target[m] # None => m <= sent
    /\ k \in prior[m] => k <= sent /\ call[c].msg # k
SentInv == \A u \in Users, c \in Calls, m, k \in Msgs : MessageInv(u, c, m, k)

IInv == TypeOK /\ MutexInv /\ JoinInv /\ SentInv

-----------------------------------------------------------------------------
\* How a step of the call c changes it: to the label l, to a new call, to none.
Moved(c, l) ==
    /\ call'[c].pc = l /\ call'[c].user = call[c].user /\ call'[c].msg = call[c].msg
    /\ \A d \in Calls \ {c} : call'[d] = call[d]
Begun(c, l, u, m) ==
    /\ call'[c].pc = l /\ call'[c].user = u /\ call'[c].msg = m
    /\ \A d \in Calls \ {c} : call'[d] = call[d]
Ended(c) == Begun(c, "idle", None, 0)

\* Goto keeps the types and changes the label of one call.
LEMMA GotoFrame ==
    ASSUME call \in [Calls -> CallType], NEW c \in Calls, NEW l \in Labels, Goto(c, l)
    PROVE call' \in [Calls -> CallType] /\ Moved(c, l)
<1>1. [call[c] EXCEPT !.pc = l] \in CallType BY DEF CallType
<1>2. /\ [call[c] EXCEPT !.pc = l].pc = l
      /\ [call[c] EXCEPT !.pc = l].user = call[c].user
      /\ [call[c] EXCEPT !.pc = l].msg = call[c].msg
  BY DEF CallType
<1> QED BY <1>1, <1>2 DEF Goto, Moved

\* Return ends one call.
LEMMA ReturnFrame ==
    ASSUME call \in [Calls -> CallType], NEW c \in Calls, Return(c)
    PROVE call' \in [Calls -> CallType] /\ Ended(c)
<1>1. Idle \in CallType BY DEF CallType, Idle, Labels
<1> QED BY <1>1 DEF Return, Idle, Ended, Begun

\* Begin makes one call.
LEMMA BeginFrame ==
    ASSUME call \in [Calls -> CallType], NEW c \in Calls, NEW p \in Calls \cup {None},
           NEW l \in Labels, NEW u \in Users, NEW m \in Msgs \cup {0}, Begin(c, p, l, u, m)
    PROVE call' \in [Calls -> CallType] /\ Begun(c, l, u, m)
<1>1. [pc |-> l, user |-> u, msg |-> m, parent |-> p] \in CallType
  BY DEF CallType
<1> QED BY <1>1 DEF Begin, Begun

\* The steps of a call in progress.
LEMMA StepFrame ==
    ASSUME TypeOK, NEW c \in Calls
    PROVE /\ FactoryReturns(c) => Moved(c, "set") \/ Moved(c, "reject")
          /\ Reject(c) \/ Unlock(c) \/ OnLeftReturns(c) => Ended(c)
          /\ SetHandler(c) \/ OnMessageReturns(c) => Moved(c, "locked")
          /\ Deliver(c) => IF Ready(call[c].user) THEN Moved(c, "onMessage") ELSE Ended(c)
          /\ Replay(c) => Moved(c, "onMessage")
          /\ Unregister(c) => Moved(c, "readHandler")
          /\ ReadHandler(c) => IF Ready(call[c].user) THEN Moved(c, "onLeft") ELSE Ended(c)
<1> call \in [Calls -> CallType] BY DEF TypeOK
<1> "set" \in Labels /\ "reject" \in Labels /\ "onMessage" \in Labels
    /\ "locked" \in Labels /\ "readHandler" \in Labels /\ "onLeft" \in Labels
  BY DEF Labels
<1>1. FactoryReturns(c) => Moved(c, "set") \/ Moved(c, "reject")
  BY GotoFrame DEF FactoryReturns
<1>2. Reject(c) \/ Unlock(c) \/ OnLeftReturns(c) => Ended(c)
  BY ReturnFrame DEF Reject, Unlock, OnLeftReturns
<1>3. SetHandler(c) \/ OnMessageReturns(c) => Moved(c, "locked")
  BY GotoFrame DEF SetHandler, OnMessageReturns
<1>4. Deliver(c) => IF Ready(call[c].user) THEN Moved(c, "onMessage") ELSE Ended(c)
  BY GotoFrame, ReturnFrame DEF Deliver, Ready
<1>5. Replay(c) => Moved(c, "onMessage") BY GotoFrame DEF Replay
<1>6. Unregister(c) => Moved(c, "readHandler") BY GotoFrame DEF Unregister
<1>7. ReadHandler(c) => IF Ready(call[c].user) THEN Moved(c, "onLeft") ELSE Ended(c)
  BY GotoFrame, ReturnFrame DEF ReadHandler, Ready
<1> QED BY <1>1, <1>2, <1>3, <1>4, <1>5, <1>6, <1>7

\* The steps that begin a call.
LEMMA BeginStep ==
    ASSUME TypeOK, NEW c \in Calls, NEW p \in Calls \cup {None}
    PROVE /\ \A u \in Users : Register(c, p, u) => Begun(c, "factory", u, 0)
          /\ \A u \in Users : Leave(c, p, u) => Begun(c, "unregister", u, 0)
          /\ \A to \in Peers : Send(c, p, to) =>
               \/ /\ peers[to] \in Users /\ Begun(c, "deliver", peers[to], sent + 1)
                  /\ target' = [target EXCEPT ![sent + 1] = peers[to]]
               \/ UNCHANGED <<call, target>>
          /\ \A to \in Peers : Send(c, p, to) => sent + 1 \in Msgs
<1> call \in [Calls -> CallType] BY DEF TypeOK
<1> "factory" \in Labels /\ "unregister" \in Labels /\ "deliver" \in Labels
  BY DEF Labels
<1>1. ASSUME NEW u \in Users
      PROVE /\ Register(c, p, u) => Begun(c, "factory", u, 0)
            /\ Leave(c, p, u) => Begun(c, "unregister", u, 0)
  BY BeginFrame DEF Register, Leave
<1>2. ASSUME NEW to \in Peers, Send(c, p, to) PROVE sent + 1 \in Msgs
  BY <1>2, SigHubAssumption DEF Send, TypeOK, Msgs
<1>3. ASSUME NEW to \in Peers, Send(c, p, to)
      PROVE \/ /\ peers[to] \in Users /\ Begun(c, "deliver", peers[to], sent + 1)
               /\ target' = [target EXCEPT ![sent + 1] = peers[to]]
            \/ UNCHANGED <<call, target>>
  <2>1. sent + 1 \in Msgs BY <1>2, <1>3
  <2>2. peers[to] \in Users \cup {None} BY DEF TypeOK
  <2> QED BY <1>3, <2>1, <2>2, BeginFrame, Zenon DEF Send, Dispatch
<1> QED BY <1>1, <1>2, <1>3

\* A step of a call is one of a call in progress, for a user.
LEMMA ActiveStep ==
    ASSUME MutexInv, NEW c \in Calls, Step(c)
    PROVE call[c].pc # "idle" /\ call[c].user \in Users
<1>1. call[c].pc # "idle"
  BY Zenon DEF Step, FactoryReturns, Reject, SetHandler, Deliver, OnMessageReturns, Replay, Unlock,
         Unregister, ReadHandler, OnLeftReturns, At
<1> QED BY <1>1, SigHubAssumption DEF MutexInv, LockInv

\* The variables keep their types.
LEMMA TypeStep == TypeOK /\ MutexInv /\ SentInv /\ [Next]_vars => TypeOK'
<1> SUFFICES ASSUME TypeOK, MutexInv, SentInv, [Next]_vars PROVE TypeOK'
  OBVIOUS
<1> USE SigHubAssumption DEF TypeOK, object, history
<1> 1 \in Msgs BY DEF Msgs
<1>1. ASSUME NEW c \in Calls, Step(c) PROVE TypeOK'
  <2> call[c].pc # "idle" /\ call[c].user \in Users BY <1>1, ActiveStep
  <2> call[c].msg \in Msgs \cup {0}
    BY DEF CallType
  <2> "set" \in Labels /\ "reject" \in Labels /\ "onMessage" \in Labels
      /\ "locked" \in Labels /\ "readHandler" \in Labels /\ "onLeft" \in Labels
    BY DEF Labels
  <2>1. CASE FactoryReturns(c) BY <2>1, GotoFrame, ZenonT(30) DEF FactoryReturns
  <2>2. CASE Reject(c) BY <2>2, ReturnFrame DEF Reject, Erased
  <2>3. CASE SetHandler(c)
    <3>1. call' \in [Calls -> CallType] BY <2>3, GotoFrame DEF SetHandler
    <3>2. pending' \in [Users -> Seq(Msgs)] /\ replay' \in [Users -> Seq(Msgs)]
      BY <2>3 DEF SetHandler, PendingMoved
    <3> QED BY <2>3, <3>1, <3>2 DEF SetHandler
  <2>4. CASE Deliver(c)
    <3>1. call[c].msg \in Msgs BY <2>4 DEF Deliver, At, SentInv, MessageInv
    <3>2. call' \in [Calls -> CallType] BY <2>4, GotoFrame, ReturnFrame DEF Deliver
    <3>3. Append(pending[call[c].user], call[c].msg) \in Seq(Msgs) BY <3>1
    <3>4. pending' \in [Users -> Seq(Msgs)] BY <2>4, <3>3, ZenonT(30) DEF Deliver
    <3>5. got[call[c].user] \cup {call[c].msg} \in SUBSET Msgs BY <3>1
    <3>6. \/ /\ got' = [got EXCEPT ![call[c].user] = @ \cup {call[c].msg}]
             /\ mutex' = [mutex EXCEPT ![call[c].user] = c]
          \/ UNCHANGED <<got, mutex>>
      BY <2>4 DEF Deliver
    <3>7. got' \in [Users -> SUBSET Msgs] BY <3>5, <3>6, ZenonT(30)
    <3>8. mutex' \in [Users -> Calls \cup {None}] BY <3>6, ZenonT(30)
    <3> QED BY <2>4, <3>2, <3>4, <3>7, <3>8, Zenon DEF Deliver
  <2>5. CASE OnMessageReturns(c) BY <2>5, GotoFrame DEF OnMessageReturns
  <2>6. CASE Replay(c)
    <3>1. Head(replay[call[c].user]) \in Msgs /\ Tail(replay[call[c].user]) \in Seq(Msgs)
      BY <2>6 DEF Replay, At
    <3>2. call' \in [Calls -> CallType] BY <2>6, GotoFrame DEF Replay
    <3> QED BY <2>6, <3>1, <3>2, ZenonT(30) DEF Replay
  <2>7. CASE Unlock(c) BY <2>7, ReturnFrame DEF Unlock
  <2>8. CASE Unregister(c) BY <2>8, GotoFrame DEF Unregister, Erased
  <2>9. CASE ReadHandler(c)
    <3>1. call' \in [Calls -> CallType]
      <4>1. CASE Ready(call[c].user) BY <2>9, <4>1, GotoFrame DEF ReadHandler
      <4>2. CASE ~Ready(call[c].user) BY <2>9, <4>2, ReturnFrame DEF ReadHandler
      <4> QED BY <4>1, <4>2
    <3>2. onLeft' \in [Users -> Nat]
      <4>1. CASE Ready(call[c].user)
        <5>1. onLeft' = [onLeft EXCEPT ![call[c].user] = onLeft[call[c].user] + 1]
          BY <2>9, <4>1 DEF ReadHandler
        <5> QED BY <5>1
      <4>2. CASE ~Ready(call[c].user) BY <2>9, <4>2 DEF ReadHandler
      <4> QED BY <4>1, <4>2
    <3> QED BY <2>9, <3>1, <3>2, Zenon DEF ReadHandler
  <2>10. CASE OnLeftReturns(c) BY <2>10, ReturnFrame DEF OnLeftReturns
  <2> QED
    BY <1>1, <2>1, <2>2, <2>3, <2>4, <2>5, <2>6, <2>7, <2>8, <2>9, <2>10, ZenonT(30) DEF Step
<1>2. ASSUME NEW c \in Calls, NEW p \in Calls \cup {None}, NEW u \in Users, Register(c, p, u)
      PROVE TypeOK'
  <2> "factory" \in Labels BY DEF Labels
  <2> QED BY <1>2, BeginFrame DEF Register
<1>3. ASSUME NEW c \in Calls, NEW p \in Calls \cup {None}, NEW u \in Users, Leave(c, p, u)
      PROVE TypeOK'
  <2> "unregister" \in Labels BY DEF Labels
  <2> QED BY <1>3, BeginFrame DEF Leave
<1>4. ASSUME NEW c \in Calls, NEW p \in Calls \cup {None}, NEW to \in Peers, Send(c, p, to)
      PROVE TypeOK'
  <2> "deliver" \in Labels BY DEF Labels
  <2>1. sent + 1 \in Msgs /\ Settled \in SUBSET Msgs
    BY <1>4 DEF Send, Settled, Msgs
  <2>2. call' \in [Calls -> CallType] /\ target' \in [Msgs -> Users \cup {None}]
        /\ peers' \in [Peers -> Users \cup {None}]
    BY <1>4, <2>1, BeginFrame, ZenonT(30) DEF Send, Dispatch
  <2> QED BY <1>4, <2>1, <2>2, Zenon DEF Send
<1>5. ASSUME NEW u \in Users, Drop(u) PROVE TypeOK' BY <1>5 DEF Drop
<1>6. ASSUME NEW u \in Users, HandlerExpires(u) PROVE TypeOK' BY <1>6 DEF HandlerExpires
<1>7. CASE HubExpires BY <1>7, Zenon DEF HubExpires
<1>8. CASE UNCHANGED vars BY <1>8 DEF vars
<1> QED BY <1>1, <1>2, <1>3, <1>4, <1>5, <1>6, <1>7, <1>8, ZenonT(30) DEF Next

\* What the steps do to the mutexes, and to the messages to replay.
LEMMA MutexStep == TypeOK /\ MutexInv /\ JoinInv /\ [Next]_vars => MutexInv'
<1> SUFFICES ASSUME TypeOK, MutexInv, JoinInv, [Next]_vars,
                    NEW u \in Users, NEW d \in Calls
             PROVE LockInv(u, d)'
  BY DEF MutexInv
<1> USE DEF object, history, Holding, Moved, Begun, Ended
<1> None \notin Users /\ None \notin Calls BY SigHubAssumption
<1> mutex \in [Users -> Calls \cup {None}] /\ handler \in [Users -> {None, "made", "set", "gone"}]
    /\ DOMAIN replay = Users
  BY DEF TypeOK
<1> LockInv(u, d) BY DEF MutexInv
<1>1. ASSUME NEW c \in Calls, Step(c) PROVE LockInv(u, d)'
  <2> call[c].pc # "idle" /\ call[c].user \in Users BY <1>1, ActiveStep
  <2> LockInv(u, c) /\ LockInv(call[c].user, d) /\ LockInv(call[c].user, c)
    BY DEF MutexInv
  <2>1. CASE FactoryReturns(c)
    <3> Moved(c, "set") \/ Moved(c, "reject") BY <2>1, StepFrame, ZenonT(30)
    <3>2. HandlerInv(u, c, c) BY DEF JoinInv
    <3> QED BY <2>1, <3>2 DEF LockInv, HandlerInv, FactoryReturns, At, None
  <2>2. CASE Reject(c)
    <3> Ended(c) BY <2>2, StepFrame, Zenon
    <3> QED BY <2>2 DEF LockInv, Reject, At
  <2>3. CASE SetHandler(c)
    <3> Moved(c, "locked") BY <2>3, StepFrame, Zenon
    <3> QED BY <2>3, ZenonT(30) DEF LockInv, SetHandler, At
  <2>4. CASE Deliver(c)
    <3> IF Ready(call[c].user) THEN Moved(c, "onMessage") ELSE Ended(c) BY <2>4, StepFrame, Zenon
    <3> QED BY <2>4, ZenonT(30) DEF LockInv, Deliver, At, CanLock, Ready
  <2>5. CASE OnMessageReturns(c)
    <3> Moved(c, "locked") BY <2>5, StepFrame, Zenon
    <3> QED BY <2>5, ZenonT(30) DEF LockInv, OnMessageReturns, At
  <2>6. CASE Replay(c)
    <3> Moved(c, "onMessage") BY <2>6, StepFrame, Zenon
    <3> QED BY <2>6, ZenonT(30) DEF LockInv, Replay, At
  <2>7. CASE Unlock(c)
    <3> Ended(c) BY <2>7, StepFrame, Zenon
    <3> QED BY <2>7, ZenonT(30) DEF LockInv, Unlock, At
  <2>8. CASE Unregister(c)
    <3> Moved(c, "readHandler") BY <2>8, StepFrame, Zenon
    <3> QED BY <2>8, ZenonT(30) DEF LockInv, Unregister, At
  <2>9. CASE ReadHandler(c)
    <3> IF Ready(call[c].user) THEN Moved(c, "onLeft") ELSE Ended(c) BY <2>9, StepFrame, Zenon
    <3> QED BY <2>9, ZenonT(30) DEF LockInv, ReadHandler, At, Ready
  <2>10. CASE OnLeftReturns(c)
    <3> Ended(c) BY <2>10, StepFrame, Zenon
    <3> QED BY <2>10, ZenonT(30) DEF LockInv, OnLeftReturns, At
  <2> QED
    BY <1>1, <2>1, <2>2, <2>3, <2>4, <2>5, <2>6, <2>7, <2>8, <2>9, <2>10 DEF Step
<1>2. ASSUME NEW c \in Calls, NEW p \in Calls \cup {None}, NEW v \in Users, Register(c, p, v)
      PROVE LockInv(u, d)'
  <2>1. Begun(c, "factory", v, 0) BY <1>2, BeginStep, Zenon
  <2> QED BY <1>2, <2>1 DEF Register, CanCall, LockInv
<1>3. ASSUME NEW c \in Calls, NEW p \in Calls \cup {None}, NEW v \in Users, Leave(c, p, v)
      PROVE LockInv(u, d)'
  <2>1. Begun(c, "unregister", v, 0) BY <1>3, BeginStep
  <2> QED BY <1>3, <2>1, ZenonT(30) DEF Leave, CanCall, LockInv
<1>4. ASSUME NEW c \in Calls, NEW p \in Calls \cup {None}, NEW to \in Peers, Send(c, p, to)
      PROVE LockInv(u, d)'
  <2>1. \/ peers[to] \in Users /\ Begun(c, "deliver", peers[to], sent + 1)
        \/ UNCHANGED call
    BY <1>4, BeginStep
  <2> QED BY <1>4, <2>1 DEF Send, CanCall, LockInv
<1>5. ASSUME NEW v \in Users, Drop(v) PROVE LockInv(u, d)'
  BY <1>5 DEF Drop, LockInv
<1>6. ASSUME NEW v \in Users, HandlerExpires(v) PROVE LockInv(u, d)'
  <2>1. /\ call' = call /\ mutex' = mutex /\ replay' = replay
        /\ handler' = [handler EXCEPT ![v] = "gone"]
        /\ \A c \in Calls : call[c].user = v => call[c].pc \notin Holding
    BY <1>6 DEF HandlerExpires
  <2>2. mutex[v] = None BY <2>1 DEF MutexInv, LockInv
  <2> QED BY <2>1, <2>2 DEF LockInv
<1>7. CASE HubExpires BY <1>7 DEF HubExpires, LockInv
<1>8. CASE UNCHANGED vars BY <1>8 DEF vars, LockInv
<1> QED BY <1>1, <1>2, <1>3, <1>4, <1>5, <1>6, <1>7, <1>8 DEF Next
\* A user's handler is made once; what was pending then is not pending any more.
LEMMA JoinStep == TypeOK /\ MutexInv /\ JoinInv /\ [Next]_vars => JoinInv'
<1> SUFFICES ASSUME TypeOK, MutexInv, JoinInv, [Next]_vars,
                    NEW u \in Users, NEW d \in Calls, NEW e \in Calls
             PROVE HandlerInv(u, d, e)'
  BY DEF JoinInv
<1> USE DEF object, history, Moved, Begun, Ended
<1> None \notin Users /\ None \notin Calls BY SigHubAssumption
<1> handler \in [Users -> {None, "made", "set", "gone"}] /\ DOMAIN pending = Users
    /\ DOMAIN user = Users
  BY DEF TypeOK
<1> HandlerInv(u, d, e) BY DEF JoinInv
<1>1. ASSUME NEW c \in Calls, Step(c) PROVE HandlerInv(u, d, e)'
  <2> call[c].pc # "idle" /\ call[c].user \in Users BY <1>1, ActiveStep
  <2> HandlerInv(u, c, d) /\ HandlerInv(u, d, c) /\ HandlerInv(u, c, e) /\ HandlerInv(u, e, c)
    BY DEF JoinInv
  <2>1. CASE FactoryReturns(c)
    <3> Moved(c, "set") \/ Moved(c, "reject") BY <2>1, StepFrame, Zenon
    <3> QED BY <2>1 DEF HandlerInv, FactoryReturns, At, None
  <2>2. CASE Reject(c)
    <3> Ended(c) BY <2>2, StepFrame, Zenon
    <3> QED BY <2>2, ZenonT(30) DEF HandlerInv, Reject, At
  <2>3. CASE SetHandler(c)
    <3> Moved(c, "locked") BY <2>3, StepFrame, Zenon
    <3>1. /\ pending' = [pending EXCEPT ![call[c].user] = <<>>] /\ UNCHANGED user
          /\ handler' = [handler EXCEPT ![call[c].user] = IF @ = "made" THEN "set" ELSE @]
          /\ call[c].pc = "set"
      BY <2>3, Zenon DEF SetHandler, At, PendingMoved
    <3>2. CASE u = call[c].user
      <4>1. handler[u] # None BY <3>1, <3>2, Zenon DEF HandlerInv
      <4>2. pending'[u] = <<>> /\ handler'[u] # None BY <3>1, <3>2, <4>1, Zenon DEF None
      <4> QED BY <3>1, <4>1, <4>2, ZenonT(30) DEF HandlerInv
    <3>3. CASE u # call[c].user
      <4>1. pending'[u] = pending[u] /\ handler'[u] = handler[u] BY <3>1, <3>3, Zenon
      <4> QED BY <3>1, <4>1, ZenonT(30) DEF HandlerInv
    <3> QED BY <3>2, <3>3, Zenon
  <2>4. CASE Deliver(c)
    <3> IF Ready(call[c].user) THEN Moved(c, "onMessage") ELSE Ended(c) BY <2>4, StepFrame, Zenon
    <3> QED BY <2>4, ZenonT(30) DEF HandlerInv, Deliver, At, Ready
  <2>5. CASE OnMessageReturns(c)
    <3> Moved(c, "locked") BY <2>5, StepFrame, Zenon
    <3> QED BY <2>5, ZenonT(30) DEF HandlerInv, OnMessageReturns, At
  <2>6. CASE Replay(c)
    <3> Moved(c, "onMessage") BY <2>6, StepFrame, Zenon
    <3> QED BY <2>6, ZenonT(30) DEF HandlerInv, Replay, At
  <2>7. CASE Unlock(c)
    <3> Ended(c) BY <2>7, StepFrame, Zenon
    <3> QED BY <2>7, Zenon DEF HandlerInv, Unlock, At
  <2>8. CASE Unregister(c)
    <3> Moved(c, "readHandler") BY <2>8, StepFrame, Zenon
    <3> QED BY <2>8, ZenonT(30) DEF HandlerInv, Unregister, At
  <2>9. CASE ReadHandler(c)
    <3> IF Ready(call[c].user) THEN Moved(c, "onLeft") ELSE Ended(c) BY <2>9, StepFrame, Zenon
    <3> QED BY <2>9, ZenonT(30) DEF HandlerInv, ReadHandler, At, Ready
  <2>10. CASE OnLeftReturns(c)
    <3> Ended(c) BY <2>10, StepFrame, Zenon
    <3> QED BY <2>10, Zenon DEF HandlerInv, OnLeftReturns, At
  <2> QED
    BY <1>1, <2>1, <2>2, <2>3, <2>4, <2>5, <2>6, <2>7, <2>8, <2>9, <2>10, ZenonT(30) DEF Step
<1>2. ASSUME NEW c \in Calls, NEW p \in Calls \cup {None}, NEW v \in Users, Register(c, p, v)
      PROVE HandlerInv(u, d, e)'
  <2>1. Begun(c, "factory", v, 0) BY <1>2, BeginStep, Zenon
  <2>2. HandlerInv(v, d, e) /\ HandlerInv(v, e, d) BY DEF JoinInv
  <2> QED BY <1>2, <2>1, <2>2, ZenonT(30) DEF Register, CanCall, HandlerInv
<1>3. ASSUME NEW c \in Calls, NEW p \in Calls \cup {None}, NEW v \in Users, Leave(c, p, v)
      PROVE HandlerInv(u, d, e)'
  <2>1. Begun(c, "unregister", v, 0) BY <1>3, BeginStep, Zenon
  <2> QED BY <1>3, <2>1 DEF Leave, CanCall, HandlerInv
<1>4. ASSUME NEW c \in Calls, NEW p \in Calls \cup {None}, NEW to \in Peers, Send(c, p, to)
      PROVE HandlerInv(u, d, e)'
  <2>1. \/ /\ peers[to] \in Users /\ Begun(c, "deliver", peers[to], sent + 1)
           /\ target' = [target EXCEPT ![sent + 1] = peers[to]]
        \/ UNCHANGED <<call, target>>
    BY <1>4, BeginStep, Zenon
  <2> QED BY <1>4, <2>1 DEF Send, CanCall, HandlerInv
<1>5. ASSUME NEW v \in Users, Drop(v) PROVE HandlerInv(u, d, e)'
  BY <1>5, ZenonT(30) DEF Drop, HandlerInv
<1>6. ASSUME NEW v \in Users, HandlerExpires(v) PROVE HandlerInv(u, d, e)'
  <2>1. HandlerInv(v, d, e) BY DEF JoinInv
  <2> QED BY <1>6, <2>1 DEF HandlerExpires, HandlerInv, None
<1>7. CASE HubExpires BY <1>7 DEF HubExpires, HandlerInv
<1>8. CASE UNCHANGED vars BY <1>8 DEF vars, HandlerInv
<1> QED BY <1>1, <1>2, <1>3, <1>4, <1>5, <1>6, <1>7, <1>8 DEF Next

\* Most steps leave the messages alone: they change a call that is not about to
\* deliver one.
Quiet ==
    /\ UNCHANGED <<handler, pending, replay, sent, target, prior, got>>
    /\ \A d \in Calls :
         \/ call'[d] = call[d]
         \/ /\ call[d].pc # "deliver" /\ call'[d].pc # "deliver"
            /\ \/ call'[d].msg = 0
               \/ /\ call'[d].msg = call[d].msg /\ call'[d].user = call[d].user
                  /\ call'[d].pc # "idle"

\* Every step is one of those that move a message or set a handler, or is quiet.
LEMMA MessageCases ==
    ASSUME TypeOK, [Next]_vars
    PROVE \/ Quiet
          \/ \E c \in Calls : FactoryReturns(c) \/ SetHandler(c) \/ Deliver(c) \/ Replay(c)
          \/ \E c \in Calls, p \in Calls \cup {None}, to \in Peers : Send(c, p, to)
          \/ \E v \in Users : HandlerExpires(v)
<1> USE DEF object, history, Moved, Begun, Ended
<1>1. ASSUME NEW c \in Calls, Reject(c) \/ Unlock(c) \/ OnLeftReturns(c) PROVE Quiet
  <2>1. Ended(c) BY <1>1, StepFrame, Zenon
  <2> QED BY <1>1, <2>1 DEF Quiet, Reject, Unlock, OnLeftReturns, At
<1>2. ASSUME NEW c \in Calls, OnMessageReturns(c) PROVE Quiet
  <2>1. Moved(c, "locked") BY <1>2, StepFrame, Zenon
  <2> QED BY <1>2, <2>1, Zenon DEF Quiet, OnMessageReturns, At
<1>3. ASSUME NEW c \in Calls, Unregister(c) PROVE Quiet
  <2>1. Moved(c, "readHandler") BY <1>3, StepFrame, Zenon
  <2> QED BY <1>3, <2>1, Zenon DEF Quiet, Unregister, At
<1>4. ASSUME NEW c \in Calls, ReadHandler(c) PROVE Quiet
  <2>1. Moved(c, "onLeft") \/ Ended(c) BY <1>4, StepFrame, Zenon
  <2>2. call[c].pc = "readHandler" /\ UNCHANGED <<object, sent, target, prior, got>>
    BY <1>4, ZenonT(30) DEF ReadHandler, At
  <2> QED BY <2>1, <2>2, Zenon DEF Quiet
<1>5. ASSUME NEW c \in Calls, NEW p \in Calls \cup {None}, NEW v \in Users, Register(c, p, v)
      PROVE Quiet
  <2>1. Begun(c, "factory", v, 0) BY <1>5, BeginStep
  <2> QED BY <1>5, <2>1 DEF Quiet, Register, CanCall
<1>6. ASSUME NEW c \in Calls, NEW p \in Calls \cup {None}, NEW v \in Users, Leave(c, p, v)
      PROVE Quiet
  <2>1. Begun(c, "unregister", v, 0) BY <1>6, BeginStep
  <2> QED BY <1>6, <2>1 DEF Quiet, Leave, CanCall
<1>7. ASSUME NEW v \in Users, Drop(v) PROVE Quiet BY <1>7 DEF Drop, Quiet
<1>8. CASE HubExpires BY <1>8 DEF HubExpires, Quiet
<1>9. CASE UNCHANGED vars BY <1>9 DEF vars, Quiet
<1> QED BY <1>1, <1>2, <1>3, <1>4, <1>5, <1>6, <1>7, <1>8, <1>9 DEF Next, Step

\* What Append() and Tail() do to the messages of a queue.
LEMMA ElementsAppend ==
    ASSUME NEW s \in Seq(Msgs), NEW m \in Msgs
    PROVE Elements(Append(s, m)) = Elements(s) \cup {m}
<1>1. /\ DOMAIN Append(s, m) = DOMAIN s \cup {Len(s) + 1}
      /\ Append(s, m)[Len(s) + 1] = m
      /\ \A i \in DOMAIN s : Append(s, m)[i] = s[i]
  OBVIOUS
<1> HIDE DEF Msgs
<1> QED BY <1>1 DEF Elements

\* Replay takes the first message out of the queue.
LEMMA ElementsTail ==
    ASSUME NEW s \in Seq(Msgs), s # <<>>
    PROVE Elements(s) = Elements(Tail(s)) \cup {Head(s)}
<1>1. /\ 1 \in DOMAIN s /\ Head(s) = s[1]
      /\ \A i \in DOMAIN Tail(s) : i + 1 \in DOMAIN s /\ Tail(s)[i] = s[i + 1]
      /\ \A i \in DOMAIN s : i = 1 \/ (i - 1 \in DOMAIN Tail(s) /\ (i - 1) + 1 = i)
  OBVIOUS
<1> QED BY <1>1 DEF Elements

\* An empty queue holds no message.
LEMMA ElementsEmpty == Elements(<<>>) = {}
BY DEF Elements

\* What the steps do to the messages.
LEMMA SentStep == TypeOK /\ MutexInv /\ SentInv /\ [Next]_vars => SentInv'
<1> SUFFICES ASSUME TypeOK, MutexInv, SentInv, [Next]_vars,
                    NEW u \in Users, NEW d \in Calls, NEW m \in Msgs, NEW k \in Msgs
             PROVE MessageInv(u, d, m, k)'
  BY DEF SentInv
<1> USE DEF object, history, Moved, Begun, Ended
<1> None \notin Users /\ None \notin Calls BY SigHubAssumption
<1> /\ DOMAIN pending = Users /\ DOMAIN replay = Users /\ DOMAIN got = Users
    /\ DOMAIN target = Msgs /\ DOMAIN prior = Msgs
    /\ sent \in Nat /\ m \in Nat \ {0} /\ k \in Nat \ {0}
  BY SigHubAssumption DEF TypeOK, Msgs
<1> MessageInv(u, d, m, k) BY DEF SentInv
<1>1. CASE Quiet BY <1>1 DEF Quiet, MessageInv
<1>2. ASSUME NEW c \in Calls, FactoryReturns(c) \/ SetHandler(c) \/ Deliver(c) \/ Replay(c)
      PROVE MessageInv(u, d, m, k)'
  <2> call[c].pc # "idle" /\ call[c].user \in Users BY <1>2, ActiveStep, Zenon DEF Step
  <2> MessageInv(u, c, m, k) /\ MessageInv(call[c].user, c, m, k)
    BY DEF SentInv
  <2>1. CASE FactoryReturns(c)
    <3> Moved(c, "set") \/ Moved(c, "reject") BY <2>1, StepFrame, Zenon
    <3> QED BY <2>1 DEF MessageInv, FactoryReturns, At
  <2>2. CASE SetHandler(c)
    <3> Moved(c, "locked") BY <2>2, StepFrame, Zenon
    <3> QED BY <2>2, ElementsEmpty DEF MessageInv, SetHandler, At, PendingMoved
  <2>3. CASE Deliver(c)
    <3>1. IF Ready(call[c].user) THEN Moved(c, "onMessage") ELSE Ended(c) BY <2>3, StepFrame, Zenon
    <3>2. call[c].msg \in Msgs BY <2>3, Zenon DEF MessageInv, Deliver, At
    <3>3. MessageInv(u, c, call[c].msg, k) BY <3>2, Zenon DEF SentInv
    <3>4. Elements(Append(pending[call[c].user], call[c].msg))
            = Elements(pending[call[c].user]) \cup {call[c].msg}
      BY <3>2, ElementsAppend, Zenon DEF TypeOK
    <3>5. CASE Ready(call[c].user)
      <4>1. /\ got' = [got EXCEPT ![call[c].user] = @ \cup {call[c].msg}]
            /\ Moved(c, "onMessage") /\ call[c].pc = "deliver"
            /\ UNCHANGED <<pending, replay, sent, target, prior>>
        BY <2>3, <3>1, <3>5, Zenon DEF Deliver, At
      <4>2. m \in got'[u] => m \in got[u] \/ m = call[c].msg BY <4>1, Zenon
      <4> QED BY <3>3, <4>1, <4>2, ZenonT(30) DEF MessageInv
    <3>6. CASE ~Ready(call[c].user)
      <4>1. /\ pending' = [pending EXCEPT ![call[c].user] = Append(@, call[c].msg)]
            /\ Ended(c) /\ UNCHANGED <<got, replay, sent, target, prior>>
        BY <2>3, <3>1, <3>6, Zenon DEF Deliver
      <4>2. m \in Elements(pending'[u]) => m \in Elements(pending[u]) \/ m = call[c].msg
        BY <3>4, <4>1, Zenon
      <4> QED BY <3>3, <4>1, <4>2, Zenon DEF MessageInv
    <3> QED BY <3>5, <3>6, Zenon
  <2>4. CASE Replay(c)
    <3> Moved(c, "onMessage") BY <2>4, StepFrame, Zenon
    <3>2. Elements(replay[call[c].user])
            = Elements(Tail(replay[call[c].user])) \cup {Head(replay[call[c].user])}
      BY <2>4, ElementsTail, Zenon DEF Replay, TypeOK
    <3> QED BY <2>4, <3>2, ZenonT(30) DEF MessageInv, Replay, At
  <2> QED BY <1>2, <2>1, <2>2, <2>3, <2>4
<1>3. ASSUME NEW c \in Calls, NEW p \in Calls \cup {None}, NEW to \in Peers, Send(c, p, to)
      PROVE MessageInv(u, d, m, k)'
  <2>1. \/ /\ peers[to] \in Users /\ Begun(c, "deliver", peers[to], sent + 1)
           /\ target' = [target EXCEPT ![sent + 1] = peers[to]]
        \/ UNCHANGED <<call, target>>
    BY <1>3, BeginStep, ZenonT(30)
  <2>2. sent + 1 \in Msgs BY <1>3, BeginStep
  <2>3. k \in Settled => k <= sent /\ call[d].msg # k BY DEF Settled
  <2>4. /\ sent' = sent + 1 /\ prior' = [prior EXCEPT ![sent + 1] = Settled]
        /\ call[c].pc = "idle" /\ UNCHANGED <<pending, replay, got>>
    BY <1>3 DEF Send, CanCall
  <2> QED BY <2>1, <2>2, <2>3, <2>4 DEF MessageInv
<1>4. ASSUME NEW v \in Users, HandlerExpires(v) PROVE MessageInv(u, d, m, k)'
  BY <1>4 DEF HandlerExpires, MessageInv
<1> QED BY <1>1, <1>2, <1>3, <1>4, MessageCases

-----------------------------------------------------------------------------
\* The constructors of SigHub and HubUser establish the inductive invariant.
LEMMA InitInv == Init => IInv
<1> SUFFICES ASSUME Init PROVE IInv OBVIOUS
<1> USE SigHubAssumption DEF Init
<1>1. TypeOK
  <2>1. Idle \in CallType BY DEF Idle, CallType, Labels
  <2> QED BY <2>1 DEF TypeOK, Msgs
<1>2. MutexInv BY DEF MutexInv, LockInv, Idle, Holding
<1>3. JoinInv BY DEF JoinInv, HandlerInv, Idle, None
<1>4. SentInv
  <2>1. \A m \in Msgs : m # 0 BY DEF Msgs
  <2> QED BY <2>1, ElementsEmpty DEF SentInv, MessageInv, Idle
<1> QED BY <1>1, <1>2, <1>3, <1>4 DEF IInv

\* The inductive invariant holds through Register(), Dispatch(), Deliver(),
\* SetHandler() and Leave(), in any interleaving and nesting of the calls.
THEOREM Invariance == Spec => []IInv
<1>1. IInv /\ [Next]_vars => IInv'
  BY TypeStep, MutexStep, JoinStep, SentStep DEF IInv
<1> QED BY InitInv, <1>1, PTL DEF Spec

\* The variables have the types that TypeOK gives them, in particular the map of
\* registered users (SigHub::_peers) keeps an entry or none for every id.
THEOREM Typing == Spec => []TypeOK
<1>1. IInv => TypeOK BY DEF IInv
<1> QED BY Invariance, <1>1, PTL

-----------------------------------------------------------------------------

\* A message that is not on its way has been given to the handler, or waits to be,
\* unless the handler is gone.
Placed(u, m) == target[m] = u =>
    \/ m \in got[u] \cup Elements(pending[u]) \cup Elements(replay[u])
    \/ handler[u] = "gone"
    \/ \E c \in Calls : call[c].pc = "deliver" /\ call[c].msg = m
PlaceInv == \A u \in Users, m \in Msgs : Placed(u, m)

\* Each message of s comes after the earlier ones for u, which are in G or before
\* it in s.
Ordered(s, u, G, P, T) ==
    \A j \in DOMAIN s : \A k \in P[s[j]] :
        T[k] = u => k \in G \/ \E i \in DOMAIN s : i < j /\ s[i] = k

QueueInv(u) ==
    /\ handler[u] # "gone" => Ordered(pending[u], u, got[u], prior, target)
    /\ Ordered(replay[u], u, got[u], prior, target)
    /\ \A m \in got[u] : \A k \in prior[m] : target[k] = u => k \in got[u]
OrderInv == \A u \in Users : QueueInv(u)

-----------------------------------------------------------------------------
\* A message is not lost.
LEMMA PlaceStep == TypeOK /\ MutexInv /\ JoinInv /\ SentInv /\ PlaceInv /\ [Next]_vars => PlaceInv'
<1> SUFFICES ASSUME TypeOK, MutexInv, JoinInv, SentInv, PlaceInv, [Next]_vars,
                    NEW u \in Users, NEW m \in Msgs
             PROVE Placed(u, m)'
  BY DEF PlaceInv
<1> USE DEF object, history, Moved, Begun, Ended
<1> None \notin Users /\ None \notin Calls BY SigHubAssumption
<1> /\ DOMAIN pending = Users /\ DOMAIN replay = Users /\ DOMAIN got = Users
    /\ DOMAIN target = Msgs /\ sent \in Nat /\ m \in Nat \ {0}
    /\ handler \in [Users -> {None, "made", "set", "gone"}]
  BY SigHubAssumption DEF TypeOK, Msgs
<1> Placed(u, m) BY DEF PlaceInv
<1>1. CASE Quiet BY <1>1 DEF Quiet, Placed
<1>2. ASSUME NEW c \in Calls, FactoryReturns(c) \/ SetHandler(c) \/ Deliver(c) \/ Replay(c)
      PROVE Placed(u, m)'
  <2> call[c].pc # "idle" /\ call[c].user \in Users BY <1>2, ActiveStep DEF Step
  <2> HandlerInv(u, c, c) BY DEF JoinInv
  <2>1. CASE FactoryReturns(c)
    <3> Moved(c, "set") \/ Moved(c, "reject") BY <2>1, StepFrame, Zenon
    <3> QED BY <2>1 DEF Placed, FactoryReturns, At, HandlerInv, None
  <2>2. CASE SetHandler(c)
    <3> Moved(c, "locked") BY <2>2, StepFrame, Zenon
    <3>2. LockInv(call[c].user, c) BY Zenon DEF MutexInv
    <3> QED BY <2>2, <3>2, ElementsEmpty
       , ZenonT(30) DEF Placed, HandlerInv, LockInv, SetHandler, At, PendingMoved
  <2>3. CASE Deliver(c)
    <3>1. IF Ready(call[c].user) THEN Moved(c, "onMessage") ELSE Ended(c) BY <2>3, StepFrame, Zenon
    <3>2. MessageInv(u, c, m, m) BY Zenon DEF SentInv
    <3>3. call[c].msg \in Msgs BY <2>3, <3>2, Zenon DEF MessageInv, Deliver, At
    <3>4. MessageInv(u, c, call[c].msg, m) BY <3>3, Zenon DEF SentInv
    <3>5. Elements(Append(pending[call[c].user], call[c].msg))
            = Elements(pending[call[c].user]) \cup {call[c].msg}
      BY <3>3, ElementsAppend, Zenon DEF TypeOK
    <3>6. CASE Ready(call[c].user)
      <4>1. /\ got' = [got EXCEPT ![call[c].user] = @ \cup {call[c].msg}]
            /\ UNCHANGED <<pending, replay, handler, target>>
            /\ call[c].pc = "deliver" /\ Moved(c, "onMessage")
        BY <2>3, <3>1, <3>6, Zenon DEF Deliver, At
      <4>2. got[u] \subseteq got'[u] /\ call[c].msg \in got'[call[c].user] BY <4>1, Zenon
      <4>3. target[call[c].msg] = call[c].user BY <3>4, Zenon DEF MessageInv
      <4>4. CASE m = call[c].msg BY <4>1, <4>2, <4>3, <4>4, Zenon DEF Placed
      <4>5. CASE m # call[c].msg BY <4>1, <4>2, <4>5, ZenonT(30) DEF Placed, Moved
      <4> QED BY <4>4, <4>5, Zenon
    <3>7. CASE ~Ready(call[c].user)
      <4>1. /\ pending' = [pending EXCEPT ![call[c].user] = Append(@, call[c].msg)]
            /\ Ended(c) /\ UNCHANGED <<got, replay, handler, target>>
        BY <2>3, <3>1, <3>7, Zenon DEF Deliver
      <4>2. CASE m = call[c].msg BY <3>4, <3>5, <4>1, <4>2, Zenon DEF Placed, MessageInv
      <4>3. CASE m # call[c].msg BY <3>5, <4>1, <4>3 DEF Placed
      <4> QED BY <4>2, <4>3, Zenon
    <3> QED BY <3>6, <3>7, Zenon
  <2>4. CASE Replay(c)
    <3> Moved(c, "onMessage") BY <2>4, StepFrame, Zenon
    <3>2. Elements(replay[call[c].user])
            = Elements(Tail(replay[call[c].user])) \cup {Head(replay[call[c].user])}
      BY <2>4, ElementsTail, Zenon DEF Replay, TypeOK
    <3> QED BY <2>4, <3>2 DEF Placed, Replay, At
  <2> QED BY <1>2, <2>1, <2>2, <2>3, <2>4
<1>3. ASSUME NEW c \in Calls, NEW p \in Calls \cup {None}, NEW to \in Peers, Send(c, p, to)
      PROVE Placed(u, m)'
  <2>1. \/ /\ peers[to] \in Users /\ Begun(c, "deliver", peers[to], sent + 1)
           /\ target' = [target EXCEPT ![sent + 1] = peers[to]]
        \/ UNCHANGED <<call, target>>
    BY <1>3, BeginStep, Zenon
  <2>2. sent + 1 \in Msgs BY <1>3, BeginStep, ZenonT(30)
  <2>3. MessageInv(u, c, m, m) BY DEF SentInv
  <2>4. call[c].pc = "idle" /\ UNCHANGED <<pending, replay, got, handler>>
    BY <1>3, Zenon DEF Send, CanCall
  <2> QED BY <2>1, <2>2, <2>3, <2>4 DEF MessageInv, Placed
<1>4. ASSUME NEW v \in Users, HandlerExpires(v) PROVE Placed(u, m)'
  BY <1>4, Zenon DEF HandlerExpires, Placed
<1> QED BY <1>1, <1>2, <1>3, <1>4, MessageCases

\* What Append() and Tail() do to a queue in order.
LEMMA OrderedEmpty ==
    ASSUME NEW u, NEW G, NEW P, NEW T PROVE Ordered(<<>>, u, G, P, T)
BY DEF Ordered

\* Deliver() without a handler keeps the order of what is pending.
LEMMA OrderedAppend ==
    ASSUME NEW s \in Seq(Msgs), NEW m \in Msgs, NEW u, NEW G, NEW P, NEW T,
           Ordered(s, u, G, P, T),
           \A k \in P[m] : T[k] = u => k \in G \cup Elements(s)
    PROVE Ordered(Append(s, m), u, G, P, T)
<1>1. /\ DOMAIN s = 1..Len(s) /\ Len(s) \in Nat
      /\ DOMAIN Append(s, m) = DOMAIN s \cup {Len(s) + 1}
      /\ Append(s, m)[Len(s) + 1] = m
      /\ \A i \in DOMAIN s : Append(s, m)[i] = s[i]
  OBVIOUS
<1> SUFFICES ASSUME NEW j \in DOMAIN Append(s, m), NEW k \in P[Append(s, m)[j]],
                    T[k] = u, k \notin G
             PROVE \E i \in DOMAIN Append(s, m) : i < j /\ Append(s, m)[i] = k
  BY DEF Ordered
<1>2. CASE j \in DOMAIN s
  <2>1. PICK i \in DOMAIN s : i < j /\ s[i] = k BY <1>1, <1>2 DEF Ordered
  <2> QED BY <1>1, <2>1
<1>3. CASE j = Len(s) + 1
  <2>1. PICK i \in DOMAIN s : s[i] = k BY <1>1, <1>3 DEF Elements
  <2> QED BY <1>1, <1>3, <2>1
<1> QED BY <1>1, <1>2, <1>3

\* Replay keeps the order of what is left.
LEMMA OrderedTail ==
    ASSUME NEW s \in Seq(Msgs), s # <<>>, NEW u, NEW G, NEW P, NEW T, Ordered(s, u, G, P, T)
    PROVE /\ \A k \in P[Head(s)] : T[k] = u => k \in G
          /\ Ordered(Tail(s), u, G \cup {Head(s)}, P, T)
<1>1. /\ DOMAIN s = 1..Len(s) /\ Len(s) \in Nat /\ 1 \in DOMAIN s /\ Head(s) = s[1]
      /\ DOMAIN Tail(s) = 1..(Len(s) - 1)
      /\ \A i \in DOMAIN Tail(s) : i + 1 \in DOMAIN s /\ Tail(s)[i] = s[i + 1]
  OBVIOUS
<1>2. \A k \in P[Head(s)] : T[k] = u => k \in G BY <1>1 DEF Ordered
<1>3. ASSUME NEW j \in DOMAIN Tail(s), NEW k \in P[Tail(s)[j]], T[k] = u,
             k \notin G \cup {Head(s)}
      PROVE \E i \in DOMAIN Tail(s) : i < j /\ Tail(s)[i] = k
  <2>1. PICK i \in DOMAIN s : i < j + 1 /\ s[i] = k BY <1>1, <1>3 DEF Ordered
  <2>2. i # 1 BY <1>1, <1>3, <2>1
  <2>3. i - 1 \in DOMAIN Tail(s) /\ i - 1 < j /\ (i - 1) + 1 = i BY <1>1, <2>1, <2>2
  <2> QED BY <1>1, <2>1, <2>3
<1> QED BY <1>2, <1>3 DEF Ordered

\* The messages before the one that Deliver() has the mutex for have been given to
\* the handler or are pending.
LEMMA Arrived ==
    ASSUME TypeOK, MutexInv, JoinInv, SentInv, PlaceInv, NEW c \in Calls, Deliver(c),
           call[c].user \in Users, handler[call[c].user] # "gone",
           NEW k \in Msgs, k \in prior[call[c].msg], target[k] = call[c].user
    PROVE /\ call[c].msg \in Msgs
          /\ k \in got[call[c].user] \cup Elements(pending[call[c].user])
<1> DEFINE u == call[c].user
<1>1. MessageInv(u, c, k, k) BY DEF SentInv
<1>2. call[c].msg \in Msgs BY <1>1 DEF MessageInv, Deliver, At
<1>3. \A d \in Calls : MessageInv(u, d, call[c].msg, k) BY <1>2 DEF SentInv
<1>4. \A d \in Calls : call[d].msg # k BY <1>3, Zenon DEF MessageInv
<1>5. Placed(u, k) /\ LockInv(u, c) BY Zenon DEF PlaceInv, MutexInv
<1>6. replay[u] = <<>> BY <1>5, Zenon DEF LockInv, Deliver, CanLock
<1> QED BY <1>2, <1>4, <1>5, <1>6, ElementsEmpty DEF Placed

\* The queues stay in order, and what a handler gets is in order.
LEMMA OrderStep == TypeOK /\ MutexInv /\ JoinInv /\ SentInv /\ PlaceInv /\ OrderInv /\ [Next]_vars => OrderInv'
<1> SUFFICES ASSUME TypeOK, MutexInv, JoinInv, SentInv, PlaceInv, OrderInv, [Next]_vars,
                    NEW u \in Users
             PROVE QueueInv(u)'
  BY DEF OrderInv
<1> USE DEF object, history, Moved, Begun, Ended
<1> None \notin Users /\ None \notin Calls BY SigHubAssumption
<1> /\ pending \in [Users -> Seq(Msgs)] /\ replay \in [Users -> Seq(Msgs)]
    /\ got \in [Users -> SUBSET Msgs] /\ prior \in [Msgs -> SUBSET Msgs]
    /\ DOMAIN target = Msgs /\ sent \in Nat
    /\ handler \in [Users -> {None, "made", "set", "gone"}]
  BY SigHubAssumption DEF TypeOK, Msgs
<1> QueueInv(u) BY DEF OrderInv
<1>1. CASE Quiet BY <1>1 DEF Quiet, QueueInv
<1>2. ASSUME NEW c \in Calls, FactoryReturns(c) \/ SetHandler(c) \/ Deliver(c) \/ Replay(c)
      PROVE QueueInv(u)'
  <2> call[c].pc # "idle" /\ call[c].user \in Users BY <1>2, ActiveStep, ZenonT(30) DEF Step
  <2> HandlerInv(u, c, c) /\ LockInv(u, c) BY DEF JoinInv, MutexInv
  <2>1. CASE FactoryReturns(c)
    BY <2>1 DEF QueueInv, FactoryReturns, At, HandlerInv, None
  <2>2. CASE SetHandler(c)
    <3>2. CASE u # call[c].user BY <2>2, <3>2, Zenon DEF QueueInv, SetHandler
    <3>3. CASE u = call[c].user
      BY <2>2, <3>3, OrderedEmpty, Zenon DEF QueueInv, SetHandler, PendingMoved
    <3> QED BY <3>2, <3>3
  <2>3. CASE Deliver(c)
    <3>2. CASE u # call[c].user BY <2>3, <3>2, ZenonT(30) DEF QueueInv, Deliver, Ready
    <3>3. CASE u = call[c].user
      <4> DEFINE m == call[c].msg
      <4>1. 1 \in Msgs BY SigHubAssumption DEF Msgs
      <4>2. m \in Msgs BY <2>3, <4>1, Zenon DEF SentInv, MessageInv, Deliver, At
      <4>3. handler[u] # "gone" => \A k \in prior[m] :
               target[k] = u => k \in got[u] \cup Elements(pending[u])
        BY <2>3, <3>3, <4>2, Arrived, Zenon
      <4>4. CASE Ready(u)
        <5>1. handler[u] = "set" /\ pending[u] = <<>> BY <4>4 DEF Ready, HandlerInv
        <5>2. replay[u] = <<>> BY <2>3, <3>3, Zenon DEF LockInv, Deliver, CanLock
        <5>3. /\ got'[u] = got[u] \cup {m}
              /\ UNCHANGED <<pending, replay, prior, target, handler>>
          BY <2>3, <3>3, <4>4, ZenonT(30) DEF Deliver
        <5>4. \A k \in prior[m] : target[k] = u => k \in got[u]
          BY <4>3, <5>1, ElementsEmpty
        <5> HIDE DEF m
        <5>5. \A x \in got'[u] : \A k \in prior'[x] : target'[k] = u => k \in got'[u]
          BY <5>3, <5>4, Zenon DEF QueueInv
        <5>6. pending'[u] = <<>> /\ replay'[u] = <<>> BY <5>1, <5>2, <5>3, Zenon
        <5>7. Ordered(<<>>, u, got'[u], prior', target') BY OrderedEmpty, Zenon
        <5> QED BY <5>5, <5>6, <5>7, ZenonT(30) DEF QueueInv
      <4>5. CASE ~Ready(u)
        <5>1. /\ pending'[u] = Append(pending[u], m)
              /\ UNCHANGED <<got, replay, prior, target, handler>>
          BY <2>3, <3>3, <4>5, Zenon DEF Deliver
        <5>2. handler[u] # "gone" => Ordered(Append(pending[u], m), u, got[u], prior, target)
          BY <4>2, <4>3, OrderedAppend, Zenon DEF QueueInv
        <5> QED BY <5>1, <5>2, Zenon DEF QueueInv
      <4> QED BY <4>4, <4>5, Zenon
    <3> QED BY <3>2, <3>3
  <2>4. CASE Replay(c)
    <3>2. CASE u # call[c].user BY <2>4, <3>2, Zenon DEF QueueInv, Replay
    <3>3. CASE u = call[c].user
      <4> DEFINE h == Head(replay[u])
      <4>1. /\ \A k \in prior[h] : target[k] = u => k \in got[u]
            /\ Ordered(Tail(replay[u]), u, got[u] \cup {h}, prior, target)
        <5>1. replay[u] \in Seq(Msgs) /\ replay[u] # <<>> BY <2>4, <3>3, Zenon DEF Replay
        <5>2. Ordered(replay[u], u, got[u], prior, target) BY Zenon DEF QueueInv
        <5> QED BY <5>1, <5>2, OrderedTail, Zenon
      <4>2. /\ got'[u] = got[u] \cup {h} /\ replay'[u] = Tail(replay[u])
            /\ UNCHANGED <<pending, prior, target, handler>>
        BY <2>4, <3>3, Zenon DEF Replay
      <4>3. handler[u] = "set" /\ pending[u] = <<>>
        BY <2>4, <3>3, Zenon DEF LockInv, HandlerInv, Replay
      <4> HIDE DEF h
      <4>4. Ordered(<<>>, u, got'[u], prior', target') BY OrderedEmpty, Zenon
      <4>5. Ordered(replay'[u], u, got'[u], prior', target') BY <4>1, <4>2, Zenon
      <4>6. \A x \in got'[u] : \A k \in prior'[x] : target'[k] = u => k \in got'[u]
        BY <4>1, <4>2, Zenon DEF QueueInv
      <4>7. pending'[u] = <<>> BY <4>2, <4>3, ZenonT(30)
      <4> QED BY <4>4, <4>5, <4>6, <4>7, Zenon DEF QueueInv
    <3> QED BY <3>2, <3>3
  <2> QED BY <1>2, <2>1, <2>2, <2>3, <2>4, Zenon
<1>3. ASSUME NEW c \in Calls, NEW p \in Calls \cup {None}, NEW to \in Peers, Send(c, p, to)
      PROVE QueueInv(u)'
  <2>1. \/ /\ peers[to] \in Users /\ Begun(c, "deliver", peers[to], sent + 1)
           /\ target' = [target EXCEPT ![sent + 1] = peers[to]]
        \/ UNCHANGED <<call, target>>
    BY <1>3, BeginStep
  <2> DEFINE n == sent + 1
  <2>2. n \in Msgs /\ ~(n <= sent) BY <1>3, BeginStep
  <2>3. /\ prior' = [prior EXCEPT ![n] = Settled] /\ n \notin Settled
        /\ UNCHANGED <<pending, replay, got, handler>>
        /\ \A m \in Msgs \ {n} : target'[m] = target[m]
    BY <1>3, <2>1, <2>2 DEF Send, Settled
  <2>4. /\ n \notin got[u] \cup Elements(pending[u]) \cup Elements(replay[u])
        /\ \A m \in Msgs : n \notin prior[m]
    BY <2>2 DEF SentInv, MessageInv
  <2> HIDE DEF n
  <2>5. \A m \in Msgs \ {n} : prior[m] \in SUBSET Msgs /\ prior'[m] = prior[m]
    BY <2>2, <2>3
  <2>6. ASSUME NEW s \in Seq(Msgs), n \notin Elements(s),
               Ordered(s, u, got[u], prior, target)
        PROVE Ordered(s, u, got[u], prior', target')
    <3>1. \A j \in DOMAIN s : s[j] \in Msgs \ {n} BY <2>6 DEF Elements
    <3> SUFFICES ASSUME NEW j \in DOMAIN s, NEW k \in prior'[s[j]], target'[k] = u
                 PROVE k \in got[u] \/ \E i \in DOMAIN s : i < j /\ s[i] = k
      BY DEF Ordered
    <3>2. k \in prior[s[j]] /\ k \in Msgs \ {n} BY <2>4, <2>5, <3>1
    <3>3. target[k] = u BY <2>3, <3>2
    <3> QED BY <2>6, <3>2, <3>3 DEF Ordered
  <2>7. \A m \in got[u] : \A k \in prior'[m] : target'[k] = u => k \in got[u]
    <3>1. got[u] \subseteq Msgs \ {n} BY <2>4
    <3> SUFFICES ASSUME NEW m \in got[u], NEW k \in prior'[m], target'[k] = u PROVE k \in got[u]
      BY ZenonT(30)
    <3>2. k \in prior[m] /\ k \in Msgs \ {n} BY <2>4, <2>5, <3>1
    <3> QED BY <2>3, <3>2, Zenon DEF QueueInv
  <2>8. /\ handler[u] # "gone" => Ordered(pending[u], u, got[u], prior', target')
        /\ Ordered(replay[u], u, got[u], prior', target')
    BY <2>4, <2>6, ZenonT(30) DEF QueueInv
  <2> QED BY <2>3, <2>7, <2>8 DEF QueueInv
<1>4. ASSUME NEW v \in Users, HandlerExpires(v) PROVE QueueInv(u)'
  BY <1>4 DEF HandlerExpires, QueueInv
<1> QED BY <1>1, <1>2, <1>3, <1>4, MessageCases

\* SetHandler() and Deliver(): a handler gets no message before one whose Send()
\* had returned when its own began, for any number of users, senders and messages.
THEOREM MessagesInOrder == Spec => []InOrder
<1>1. Init => PlaceInv /\ OrderInv
  <2>1. Init => PlaceInv BY SigHubAssumption DEF Init, PlaceInv, Placed
  <2>2. ASSUME Init, NEW u \in Users PROVE QueueInv(u)
    <3>1. pending[u] = <<>> /\ replay[u] = <<>> /\ got[u] = {} BY <2>2 DEF Init
    <3> QED BY <3>1, OrderedEmpty DEF QueueInv
  <2> QED BY <2>1, <2>2 DEF OrderInv
<1>2. IInv /\ PlaceInv /\ OrderInv /\ [Next]_vars => (PlaceInv /\ OrderInv)'
  BY PlaceStep, OrderStep DEF IInv
<1>3. OrderInv => InOrder BY DEF OrderInv, QueueInv, InOrder
<1> QED BY Invariance, <1>1, <1>2, <1>3, PTL DEF Spec

-----------------------------------------------------------------------------
(* A message is in one place at a time. *)

\* The places of a message are disjoint, no queue holds it twice, no two calls
\* carry it to Deliver().
NoTwice(s) == \A i, j \in DOMAIN s : s[i] = s[j] => i = j
OnePlace(u, c, d, m) ==
    /\ target[m] = u /\ m \in got[u] => m \notin Elements(pending[u]) \cup Elements(replay[u])
    /\ target[m] = u /\ m \in Elements(pending[u]) => m \notin Elements(replay[u])
    /\ target[m] = u /\ call[c].pc = "deliver" /\ call[c].msg = m
         => m \notin got[u] \cup Elements(pending[u]) \cup Elements(replay[u])
    /\ call[c].pc = "deliver" /\ call[c].msg = m /\ call[d].pc = "deliver" /\ call[d].msg = m
         => c = d
    /\ NoTwice(pending[u]) /\ NoTwice(replay[u])
UniqueInv == \A u \in Users, c, d \in Calls, m \in Msgs : OnePlace(u, c, d, m)

-----------------------------------------------------------------------------
\* The message that the next Send() makes is nowhere yet.
LEMMA FreshNowhere ==
    ASSUME SentInv, sent \in Nat, NEW u \in Users, NEW d \in Calls, NEW e \in Calls,
           NEW m \in Msgs, m = sent + 1
    PROVE /\ m \notin got[u] \cup Elements(pending[u]) \cup Elements(replay[u])
          /\ call[d].msg # m /\ call[e].msg # m
<1>1. MessageInv(u, d, m, m) /\ MessageInv(u, e, m, m) BY DEF SentInv
<1>2. ~(m <= sent) OBVIOUS
<1> QED BY <1>1, <1>2 DEF MessageInv

\* What Append() and Tail() do to a queue that holds nothing twice.
LEMMA NoTwiceAppend ==
    ASSUME NEW s \in Seq(Msgs), NEW m \in Msgs, NoTwice(s), m \notin Elements(s)
    PROVE NoTwice(Append(s, m))
<1>1. /\ DOMAIN Append(s, m) = DOMAIN s \cup {Len(s) + 1}
      /\ Append(s, m)[Len(s) + 1] = m
      /\ \A i \in DOMAIN s : Append(s, m)[i] = s[i]
  OBVIOUS
<1> QED BY <1>1 DEF NoTwice, Elements

\* Replay leaves no message in the queue twice.
LEMMA NoTwiceTail ==
    ASSUME NEW s \in Seq(Msgs), s # <<>>, NoTwice(s)
    PROVE NoTwice(Tail(s)) /\ Head(s) \notin Elements(Tail(s))
<1>1. /\ 1 \in DOMAIN s /\ Head(s) = s[1] /\ DOMAIN Tail(s) \in SUBSET (Nat \ {0})
      /\ \A i \in DOMAIN Tail(s) : i + 1 \in DOMAIN s /\ Tail(s)[i] = s[i + 1]
  OBVIOUS
<1>2. ASSUME NEW i \in DOMAIN Tail(s), NEW j \in DOMAIN Tail(s), Tail(s)[i] = Tail(s)[j]
      PROVE i = j
  <2>1. i + 1 = j + 1 BY <1>1, <1>2 DEF NoTwice
  <2> QED BY <1>1, <2>1
<1>3. ASSUME NEW i \in DOMAIN Tail(s) PROVE Tail(s)[i] # Head(s)
  <2>1. i + 1 # 1 BY <1>1
  <2> QED BY <1>1, <2>1 DEF NoTwice
<1> QED BY <1>2, <1>3 DEF NoTwice, Elements

\* An empty queue holds no message twice.
LEMMA NoTwiceEmpty == NoTwice(<<>>)
BY DEF NoTwice

\* A message is not duplicated.
LEMMA UniqueStep == TypeOK /\ MutexInv /\ JoinInv /\ SentInv /\ UniqueInv /\ [Next]_vars => UniqueInv'
<1> SUFFICES ASSUME TypeOK, MutexInv, JoinInv, SentInv, UniqueInv, [Next]_vars,
                    NEW u \in Users, NEW d \in Calls, NEW e \in Calls, NEW m \in Msgs
             PROVE OnePlace(u, d, e, m)'
  BY DEF UniqueInv
<1> USE DEF object, history, Moved, Begun, Ended
<1> None \notin Users /\ None \notin Calls BY SigHubAssumption
<1> /\ pending \in [Users -> Seq(Msgs)] /\ replay \in [Users -> Seq(Msgs)]
    /\ DOMAIN got = Users /\ DOMAIN target = Msgs /\ sent \in Nat /\ m \in Nat \ {0}
  BY SigHubAssumption DEF TypeOK, Msgs
<1> OnePlace(u, d, e, m) BY DEF UniqueInv
<1>1. CASE Quiet BY <1>1 DEF Quiet, OnePlace
<1>2. ASSUME NEW c \in Calls, FactoryReturns(c) \/ SetHandler(c) \/ Deliver(c) \/ Replay(c)
      PROVE OnePlace(u, d, e, m)'
  <2> call[c].pc # "idle" /\ call[c].user \in Users BY <1>2, ActiveStep, ZenonT(30) DEF Step
  <2> OnePlace(u, c, d, m) /\ OnePlace(u, c, e, m) /\ OnePlace(u, d, c, m)
    BY DEF UniqueInv
  <2>1. CASE FactoryReturns(c)
    <3> Moved(c, "set") \/ Moved(c, "reject") BY <2>1, StepFrame, Zenon
    <3> QED BY <2>1, Zenon DEF OnePlace, FactoryReturns, At
  <2>2. CASE SetHandler(c)
    <3> Moved(c, "locked") BY <2>2, StepFrame, Zenon
    <3> QED BY <2>2, ElementsEmpty, NoTwiceEmpty
       , ZenonT(30) DEF OnePlace, SetHandler, At, PendingMoved
  <2>3. CASE Deliver(c)
    <3>1. IF Ready(call[c].user) THEN Moved(c, "onMessage") ELSE Ended(c) BY <2>3, StepFrame, ZenonT(30)
    <3>2. MessageInv(u, c, m, m) BY DEF SentInv
    <3>3. call[c].msg \in Msgs BY <2>3, <3>2, Zenon DEF MessageInv, Deliver, At
    <3>4. MessageInv(u, c, call[c].msg, m) BY <3>3, Zenon DEF SentInv
    <3>5. Elements(Append(pending[call[c].user], call[c].msg))
            = Elements(pending[call[c].user]) \cup {call[c].msg}
      BY <3>3, ElementsAppend, Zenon
    <3>6. OnePlace(call[c].user, c, d, call[c].msg) BY <3>3, Zenon DEF UniqueInv
    <3>7. NoTwice(Append(pending[call[c].user], call[c].msg))
      BY <2>3, <3>3, <3>4, <3>6, NoTwiceAppend, Zenon DEF OnePlace, MessageInv, Deliver, At
    <3>8. CASE Ready(call[c].user)
      <4>1. /\ got' = [got EXCEPT ![call[c].user] = @ \cup {call[c].msg}]
            /\ Moved(c, "onMessage") /\ call[c].pc = "deliver"
            /\ UNCHANGED <<pending, replay, target>>
        BY <2>3, <3>1, <3>8, Zenon DEF Deliver, At
      <4>2. CASE u = call[c].user
        <5>1. got'[u] = got[u] \cup {call[c].msg} BY <4>1, <4>2
        <5>2. CASE m = call[c].msg BY <4>1, <5>1, <5>2, Zenon DEF OnePlace
        <5>3. CASE m # call[c].msg BY <4>1, <5>1, <5>3, Zenon DEF OnePlace
        <5> QED BY <5>2, <5>3, ZenonT(30)
      <4>3. CASE u # call[c].user
        <5>1. got'[u] = got[u] BY <4>1, <4>3
        <5> QED BY <4>1, <5>1, ZenonT(30) DEF OnePlace
      <4> QED BY <4>2, <4>3, Zenon
    <3>9. CASE ~Ready(call[c].user)
      <4>1. /\ pending' = [pending EXCEPT ![call[c].user] = Append(@, call[c].msg)]
            /\ Ended(c) /\ call[c].pc = "deliver" /\ UNCHANGED <<got, replay, target>>
        BY <2>3, <3>1, <3>9, ZenonT(30) DEF Deliver, At
      <4>2. CASE u = call[c].user
        <5>1. pending'[u] = Append(pending[u], call[c].msg) BY <4>1, <4>2
        <5>2. CASE m = call[c].msg
          BY <3>5, <3>7, <4>1, <4>2, <5>1, <5>2, Zenon DEF OnePlace
        <5>3. CASE m # call[c].msg
          BY <3>5, <3>7, <4>1, <4>2, <5>1, <5>3, Zenon DEF OnePlace
        <5> QED BY <5>2, <5>3, Zenon
      <4>3. CASE u # call[c].user
        <5>1. pending'[u] = pending[u] BY <4>1, <4>3, ZenonT(30)
        <5> QED BY <4>1, <5>1, Zenon DEF OnePlace
      <4> QED BY <4>2, <4>3
    <3> QED BY <3>8, <3>9
  <2>4. CASE Replay(c)
    <3> Moved(c, "onMessage") BY <2>4, StepFrame, Zenon
    <3> DEFINE s == replay[call[c].user]
    <3>2. Elements(s) = Elements(Tail(s)) \cup {Head(s)} BY <2>4, ElementsTail, ZenonT(30) DEF Replay
    <3>3. OnePlace(call[c].user, c, d, m) BY DEF UniqueInv
    <3>4. NoTwice(Tail(s)) /\ Head(s) \notin Elements(Tail(s))
      BY <2>4, <3>3, NoTwiceTail, Zenon DEF OnePlace, Replay
    <3>5. /\ got' = [got EXCEPT ![call[c].user] = @ \cup {Head(s)}]
          /\ replay' = [replay EXCEPT ![call[c].user] = Tail(s)]
          /\ call[c].pc = "locked" /\ UNCHANGED <<pending, target>>
      BY <2>4, Zenon DEF Replay, At
    <3>6. CASE u = call[c].user
      <4>1. /\ got'[u] = got[u] \cup {Head(s)} /\ replay'[u] = Tail(s)
            /\ pending'[u] = pending[u] /\ target'[m] = target[m] /\ replay[u] = s
        BY <3>5, <3>6
      <4> HIDE DEF s
      <4> QED BY <3>2, <3>4, <3>5, <4>1, ZenonT(30) DEF OnePlace
    <3>7. CASE u # call[c].user BY <3>5, <3>7, ZenonT(30) DEF OnePlace
    <3> QED BY <3>6, <3>7
  <2> QED BY <1>2, <2>1, <2>2, <2>3, <2>4, Zenon
<1>3. ASSUME NEW c \in Calls, NEW p \in Calls \cup {None}, NEW to \in Peers, Send(c, p, to)
      PROVE OnePlace(u, d, e, m)'
  <2>1. \/ /\ peers[to] \in Users /\ Begun(c, "deliver", peers[to], sent + 1)
           /\ target' = [target EXCEPT ![sent + 1] = peers[to]]
        \/ UNCHANGED <<call, target>>
    BY <1>3, BeginStep, Zenon
  <2>2. sent + 1 \in Msgs BY <1>3, BeginStep, Zenon
  <2>4. call[c].pc = "idle" /\ UNCHANGED <<pending, replay, got>>
    BY <1>3, Zenon DEF Send, CanCall
  <2>5. CASE UNCHANGED <<call, target>> BY <2>4, <2>5, Zenon DEF OnePlace
  <2>6. CASE /\ Begun(c, "deliver", peers[to], sent + 1)
             /\ target' = [target EXCEPT ![sent + 1] = peers[to]]
    <3>1. CASE m = sent + 1
      <4>1. /\ m \notin got[u] \cup Elements(pending[u]) \cup Elements(replay[u])
            /\ call[d].msg # m /\ call[e].msg # m
        BY <3>1, FreshNowhere
      <4> QED BY <2>4, <2>6, <4>1, ZenonT(30) DEF OnePlace
    <3>2. CASE m # sent + 1 BY <2>2, <2>4, <2>6, <3>2, Zenon DEF OnePlace
    <3> QED BY <3>1, <3>2
  <2> QED BY <2>1, <2>5, <2>6
<1>4. ASSUME NEW v \in Users, HandlerExpires(v) PROVE OnePlace(u, d, e, m)'
  BY <1>4, Zenon DEF HandlerExpires, OnePlace
<1> QED BY <1>1, <1>2, <1>3, <1>4, MessageCases

\* Dispatch(), Deliver() and SetHandler(): a message accepted for a user is in
\* exactly one place on its way to the handler, or dropped with the handler.
THEOREM MessagesExactlyOnce == Spec => []ExactlyOnce
<1>1. Init => PlaceInv /\ UniqueInv
  <2>1. Init => PlaceInv BY SigHubAssumption DEF Init, PlaceInv, Placed
  <2>2. Init => UniqueInv
    BY ElementsEmpty, NoTwiceEmpty DEF Init, UniqueInv, OnePlace, Idle
  <2> QED BY <2>1, <2>2
<1>2. IInv /\ PlaceInv /\ UniqueInv /\ [Next]_vars => (PlaceInv /\ UniqueInv)'
  BY PlaceStep, UniqueStep DEF IInv
<1>3. IInv /\ PlaceInv /\ UniqueInv => ExactlyOnce
  <2> SUFFICES ASSUME IInv, PlaceInv, UniqueInv, NEW m \in Msgs, target[m] # None
               PROVE \/ \E p \in Places(m, target[m]) : Places(m, target[m]) = {p}
                     \/ Places(m, target[m]) = {} /\ handler[target[m]] = "gone"
    BY DEF ExactlyOnce
  <2> DEFINE u == target[m]
             n == Places(m, u)
             carried == \E c \in Calls : call[c].pc = "deliver" /\ call[c].msg = m
  <2>1. u \in Users BY DEF IInv, TypeOK
  <2>2. /\ n \in SUBSET {"got", "pending", "replay", "call"}
        /\ "got" \in n <=> m \in got[u]
        /\ "pending" \in n <=> m \in Elements(pending[u])
        /\ "replay" \in n <=> m \in Elements(replay[u])
        /\ "call" \in n <=> carried
    BY Zenon DEF Places, At
  <2>3. \A c \in Calls : OnePlace(u, c, c, m) BY <2>1 DEF UniqueInv
  <2>4. Placed(u, m) BY <2>1 DEF PlaceInv
  <2>5. PICK c \in Calls : TRUE BY SigHubAssumption
  <2>6. OnePlace(u, c, c, m) BY <2>3
  <2>7. target[m] = u OBVIOUS
  <2> HIDE DEF u, n
  <2>8. CASE m \in got[u] \cup Elements(pending[u]) \cup Elements(replay[u])
    <3>1. ~carried BY <2>3, <2>7, <2>8 DEF OnePlace
    <3>2. \E p \in n : n = {p} BY <2>2, <2>6, <2>7, <2>8, <3>1, ZenonT(30) DEF OnePlace
    <3> QED BY <3>2 DEF n, u
  <2>9. CASE m \notin got[u] \cup Elements(pending[u]) \cup Elements(replay[u])
    <3>1. CASE carried
      <4>1. n = {"call"} BY <2>2, <2>9, <3>1, Zenon
      <4> QED BY <4>1 DEF n, u
    <3>2. CASE ~carried
      <4>1. n = {} /\ handler[u] = "gone" BY <2>2, <2>4, <2>7, <2>9, <3>2 DEF Placed
      <4> QED BY <4>1 DEF n, u
    <3> QED BY <3>1, <3>2, Zenon
  <2> QED BY <2>8, <2>9
<1> QED BY Invariance, <1>1, <1>2, <1>3, PTL DEF Spec

-----------------------------------------------------------------------------
(* OnLeft() is called at most once, after the deregistration. *)

\* Leave() of a user runs once, and has deregistered it before it calls OnLeft().
Leaving == {"unregister", "readHandler"}
LeaveAt(u, c, d) ==
    /\ left[u] => user[u] # "unborn"
    /\ onLeft[u] # 0 => left[u] /\ onLeft[u] = 1 /\ peers[IdOf[u]] # u
    /\ call[c].pc \in Leaving /\ call[c].user = u => left[u] /\ onLeft[u] = 0
    /\ call[c].pc = "readHandler" /\ call[c].user = u => peers[IdOf[u]] # u
    /\ call[c].pc \in Leaving /\ call[d].pc \in Leaving /\ call[c].user = u /\ call[d].user = u
         => c = d
LeaveInv == \A u \in Users, c, d \in Calls : LeaveAt(u, c, d)

-----------------------------------------------------------------------------
\* Leave() of a user gets past its first step once.
LEMMA LeaveStep == TypeOK /\ MutexInv /\ LeaveInv /\ [Next]_vars => LeaveInv'
<1> SUFFICES ASSUME TypeOK, MutexInv, LeaveInv, [Next]_vars,
                    NEW u \in Users, NEW d \in Calls, NEW e \in Calls
             PROVE LeaveAt(u, d, e)'
  BY DEF LeaveInv
<1> USE DEF object, history, Moved, Begun, Ended, Leaving
<1> None \notin Users /\ None \notin Calls BY SigHubAssumption
<1> /\ IdOf \in [Users -> Peers] /\ peers \in [Peers -> Users \cup {None}]
    /\ left \in [Users -> BOOLEAN] /\ onLeft \in [Users -> Nat] /\ DOMAIN user = Users
  BY SigHubAssumption DEF TypeOK
<1> LeaveAt(u, d, e) BY DEF LeaveInv
<1>1. ASSUME NEW c \in Calls, Step(c) PROVE LeaveAt(u, d, e)'
  <2> call[c].pc # "idle" /\ call[c].user \in Users BY <1>1, ActiveStep
  <2> LeaveAt(u, c, d) /\ LeaveAt(u, d, c) /\ LeaveAt(u, c, e) /\ LeaveAt(u, e, c)
    BY DEF LeaveInv
  <2>1. CASE FactoryReturns(c) \/ SetHandler(c) \/ Deliver(c) \/ OnMessageReturns(c)
             \/ Replay(c) \/ Unlock(c) \/ OnLeftReturns(c)
    <3>1. Moved(c, "set") \/ Moved(c, "reject") \/ Moved(c, "locked")
          \/ Moved(c, "onMessage") \/ Ended(c)
      BY <2>1, StepFrame, Zenon
    <3>2. UNCHANGED <<peers, user, left, onLeft>>
      BY <2>1, Zenon DEF FactoryReturns, SetHandler, Deliver, OnMessageReturns, Replay, Unlock,
                  OnLeftReturns
    <3> QED BY <3>1, <3>2, Zenon DEF LeaveAt
  <2>2. CASE Reject(c)
    <3> Ended(c) BY <2>2, StepFrame, Zenon
    <3> QED BY <2>2, ZenonT(30) DEF LeaveAt, Reject, At, Erased
  <2>3. CASE Unregister(c)
    <3> Moved(c, "readHandler") BY <2>3, StepFrame, Zenon
    <3> QED BY <2>3, ZenonT(30) DEF LeaveAt, Unregister, At, Erased
  <2>4. CASE ReadHandler(c)
    <3>0. IF Ready(call[c].user) THEN Moved(c, "onLeft") ELSE Ended(c) BY <2>4, StepFrame, Zenon
    <3>1. CASE Ready(call[c].user)
      <4>1. /\ onLeft' = [onLeft EXCEPT ![call[c].user] = @ + 1]
            /\ Moved(c, "onLeft") /\ call[c].pc = "readHandler"
            /\ UNCHANGED <<peers, user, left>>
        BY <2>4, <3>0, <3>1, Zenon DEF ReadHandler, At
      <4>2. CASE u = call[c].user
        <5>1. onLeft'[u] = onLeft[u] + 1 BY <4>1, <4>2, Zenon
        <5>2. onLeft[u] = 0 /\ left[u] /\ user[u] # "unborn" /\ peers[IdOf[u]] # u
          BY <4>1, <4>2, Zenon DEF LeaveAt
        <5>3. left'[u] /\ user'[u] # "unborn" /\ peers'[IdOf[u]] # u BY <4>1, <5>2, ZenonT(30)
        <5> onLeft'[u] = 1 BY <5>1, <5>2
        <5>4. ~(call'[d].pc \in Leaving /\ call'[d].user = u) BY <4>1, <4>2, Zenon DEF LeaveAt
        <5>5. ~(call'[e].pc \in Leaving /\ call'[e].user = u) BY <4>1, <4>2, Zenon DEF LeaveAt
        <5> QED BY <5>3, <5>4, <5>5, Zenon DEF LeaveAt
      <4>3. CASE u # call[c].user
        <5>1. onLeft'[u] = onLeft[u] BY <4>1, <4>3, Zenon
        <5> QED BY <4>1, <4>3, <5>1, ZenonT(30) DEF LeaveAt
      <4> QED BY <4>2, <4>3, Zenon
    <3>2. CASE ~Ready(call[c].user)
      <4>1. Ended(c) /\ UNCHANGED <<peers, user, left, onLeft>>
        BY <2>4, <3>0, <3>2, Zenon DEF ReadHandler
      <4> QED BY <4>1, Zenon DEF LeaveAt
    <3> QED BY <3>1, <3>2
  <2> QED BY <1>1, <2>1, <2>2, <2>3, <2>4, ZenonT(30) DEF Step
<1>2. ASSUME NEW c \in Calls, NEW p \in Calls \cup {None}, NEW v \in Users, Register(c, p, v)
      PROVE LeaveAt(u, d, e)'
  <2>1. Begun(c, "factory", v, 0) BY <1>2, BeginStep, Zenon
  <2>2. LeaveAt(v, d, e) /\ LeaveAt(v, e, d) BY DEF LeaveInv
  <2> QED BY <1>2, <2>1, <2>2, ZenonT(30) DEF Register, CanCall, LeaveAt
<1>3. ASSUME NEW c \in Calls, NEW p \in Calls \cup {None}, NEW v \in Users, Leave(c, p, v)
      PROVE LeaveAt(u, d, e)'
  <2>1. Begun(c, "unregister", v, 0) BY <1>3, BeginStep, Zenon
  <2>2. LeaveAt(v, d, e) /\ LeaveAt(v, e, d) BY DEF LeaveInv
  <2> QED BY <1>3, <2>1, <2>2, ZenonT(30) DEF Leave, CanCall, FirstLeave, LeaveAt
<1>4. ASSUME NEW c \in Calls, NEW p \in Calls \cup {None}, NEW to \in Peers, Send(c, p, to)
      PROVE LeaveAt(u, d, e)'
  <2>1. \/ /\ peers[to] \in Users /\ Begun(c, "deliver", peers[to], sent + 1)
           /\ target' = [target EXCEPT ![sent + 1] = peers[to]]
        \/ UNCHANGED <<call, target>>
    BY <1>4, BeginStep, Zenon
  <2>2. /\ call[c].pc = "idle" /\ UNCHANGED <<left, onLeft, user>>
        /\ peers' = peers \/ peers' = [peers EXCEPT ![to] = None]
    BY <1>4, Zenon DEF Send, CanCall, Dispatch
  <2> QED BY <2>1, <2>2, Zenon DEF LeaveAt
<1>5. ASSUME NEW v \in Users, Drop(v) PROVE LeaveAt(u, d, e)'
  BY <1>5, Zenon DEF Drop, LeaveAt
<1>6. ASSUME NEW v \in Users, HandlerExpires(v) PROVE LeaveAt(u, d, e)'
  BY <1>6, Zenon DEF HandlerExpires, LeaveAt
<1>7. CASE HubExpires BY <1>7 DEF HubExpires, LeaveAt
<1>8. CASE UNCHANGED vars BY <1>8 DEF vars, LeaveAt
<1> QED BY <1>1, <1>2, <1>3, <1>4, <1>5, <1>6, <1>7, <1>8 DEF Next

\* Leave() and Unregister(): however many threads and handlers call Leave() of a
\* user, its handler is told at most once, and not before the user is deregistered.
THEOREM OnLeftAtMostOnce == Spec => []LeftOnce
<1>1. Init => LeaveInv BY DEF Init, LeaveInv, LeaveAt, Leaving, Idle
<1>2. IInv /\ LeaveInv /\ [Next]_vars => LeaveInv' BY LeaveStep DEF IInv
<1>3. IInv /\ LeaveInv => LeftOnce
  <2> SUFFICES ASSUME IInv, LeaveInv, NEW u \in Users
               PROVE onLeft[u] <= 1 /\ (onLeft[u] = 1 => peers[IdOf[u]] # u)
    BY Zenon DEF LeftOnce
  <2>1. PICK c \in Calls : TRUE BY SigHubAssumption
  <2>2. LeaveAt(u, c, c) /\ onLeft[u] \in Nat BY <2>1 DEF LeaveInv, IInv, TypeOK
  <2> QED BY <2>2 DEF LeaveAt
<1> QED BY Invariance, <1>1, <1>2, <1>3, PTL DEF Spec
=============================================================================
