------------------------------- MODULE SigHub -------------------------------
(***************************************************************************)
(* Rtt::Rtc::SigHub, the in-process signaling hub, and its HubUser.  Every *)
(* call into the hub is a process: one of a thread of its own, or one made *)
(* by a handler or factory that another call is running, which then waits  *)
(* for it.  _mutex guards single steps; _handlerMutex of a user is held    *)
(* while the user's handler runs.                                          *)
(***************************************************************************)
EXTENDS Naturals, Sequences

CONSTANTS
    Users,           \* HubUser objects
    Peers,           \* PeerId values
    IdOf,            \* the id each user registers under
    Calls,           \* calls that may be in progress at one time
    MaxMsgs          \* bound: messages sent


VARIABLES
    hub,             \* the SigHub exists
    peers,           \* SigHub::_peers
    user,            \* whether the application holds the ISigUser
    handler,         \* ISigHandler: not made, made, set in _handler, gone
    pending,         \* HubUser::_pending
    left,            \* HubUser::_left
    replay,          \* what SetHandler() has moved out of _pending to replay
    mutex,           \* HubUser::_handlerMutex: the call that holds it
    call,            \* calls in progress
    sent,            \* history: number of messages looked up so far
    target,          \* history: the user each message was accepted for
    prior,           \* history: messages whose Send() had returned before
    got,             \* history: messages given to OnMessage() of each user
    onLeft           \* history: calls of OnLeft() of each user

object  == <<user, handler, pending, replay, left>>
history == <<sent, target, prior, got, onLeft>>
vars    == <<hub, peers, object, mutex, call, history>>

None == "none"

ASSUME SigHubAssumption ==
    /\ IdOf \in [Users -> Peers] /\ MaxMsgs \in Nat \ {0}
    /\ Users # {} /\ Calls # {} /\ None \notin Users \cup Calls

Msgs == 1..MaxMsgs
Idle == [pc |-> "idle", user |-> None, msg |-> 0, parent |-> None]

Labels == {"idle", "factory", "reject", "set", "locked", "deliver", "onMessage",
           "unregister", "readHandler", "onLeft"}
CallType == [pc : Labels, user : Users \cup {None}, msg : Msgs \cup {0},
             parent : Calls \cup {None}]

TypeOK ==
    /\ hub \in BOOLEAN
    /\ peers \in [Peers -> Users \cup {None}]
    /\ user \in [Users -> {"unborn", "held", "dropped"}]
    /\ handler \in [Users -> {None, "made", "set", "gone"}]
    /\ pending \in [Users -> Seq(Msgs)]
    /\ replay \in [Users -> Seq(Msgs)]
    /\ left \in [Users -> BOOLEAN]
    /\ mutex \in [Users -> Calls \cup {None}]
    /\ call \in [Calls -> CallType]
    /\ sent \in Msgs \cup {0}
    /\ target \in [Msgs -> Users \cup {None}]
    /\ prior \in [Msgs -> SUBSET Msgs]
    /\ got \in [Users -> SUBSET Msgs]
    /\ onLeft \in [Users -> Nat]

Init ==
    /\ hub = TRUE
    /\ peers = [p \in Peers |-> None]
    /\ user = [u \in Users |-> "unborn"]
    /\ handler = [u \in Users |-> None]
    /\ pending = [u \in Users |-> <<>>]
    /\ replay = [u \in Users |-> <<>>]
    /\ left = [u \in Users |-> FALSE]
    /\ mutex = [u \in Users |-> None]
    /\ call = [c \in Calls |-> Idle]
    /\ sent = 0
    /\ target = [m \in Msgs |-> None]
    /\ prior = [m \in Msgs |-> {}]
    /\ got = [u \in Users |-> {}]
    /\ onLeft = [u \in Users |-> 0]

-----------------------------------------------------------------------------
(* Calls and lifetimes.                                                    *)

Children(c) == {d \in Calls : call[d].pc # "idle" /\ call[d].parent = c}

\* The application's code runs inside c, and is not inside a further call.
InUserCode(c) == call[c].pc \in {"factory", "onMessage", "onLeft"} /\ Children(c) = {}

\* c is free to be made by a thread, or by the code that the call p runs.
CanCall(c, p) == call[c].pc = "idle" /\ (p # None => InUserCode(p))

Begin(c, p, l, u, m) ==
    call' = [call EXCEPT ![c] = [pc |-> l, user |-> u, msg |-> m, parent |-> p]]
Goto(c, l) == call' = [call EXCEPT ![c].pc = l]
Return(c)  == call' = [call EXCEPT ![c] = Idle]

At(c, l) == call[c].pc = l

\* weak_ptr<HubUser>::lock() succeeds: Register() and Deliver() hold the user too.
Alive(u) ==
    \/ user[u] = "held"
    \/ user[u] = "dropped" /\ \E c \in Calls : ~At(c, "idle") /\ call[c].user = u

\* _handler.lock() succeeds.  The mutant asks for the user to be held as well.
ReadyAndHeld(u) == handler[u] = "set" /\ user[u] = "held"
Ready(u) == handler[u] = "set"

-----------------------------------------------------------------------------
(* Register                                                                *)

\* LocalSigClient::Join() and Register(), up to the factory: a user that has the
\* same id is replaced.
Register(c, p, u) ==
    /\ CanCall(c, p) /\ hub /\ user[u] = "unborn"
    /\ user' = [user EXCEPT ![u] = "held"]
    /\ peers' = [peers EXCEPT ![IdOf[u]] = u]
    /\ Begin(c, p, "factory", u, 0)
    /\ UNCHANGED <<hub, handler, pending, replay, left, mutex, history>>

\* onJoined() returns a handler, or none.
FactoryReturns(c) ==
    /\ At(c, "factory") /\ InUserCode(c)
    /\ \/ /\ handler' = [handler EXCEPT ![call[c].user] = "made"]
          /\ Goto(c, "set")
       \/ /\ handler' = [handler EXCEPT ![call[c].user] = "gone"]
          /\ Goto(c, "reject")
    /\ UNCHANGED <<hub, peers, user, pending, replay, left, mutex, history>>

\* _peers.erase(): whatever is registered under the id.
Erased(u) == [peers EXCEPT ![IdOf[u]] = None]

\* Register(): no handler, so the registration is removed.
Reject(c) ==
    /\ At(c, "reject")
    /\ peers' = Erased(call[c].user)
    /\ Return(c)
    /\ UNCHANGED <<hub, object, mutex, history>>

\* What SetHandler() leaves in _pending.  The mutant forgets to move it out.
PendingKept(u) == pending[u]
PendingMoved(u) == <<>>

\* SetHandler(): set the handler and move out what is pending, to be replayed with
\* the mutex held.  The messages are dropped when the handler is gone already.
SetHandler(c) ==
    LET u == call[c].user IN
    /\ At(c, "set") /\ mutex[u] = None
    /\ mutex' = [mutex EXCEPT ![u] = c]
    /\ pending' = [pending EXCEPT ![u] = PendingMoved(u)]
    /\ handler' = [handler EXCEPT ![u] = IF @ = "made" THEN "set" ELSE @]
    /\ replay' = [replay EXCEPT ![u] = IF handler[u] = "made" THEN pending[u] ELSE <<>>]
    /\ Goto(c, "locked")
    /\ UNCHANGED <<hub, peers, user, left, history>>

-----------------------------------------------------------------------------
(* Send, Dispatch, Deliver                                                 *)

\* Messages whose Send() has returned.
Settled == {m \in 1..sent : \A c \in Calls : call[c].msg # m}

\* Dispatch(): the lookup of message m, which removes a stale entry.
Dispatch(c, p, to, m) ==
    LET t == peers[to] IN
    \/ /\ t # None /\ Alive(t)
       /\ target' = [target EXCEPT ![m] = t]
       /\ Begin(c, p, "deliver", t, m)
       /\ UNCHANGED peers
    \/ /\ t # None => ~Alive(t)
       /\ peers' = [peers EXCEPT ![to] = None]
       /\ UNCHANGED <<call, target>>

\* HubUser::Send(), by any user.
Send(c, p, to) ==
    /\ CanCall(c, p) /\ hub /\ sent < MaxMsgs
    /\ \E u \in Users : user[u] = "held"
    /\ sent' = sent + 1
    /\ prior' = [prior EXCEPT ![sent + 1] = Settled]
    /\ Dispatch(c, p, to, sent + 1)
    /\ UNCHANGED <<hub, object, mutex, got, onLeft>>

\* Deliver() can take the mutex.  The mutant does not wait for it.
NoLock(u) == TRUE
CanLock(u) == mutex[u] = None

\* Deliver(): without a handler the message is kept, otherwise OnMessage() runs
\* with the mutex held.
Deliver(c) ==
    LET u == call[c].user
        m == call[c].msg
    IN
    /\ At(c, "deliver") /\ CanLock(u)
    /\ IF Ready(u)
       THEN /\ mutex' = [mutex EXCEPT ![u] = c]
            /\ got' = [got EXCEPT ![u] = @ \cup {m}]
            /\ Goto(c, "onMessage")
            /\ UNCHANGED pending
       ELSE /\ pending' = [pending EXCEPT ![u] = Append(@, m)]
            /\ Return(c)
            /\ UNCHANGED <<mutex, got>>
    /\ UNCHANGED <<hub, peers, user, handler, replay, left, sent, target, prior, onLeft>>

OnMessageReturns(c) ==
    /\ At(c, "onMessage") /\ InUserCode(c)
    /\ Goto(c, "locked")
    /\ UNCHANGED <<hub, peers, object, mutex, history>>

\* The loop of SetHandler(): the next OnMessage() of the replay.
Replay(c) ==
    LET u == call[c].user IN
    /\ At(c, "locked") /\ replay[u] # <<>>
    /\ got' = [got EXCEPT ![u] = @ \cup {Head(replay[u])}]
    /\ replay' = [replay EXCEPT ![u] = Tail(@)]
    /\ Goto(c, "onMessage")
    /\ UNCHANGED <<hub, peers, user, handler, pending, left, mutex, sent, target, prior,
                   onLeft>>

\* The end of SetHandler() and Deliver().
Unlock(c) ==
    LET u == call[c].user IN
    /\ At(c, "locked") /\ replay[u] = <<>>
    /\ mutex' = [mutex EXCEPT ![u] = None]
    /\ Return(c)
    /\ UNCHANGED <<hub, peers, object, history>>

-----------------------------------------------------------------------------
(* Leave                                                                   *)

\* _left.exchange(true) returns false.  The mutant does not look.
LeaveAgain(u) == TRUE
FirstLeave(u) == ~left[u]

\* Leave(), which a second caller leaves at once.
Leave(c, p, u) ==
    /\ CanCall(c, p) /\ user[u] = "held" /\ FirstLeave(u)
    /\ left' = [left EXCEPT ![u] = TRUE]
    /\ Begin(c, p, "unregister", u, 0)
    /\ UNCHANGED <<hub, peers, user, handler, pending, replay, mutex, history>>

\* Leave(): Unregister().
Unregister(c) ==
    /\ At(c, "unregister")
    /\ peers' = Erased(call[c].user)
    /\ Goto(c, "readHandler")
    /\ UNCHANGED <<hub, object, mutex, history>>

\* Leave(): read _handler under its mutex and call OnLeft() outside of it.
ReadHandler(c) ==
    LET u == call[c].user IN
    /\ At(c, "readHandler") /\ mutex[u] = None
    /\ IF Ready(u)
       THEN onLeft' = [onLeft EXCEPT ![u] = @ + 1] /\ Goto(c, "onLeft")
       ELSE Return(c) /\ UNCHANGED onLeft
    /\ UNCHANGED <<hub, peers, object, mutex, sent, target, prior, got>>

OnLeftReturns(c) ==
    /\ At(c, "onLeft") /\ InUserCode(c)
    /\ Return(c)
    /\ UNCHANGED <<hub, peers, object, mutex, history>>

-----------------------------------------------------------------------------
(* What the owners do: drop a user, a handler, the hub.                    *)

Drop(u) ==
    /\ user[u] = "held"
    /\ \A c \in Calls : call[c].user = u =>
         call[c].pc \notin {"unregister", "readHandler", "onLeft"}
    /\ user' = [user EXCEPT ![u] = "dropped"]
    /\ UNCHANGED <<hub, peers, handler, pending, replay, left, mutex, call, history>>

\* A handler that runs is kept alive by the call that runs it.
HandlerExpires(u) ==
    /\ handler[u] \in {"made", "set"}
    /\ \A c \in Calls : call[c].user = u => call[c].pc \notin {"locked", "onMessage", "onLeft"}
    /\ handler' = [handler EXCEPT ![u] = "gone"]
    /\ UNCHANGED <<hub, peers, user, pending, replay, left, mutex, call, history>>

\* Register(), Dispatch() and Leave()'s Unregister() keep the hub alive.
HubExpires ==
    /\ hub
    /\ \A c \in Calls : call[c].pc \in {"idle", "unregister", "readHandler", "onLeft"}
    /\ hub' = FALSE
    /\ peers' = [p \in Peers |-> None]
    /\ UNCHANGED <<object, mutex, call, history>>

-----------------------------------------------------------------------------
Step(c) ==
    \/ FactoryReturns(c) \/ Reject(c) \/ SetHandler(c)
    \/ Deliver(c) \/ OnMessageReturns(c) \/ Replay(c) \/ Unlock(c)
    \/ Unregister(c) \/ ReadHandler(c) \/ OnLeftReturns(c)

Next ==
    \/ \E c \in Calls : Step(c)
    \/ \E c \in Calls, p \in Calls \cup {None} :
         \/ \E u \in Users : Register(c, p, u) \/ Leave(c, p, u)
         \/ \E to \in Peers : Send(c, p, to)
    \/ \E u \in Users : Drop(u) \/ HandlerExpires(u)
    \/ HubExpires

\* Threads keep running, a mutex that is free over and over is granted, and the
\* application's code returns.
Fairness == \A c \in Calls : SF_vars(Step(c))

Spec     == Init /\ [][Next]_vars
FairSpec == Spec /\ Fairness

-----------------------------------------------------------------------------
(* Properties.                                                             *)

Elements(s) == {s[i] : i \in DOMAIN s}

\* Calls on whose end c depends: the holder of the mutex it wants, the call that
\* its handler has made.
WaitsFor(c) ==
    IF call[c].pc \in {"set", "deliver", "readHandler"}
    THEN {mutex[call[c].user]} \ {None}
    ELSE Children(c)

Deadlocked == \E S \in SUBSET Calls \ {{}} : \A c \in S : WaitsFor(c) \cap S # {}

\* "This prevents concurrent Deliver() calls from interleaving with the replay
\* and causing out-of-order OnMessage() invocations" (SetHandler): when a handler
\* gets a message, it has got every message for it whose Send() returned before.
InOrder ==
    \A u \in Users : \A m \in got[u] : \A k \in prior[m] :
        target[k] = u => k \in got[u]

\* Where a message accepted for a user may be.
Places(m, u) ==
    {p \in {"got", "pending", "replay", "call"} :
        \/ p = "got" /\ m \in got[u]
        \/ p = "pending" /\ m \in Elements(pending[u])
        \/ p = "replay" /\ m \in Elements(replay[u])
        \/ p = "call" /\ \E c \in Calls : At(c, "deliver") /\ call[c].msg = m}

\* Deliver() and SetHandler() neither lose nor duplicate: a message accepted for
\* a user is in exactly one place, or dropped because the handler is gone.
ExactlyOnce ==
    \A m \in Msgs : target[m] # None =>
        \/ \E p \in Places(m, target[m]) : Places(m, target[m]) = {p}
        \/ Places(m, target[m]) = {} /\ handler[target[m]] = "gone"

\* OnLeft() is called at most once, and only when the user is not registered any
\* more (ISigUser::Leave: "once the peer is fully deregistered").
LeftOnce == \A u \in Users : onLeft[u] <= 1 /\ (onLeft[u] = 1 => peers[IdOf[u]] # u)

\* A message that Send() found a user for, or that its SetHandler() replays, is
\* given to the user's handler, however many senders and however long the replay,
\* also when the application drops the user meanwhile.  Two cases are excluded.
\* The user leaves: the code gives a message looked up before Leave() to the
\* handler even after OnLeft() has run, which ISigUser.h:38 and ISigClient.h:78
\* rule out, so nothing is required there.  And handlers that answer through
\* Send() wait for each other's _handlerMutex, although SigHub.h:25 means to
\* allow re-entrant calls: Deadlocked.
Delivered ==
    \A m \in Msgs :
        (\E u \in Users : target[m] = u /\ handler[u] = "set")
            ~> \/ \E u \in Users : target[m] = u /\ (m \in got[u] \/ handler[u] = "gone" \/ left[u])
               \/ Deadlocked
=============================================================================
