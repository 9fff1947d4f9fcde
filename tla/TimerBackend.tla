---------------------------- MODULE TimerBackend ----------------------------
(***************************************************************************)
(* The contract of Exec::ITimerBackend, as TimedOperation relies on it.    *)
(*                                                                         *)
(* A timer is scheduled once, its callback runs at most once and never     *)
(* before its deadline, and Cancel() blocks while the callback runs, so    *)
(* that a caller may destroy what the callback uses once Cancel() returns. *)
(* Time is abstract: a deadline is something that passes.                  *)
(***************************************************************************)
CONSTANT Timers      \* the timers that may be scheduled: TimerId

VARIABLES
    status,          \* what has become of each timer
    released         \* the timers some Cancel() call has returned for

vars == <<status, released>>

Pending == {"armed", "due"}      \* scheduled; "due" once the deadline has passed
Done    == {"fired", "cancelled"}

TypeOK ==
    /\ status \in [Timers -> Pending \cup Done \cup {"unused", "inflight"}]
    /\ released \in SUBSET Timers

Init ==
    /\ status = [t \in Timers |-> "unused"]
    /\ released = {}

\* ScheduleAt(deadline, callback); the deadline may already have passed.
ScheduleAt(t) ==
    /\ status[t] = "unused"
    /\ \E s \in Pending : status' = [status EXCEPT ![t] = s]
    /\ UNCHANGED released

\* The clock reaches the deadlines of the timers in S.
DeadlinesPass(S) ==
    /\ \A t \in S : status[t] = "armed"
    /\ status' = [t \in Timers |-> IF t \in S THEN "due" ELSE status[t]]
    /\ UNCHANGED released

\* The callback is invoked, on whichever thread the backend uses.
Fire(t) ==
    /\ status[t] = "due"
    /\ status' = [status EXCEPT ![t] = "inflight"]
    /\ UNCHANGED released

\* The callback returns.
Return(t) ==
    /\ status[t] = "inflight"
    /\ status' = [status EXCEPT ![t] = "fired"]
    /\ UNCHANGED released

\* Cancel(id) returns: true for a pending timer, false for one that has fired
\* or was cancelled before. It does not return while the callback executes.
Cancel(t) ==
    /\ status[t] \in Pending \cup Done
    /\ status' = [status EXCEPT ![t] = IF @ \in Pending THEN "cancelled" ELSE @]
    /\ released' = released \cup {t}

Next ==
    \/ \E S \in SUBSET Timers : DeadlinesPass(S)
    \/ \E t \in Timers : ScheduleAt(t) \/ Fire(t) \/ Return(t) \/ Cancel(t)

Spec == Init /\ [][Next]_vars

-----------------------------------------------------------------------------
\* What a caller of Cancel() relies on (ITimerBackend.h: "allows callers to
\* safely destroy the data that the callback may access"): once Cancel() has
\* returned for a timer, its callback is not running and cannot run any more.
Quiescent == \A t \in released : status[t] \in Done
=============================================================================
