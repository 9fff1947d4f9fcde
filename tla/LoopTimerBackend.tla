-------------------------- MODULE LoopTimerBackend --------------------------
(***************************************************************************)
(* Exec::LoopTimerBackend: a vector of entries sorted by deadline, and     *)
(* Tick(), which fires the due ones on the only thread there is.  Client   *)
(* code and callbacks schedule and cancel; Tick() is not re-entered.       *)
(***************************************************************************)
EXTENDS Naturals, FiniteSets, Sequences

CONSTANTS
    MaxTimers,       \* bound: ScheduleAt() calls
    MaxTime          \* bound: the last instant of the clock

ASSUME LoopTimerAssumption == MaxTimers \in Nat /\ MaxTime \in Nat

VARIABLES
    now,             \* steady_clock::now()
    entries,         \* _entries: a sequence of [deadline, id]
    nextId,          \* _nextId
    ticking,         \* the thread is in Tick()
    snapshot,        \* Tick(): now
    running,         \* the id whose callback Tick() is in, or Invalid
    fired,           \* history: the ids whose callback has been invoked
    released         \* history: the ids some Cancel() has returned for

tick == <<ticking, snapshot>>
vars == <<now, entries, nextId, tick, running, fired, released>>

Time    == 0..(MaxTime + 1)                         \* the last one never comes
Timers  == 1..MaxTimers
Invalid == 0                                        \* InvalidTimerId

Init ==
    /\ now = 0 /\ entries = <<>> /\ nextId = 1
    /\ ticking = FALSE /\ snapshot = 0 /\ running = Invalid
    /\ fired = {} /\ released = {}

\* User code runs: between two Tick() calls, or in a callback.
InUserCode == ticking => running # Invalid

\* _nextId.fetch_add(1).
FreshId == nextId

\* std::lower_bound: entries of the same deadline come after the new one.  The
\* mutant appends.
Back(d) == Len(entries) + 1
LowerBound(d) == Cardinality({i \in DOMAIN entries : entries[i].deadline < d}) + 1

\* std::vector: insert() and erase()
Insert(s, i, e) == SubSeq(s, 1, i - 1) \o <<e>> \o SubSeq(s, i, Len(s))
Erase(s, i)     == SubSeq(s, 1, i - 1) \o SubSeq(s, i + 1, Len(s))

ScheduleAt(d) ==
    /\ InUserCode
    /\ nextId <= MaxTimers
    /\ nextId' = nextId + 1
    /\ entries' = Insert(entries, LowerBound(d), [deadline |-> d, id |-> FreshId])
    /\ UNCHANGED <<now, tick, running, fired, released>>

\* std::find_if by id
Find(t) == {i \in DOMAIN entries : entries[i].id = t}

\* As in ThreadTimerBackend, a callback does not cancel itself.
Cancel(t) ==
    /\ InUserCode
    /\ t < nextId /\ t # running
    /\ IF Find(t) = {} THEN UNCHANGED entries
       ELSE \E i \in Find(t) : entries' = Erase(entries, i)
    /\ released' = released \cup {t}
    /\ UNCHANGED <<now, nextId, tick, running, fired>>

\* Tick() is called and takes its snapshot of the clock.
TickBegin ==
    /\ ~ticking
    /\ ticking' = TRUE /\ snapshot' = now
    /\ UNCHANGED <<now, entries, nextId, running, fired, released>>

\* The front entry is due at the snapshot.  The mutant does not compare.
FrontAny == entries # <<>>
FrontDue == entries # <<>> /\ Head(entries).deadline <= snapshot

\* Tick(): the front entry is moved out and its callback invoked.
TickFire ==
    /\ ticking /\ running = Invalid
    /\ FrontDue
    /\ running' = Head(entries).id
    /\ entries' = Tail(entries)
    /\ fired' = fired \cup {running'}
    /\ UNCHANGED <<now, nextId, tick, released>>

CallbackReturns ==
    /\ running # Invalid
    /\ running' = Invalid
    /\ UNCHANGED <<now, entries, nextId, tick, fired, released>>

TickEnd ==
    /\ ticking /\ running = Invalid
    /\ ~FrontDue
    /\ ticking' = FALSE
    /\ UNCHANGED <<now, entries, nextId, snapshot, running, fired, released>>

ClockTick ==
    /\ now < MaxTime /\ now' = now + 1
    /\ UNCHANGED <<entries, nextId, tick, running, fired, released>>

Tick == TickBegin \/ TickFire \/ TickEnd

Next ==
    \/ \E d \in Time : ScheduleAt(d)
    \/ \E t \in Timers : Cancel(t)
    \/ Tick \/ CallbackReturns \/ ClockTick

Spec == Init /\ [][Next]_vars

-----------------------------------------------------------------------------
(* Properties.                                                             *)

\* What the contract sees of a timer.
StatusOf(t) ==
    IF t = running THEN "inflight"
    ELSE IF Find(t) # {}
         THEN IF \E i \in Find(t) : entries[i].deadline <= now THEN "due" ELSE "armed"
    ELSE IF t \in fired THEN "fired"
    ELSE IF t < nextId THEN "cancelled" ELSE "unused"

Contract == INSTANCE TimerBackend WITH status <- [t \in Timers |-> StatusOf(t)]

\* LoopTimerBackend implements the contract of ITimerBackend.
ImplementsTimerBackend == Contract!Spec

\* "Fire all callbacks whose deadline is at or before steady_clock::now()", "in
\* deadline order" (LoopTimerBackend.h:43-46): Tick(), which looks at the front
\* only, invokes a callback when no other entry has an earlier deadline, and
\* returns when none is left that was due at its snapshot, whatever the callbacks
\* inserted and erased meanwhile.  That it returns is not claimed: an entry that
\* a callback adds with a deadline already past is fired by the same Tick(), so
\* a callback that always adds one keeps it, which lines 46-48 exclude.
FiresInOrder ==
    [][/\ running' \notin {running, Invalid} =>
             \A i \in DOMAIN entries, j \in Find(running') : entries[j].deadline <= entries[i].deadline
       /\ ticking /\ ~ticking' => \A i \in DOMAIN entries : snapshot < entries[i].deadline]_vars
=============================================================================
