--------------------------- MODULE RunLoopProofs ----------------------------
(* Proofs about RunLoop, for any handlers, kinds of handlers and exit codes.   *)
EXTENDS RunLoop, SequenceTheorems, TLAPS

Pcs == Callback \cup {"init", "frame", "done"}

TypeOK ==
    /\ runner \in Runners
    /\ list \in Seq(Handlers) /\ fresh \in SUBSET Handlers /\ running \in BOOLEAN
    /\ bound \in SUBSET Handlers
    /\ job \in [Handlers -> {None, "started", "failed", "stopped"}]
    /\ work \in [Handlers -> {None, "running", "done"}]
    /\ pc \in Pcs /\ cur \in Handlers \cup {None} /\ it \in Handlers \cup {End}
    /\ loop \in BOOLEAN /\ exitCode \in Codes \cup {None, Cancelled}
    /\ first \in Codes \cup {None, Cancelled} /\ last \in Codes \cup {None}
    /\ result \in Codes \cup {None, Success, NotStarted, Cancelled}

\* A handler is once in the list, and nothing was done with one not yet added.
ListInv ==
    /\ \A i, j \in DOMAIN list : list[i] = list[j] => i = j
    /\ \A i \in DOMAIN list : list[i] \notin fresh
    /\ \A h \in fresh : job[h] = None /\ work[h] = None

\* No handler at index k or after it is started.
QuietFrom(k) == \A i \in DOMAIN list : i >= k => job[list[i]] # "started"

\* Where the walks are.  CompositeHandler is running between Start() and Stop(), so
\* what is added in the other walks is not started; the walk of Start() has nothing
\* started at its iterator and behind it, the reverse ones nothing behind theirs.
WalkInv ==
    /\ running => pc \in {"frame", "updating"}
    /\ pc \in Callback => \E j \in DOMAIN list : list[j] = cur
    /\ pc \in {"starting", "unwinding", "updating"} => it = cur
    /\ pc = "stopping" /\ it # End => \E j, k \in DOMAIN list : list[j] = cur /\ list[k] = it /\ j < k
    /\ pc \in {"init", "done"} => QuietFrom(1)
    /\ pc = "starting" => \A j \in DOMAIN list : list[j] = cur => QuietFrom(j)
    /\ pc \in {"unwinding", "stopping"} => \A j \in DOMAIN list : list[j] = cur => QuietFrom(j + 1)

\* The codes; Run() has no result before it returns.
ExitInv ==
    /\ loop \in BOOLEAN /\ exitCode \in Codes \cup {None, Cancelled}
    /\ first \in Codes \cup {None, Cancelled} /\ last \in Codes \cup {None}
    /\ exitCode = Outcome
ResultInv ==
    /\ pc # "done" => result = None
    /\ pc = "done" => result = NotStarted \/ result = IF Exiting THEN exitCode ELSE Success

IInv == TypeOK /\ ListInv /\ WalkInv /\ ExitInv /\ ResultInv /\ CompletionHasRunner

-----------------------------------------------------------------------------
(* The list and its iterators *)

LEMMA Sequence == TypeOK => Len(list) \in Nat /\ DOMAIN list = 1 .. Len(list)
                            /\ \A i \in DOMAIN list : list[i] \in Handlers
BY DEF TypeOK

\* The iterator of a handler is at its only index.
LEMMA Positions ==
    ASSUME TypeOK, ListInv, NEW j \in DOMAIN list
    PROVE  Position(list[j]) = j /\ list[j] \in Handlers /\ list[j] # End /\ list[j] # None
<1>1. list[j] \in Handlers BY Sequence
<1>2. list[j] # End /\ list[j] # None BY <1>1, RunLoopAssumption
<1>3. \A i \in DOMAIN list : list[i] = list[j] => i = j BY DEF ListInv
<1>4. (CHOOSE i \in DOMAIN list : list[i] = list[j]) = j BY <1>3
<1> QED BY <1>1, <1>2, <1>4 DEF Position

LEMMA Neighbours ==
    ASSUME TypeOK, ListInv, NEW j \in DOMAIN list
    PROVE  /\ Succ(list[j]) = IF j = Len(list) THEN End ELSE list[j + 1]
           /\ j # Len(list) => j + 1 \in DOMAIN list
           /\ j > 1 => Prev(list[j]) = list[j - 1] /\ j - 1 \in DOMAIN list
           /\ Front = list[1] /\ 1 \in DOMAIN list
           /\ list[j] = Front <=> j = 1
<1>1. /\ Len(list) \in Nat /\ DOMAIN list = 1 .. Len(list) /\ j \in 1 .. Len(list)
      /\ Position(list[j]) = j
  BY Sequence, Positions
<1>2. Succ(list[j]) = At(j + 1) /\ Prev(list[j]) = At(j - 1) BY <1>1 DEF Succ, Prev
<1>3. \A i \in 1 .. Len(list) : At(i) = list[i] BY <1>1 DEF At
<1>4. j = Len(list) => At(j + 1) = End BY <1>1 DEF At
<1>5. Front = list[1] /\ 1 \in DOMAIN list BY <1>1, <1>3 DEF Front
<1>6. list[j] = list[1] <=> j = 1 BY <1>5 DEF ListInv
<1> QED BY <1>1, <1>2, <1>3, <1>4, <1>5, <1>6

\* ... and of the end.
LEMMA EndNeighbours ==
    ASSUME TypeOK, ListInv
    PROVE  /\ Front = End <=> Len(list) = 0
           /\ Len(list) # 0 => Prev(End) = list[Len(list)] /\ Len(list) \in DOMAIN list
                               /\ 1 \in DOMAIN list /\ Front = list[1]
<1>1. Len(list) \in Nat /\ DOMAIN list = 1 .. Len(list) BY Sequence
<1>2. Position(End) = Len(list) + 1 BY DEF Position
<1>3. Len(list) = 0 => Front = End BY DEF Front, At
<1>4. ASSUME Len(list) # 0
      PROVE  /\ Prev(End) = list[Len(list)] /\ Len(list) \in DOMAIN list
             /\ 1 \in DOMAIN list /\ Front = list[1] /\ Front # End
  <2>1. Len(list) \in DOMAIN list /\ 1 \in DOMAIN list BY <1>1, <1>4
  <2>2. Prev(End) = At(Len(list)) BY <1>1, <1>2 DEF Prev
  <2>3. At(Len(list)) = list[Len(list)] /\ At(1) = list[1] BY <1>1, <1>4 DEF At
  <2>4. list[1] # End BY <2>1, Positions
  <2> QED BY <2>1, <2>2, <2>3, <2>4 DEF Front
<1> QED BY <1>3, <1>4

\* Append adds at the end.
LEMMA Appended ==
    ASSUME TypeOK, NEW h \in Handlers
    PROVE  LET new == Append(list, h) IN
           /\ new \in Seq(Handlers) /\ Len(new) = Len(list) + 1
           /\ DOMAIN new = 1 .. (Len(list) + 1)
           /\ \A i \in DOMAIN list : i \in DOMAIN new /\ new[i] = list[i]
           /\ new[Len(list) + 1] = h
BY DEF TypeOK

\* Unlinking keeps the order of the others.
LEMMA Unlinked ==
    ASSUME TypeOK, ListInv, NEW p \in DOMAIN list
    PROVE  LET new == SubSeq(list, 1, p - 1) \o SubSeq(list, p + 1, Len(list)) IN
           /\ new \in Seq(Handlers) /\ DOMAIN new = 1 .. (Len(list) - 1)
           /\ \A i \in DOMAIN new : new[i] = list[IF i < p THEN i ELSE i + 1]
<1> DEFINE a == SubSeq(list, 1, p - 1)
           b == SubSeq(list, p + 1, Len(list))
<1>1. Len(list) \in Nat /\ p \in 1 .. Len(list) /\ list \in Seq(Handlers)
      /\ \A i \in 1 .. Len(list) : list[i] \in Handlers
  BY Sequence DEF TypeOK
<1>2. a \in Seq(Handlers) /\ Len(a) = p - 1 /\ \A i \in 1 .. (p - 1) : a[i] = list[i]
  BY <1>1
<1>3. b \in Seq(Handlers) /\ Len(b) = Len(list) - p
      /\ \A i \in 1 .. (Len(list) - p) : b[i] = list[p + i]
  BY <1>1
<1> HIDE DEF a, b
<1>4. a \o b \in Seq(Handlers) /\ Len(a \o b) = Len(list) - 1 BY <1>1, <1>2, <1>3
<1>5. \A i \in 1 .. (Len(list) - 1) : (a \o b)[i] = IF i <= p - 1 THEN a[i] ELSE b[i - (p - 1)]
  <2>1. \A i \in 1 .. (Len(a) + Len(b)) : (a \o b)[i] = IF i <= Len(a) THEN a[i] ELSE b[i - Len(a)]
    BY <1>2, <1>3, ConcatProperties, ZenonT(30)
  <2>2. Len(a) + Len(b) = Len(list) - 1 BY <1>1, <1>2, <1>3
  <2> QED BY <1>2, <2>1, <2>2, Zenon
<1>6. DOMAIN (a \o b) = 1 .. (Len(list) - 1) BY <1>1, <1>4
<1>7. ASSUME NEW i \in 1 .. (Len(list) - 1)
      PROVE  (a \o b)[i] = list[IF i < p THEN i ELSE i + 1]
  <2>1. CASE i < p BY <1>1, <1>2, <1>5, <2>1
  <2>2. CASE ~(i < p)
    <3> DEFINE k == i - (p - 1)
    <3>1. k \in 1 .. (Len(list) - p) /\ p + k = i + 1 /\ ~(i <= p - 1) BY <1>1, <2>2
    <3>2. (a \o b)[i] = b[k] BY <1>5, <3>1, Zenon
    <3> HIDE DEF k
    <3>3. b[k] = list[i + 1] BY <1>3, <3>1
    <3> QED BY <2>2, <3>2, <3>3
  <2> QED BY <2>1, <2>2, Zenon
<1> QED BY <1>4, <1>6, <1>7, Zenon DEF a, b

-----------------------------------------------------------------------------
(* Exit codes and work *)

\* The pending code follows what happened: the last code of a sender or of the
\* application, and without one the first outcome.
LEMMA Exits ==
    ASSUME ExitInv,
           \/ \E c \in Codes : Gives(c)
           \/ \E c \in Codes \cup {Cancelled} : Ends(c)
           \/ Signalled \/ UNCHANGED exit
    PROVE  ExitInv'
<1>1. None \notin Codes /\ None # Cancelled BY RunLoopAssumption DEF None, Cancelled
<1>2. ASSUME NEW c \in Codes, Gives(c) PROVE ExitInv'
  <2>1. exitCode' = c /\ loop' \in BOOLEAN /\ last' = c /\ c # None
    BY <1>1, <1>2 DEF Gives, Exit, TightExit, WasmExit, ExitInv
  <2>2. first' \in Codes \cup {None, Cancelled} BY <1>2, Zenon DEF Gives, First, ExitInv, Outcome
  <2> QED BY <2>1, <2>2, Zenon DEF ExitInv, Outcome
<1>3. ASSUME NEW c \in Codes \cup {Cancelled}, Ends(c) PROVE ExitInv'
  <2>1. last' = last /\ c # None /\ first' = IF first = None THEN c ELSE first
    BY <1>1, <1>3 DEF Ends, First
  <2>2. CASE exitCode # None
    <3>1. UNCHANGED <<exitCode, loop>> BY <1>3, <2>2 DEF Ends, ExitIfNone, Exiting
    <3>2. last = None => first # None BY <2>2, Zenon DEF ExitInv, Outcome
    <3> QED BY <2>1, <3>1, <3>2, Zenon DEF ExitInv, Outcome
  <2>3. CASE exitCode = None
    <3>1. exitCode' = c /\ loop' \in BOOLEAN
      BY <1>3, <2>3 DEF Ends, ExitIfNone, Exiting, Exit, TightExit, WasmExit, ExitInv
    <3>2. last = None /\ first = None BY <2>3, Zenon DEF ExitInv, Outcome
    <3> QED BY <2>1, <3>1, <3>2, Zenon DEF ExitInv, Outcome
  <2> QED BY <2>2, <2>3
<1>4. CASE UNCHANGED exit BY <1>4 DEF exit, ExitInv, Outcome
<1> QED BY <1>2, <1>3, <1>4 DEF Signalled

\* The work of h, and of no other handler, may end.
Fades(h) ==
    /\ work' \in [Handlers -> {None, "running", "done"}]
    /\ \A g \in Handlers : work'[g] = "running" => work[g] = "running"
    /\ \A g \in Handlers \ {h} : work'[g] = work[g]

LEMMA WorkFades ==
    ASSUME TypeOK, NEW h \in Handlers, Done(h) \/ WorkStops(h) \/ UNCHANGED work
    PROVE  Fades(h)
<1>1. work \in [Handlers -> {None, "running", "done"}] BY DEF TypeOK
<1>2. CASE Done(h) BY <1>1, <1>2 DEF Done, Fades, None
<1>3. CASE WorkStops(h) BY <1>1, <1>3 DEF WorkStops, Fades, None
<1>4. CASE UNCHANGED work BY <1>1, <1>4 DEF Fades
<1> QED BY <1>2, <1>3, <1>4

\* A handler of the list is a handler that was added.
LEMMA CurListed ==
    ASSUME TypeOK, ListInv, WalkInv, pc \in Callback
    PROVE  cur \in Handlers /\ cur \notin fresh /\ \E j \in DOMAIN list : list[j] = cur
<1>1. PICK j \in DOMAIN list : list[j] = cur BY DEF WalkInv
<1> QED BY <1>1, Sequence DEF ListInv

\* A step of the walks: it leaves the list, and may change what became of h, which
\* is in the list.
Walks(h, new) ==
    /\ UNCHANGED <<runner, list, fresh, bound, exit>>
    /\ job' = new /\ new \in [Handlers -> {None, "started", "failed", "stopped"}]
    /\ \A g \in Handlers \ {h} : new[g] = job[g]
    /\ Fades(h)

LEMMA WalkFrame ==
    ASSUME TypeOK, ListInv, ExitInv, CompletionHasRunner, NEW h \in Handlers, h \notin fresh,
           NEW new, Walks(h, new)
    PROVE  ListInv' /\ ExitInv' /\ CompletionHasRunner'
<1>1. ListInv' BY DEF ListInv, Walks, Fades, TypeOK
<1>2. ExitInv' BY DEF ExitInv, Walks, exit, Outcome
<1>3. CompletionHasRunner' BY Sequence DEF CompletionHasRunner, Walks, Fades, Listed
<1> QED BY <1>1, <1>2, <1>3

LEMMA CompleteStep == ASSUME IInv, Complete PROVE IInv'
<1>1. pc \in Callback /\ UNCHANGED <<runner, lists, job, walk>> BY DEF Complete
<1>2. cur \in Handlers /\ cur \notin fresh BY <1>1, CurListed DEF IInv
<1>3. Done(cur) \/ UNCHANGED work BY DEF Complete, DomainEnds, AsioEnds
<1>4. Fades(cur) BY <1>2, <1>3, WorkFades DEF IInv
<1>5. ExitInv'
  <2>1. Signalled \/ (\E c \in Codes \cup {Cancelled} : Ends(c)) \/ \E c \in Codes : Gives(c)
    BY DEF Complete, DomainEnds, AsioEnds
  <2> QED BY <2>1, Exits DEF IInv
<1>6. TypeOK' BY <1>1, <1>4, <1>5 DEF IInv, TypeOK, lists, walk, Fades, ExitInv, Outcome
<1>7. ListInv' BY <1>1, <1>2, <1>4 DEF IInv, TypeOK, ListInv, lists, Fades
<1>8. WalkInv' BY <1>1 DEF IInv, WalkInv, QuietFrom, lists, walk
<1>9. pc # "done" BY <1>1 DEF Callback
<1>10. ResultInv' BY <1>1, <1>9 DEF IInv, ResultInv, walk
<1>11. CompletionHasRunner' BY <1>1, <1>4, Sequence DEF IInv, CompletionHasRunner, Listed, lists, Fades
<1> QED BY <1>5, <1>6, <1>7, <1>8, <1>10, <1>11 DEF IInv

-----------------------------------------------------------------------------
(* CompositeHandler::Add() and Remove() *)

\* A handler added in a walk goes behind it, and is started only while Update() is
\* what runs.
LEMMA AddStep == ASSUME IInv, NEW h \in Handlers, Add(h) PROVE IInv'
<1>1. /\ pc \in Callback \cup {"init"} /\ h \in fresh /\ fresh' = fresh \ {h}
      /\ list' = Append(list, h) /\ UNCHANGED <<runner, running, walk>>
  BY DEF Add, InUserCode
<1>2. Len(list) \in Nat /\ DOMAIN list = 1 .. Len(list) BY Sequence DEF IInv
<1>3. /\ list' \in Seq(Handlers) /\ DOMAIN list' = 1 .. (Len(list) + 1)
      /\ \A i \in DOMAIN list : i \in DOMAIN list' /\ list'[i] = list[i]
      /\ list'[Len(list) + 1] = h
  BY <1>1, Appended DEF IInv
<1>4. /\ job' \in [Handlers -> {None, "started", "failed", "stopped"}]
      /\ \A g \in Handlers \ {h} : job'[g] = job[g]
      /\ ~running => job' = job
  BY DEF Add, IInv, TypeOK, WalkInv
<1>5. /\ work' \in [Handlers -> {None, "running", "done"}]
      /\ \A g \in Handlers \ {h} : work'[g] = work[g]
      /\ work'[h] = "running" => h \in bound'
      /\ bound' \in SUBSET Handlers /\ bound \subseteq bound'
  <2>1. work \in [Handlers -> {None, "running", "done"}] /\ bound \in SUBSET Handlers
        /\ work[h] # "running"
    BY <1>1 DEF IInv, TypeOK, ListInv, None
  <2>2. \/ bound' = bound /\ work' = work
        \/ bound' = bound \cup {h} /\ (Done(h) \/ WorkStarts(h) \/ work' = work)
    BY DEF Add, Bind
  <2> QED BY <2>1, <2>2 DEF Done, WorkStarts, None
<1>6. ExitInv'
  <2>1. UNCHANGED exit \/ Signalled BY DEF Add
  <2> QED BY <2>1, Exits DEF IInv
<1>7. TypeOK' BY <1>1, <1>3, <1>4, <1>5, <1>6 DEF IInv, TypeOK, ExitInv, walk, Outcome
<1>8. ListInv'
  <2>1. \A i \in DOMAIN list : list[i] # h BY <1>1 DEF IInv, ListInv
  <2>2. \A i, j \in DOMAIN list' : list'[i] = list'[j] => i = j
    BY <1>2, <1>3, <2>1 DEF IInv, ListInv
  <2>3. \A i \in DOMAIN list' : list'[i] \notin fresh' BY <1>1, <1>2, <1>3 DEF IInv, ListInv
  <2>4. \A g \in fresh' : job'[g] = None /\ work'[g] = None
    BY <1>1, <1>4, <1>5 DEF IInv, TypeOK, ListInv
  <2> QED BY <2>2, <2>3, <2>4 DEF ListInv
<1>9. WalkInv'
  <2>1. pc' = pc /\ cur' = cur /\ it' = it /\ running' = running BY <1>1 DEF walk
  <2>2. ~running => \A k \in Nat : QuietFrom(k) => QuietFrom(k)'
    <3>1. job[h] # "started" BY <1>1 DEF IInv, ListInv, None
    <3> QED BY <1>2, <1>3, <1>4, <3>1 DEF QuietFrom
  <2>3. \A j \in DOMAIN list' : list'[j] = cur /\ pc \in Callback => j \in DOMAIN list /\ list[j] = cur
    <3>1. pc \in Callback => cur # h BY <1>1, CurListed DEF IInv
    <3> QED BY <1>2, <1>3, <3>1
  <2>4. pc \notin {"frame", "updating"} => ~running BY DEF IInv, WalkInv
  <2>5. pc \in Callback => \E j \in DOMAIN list' : list'[j] = cur BY <1>3 DEF IInv, WalkInv
  <2>6. pc = "stopping" /\ it # End =>
          \E j, k \in DOMAIN list' : list'[j] = cur /\ list'[k] = it /\ j < k
    BY <1>3 DEF IInv, WalkInv
  <2>7. pc \in {"init", "done"} => QuietFrom(1)' BY <2>2, <2>4 DEF IInv, WalkInv
  <2>8. pc = "starting" => \A j \in DOMAIN list' : list'[j] = cur => QuietFrom(j)'
    BY <1>2, <2>2, <2>3, <2>4 DEF IInv, WalkInv, Callback
  <2>9. pc \in {"unwinding", "stopping"} => \A j \in DOMAIN list' : list'[j] = cur => QuietFrom(j + 1)'
    <3> SUFFICES ASSUME pc \in {"unwinding", "stopping"}, NEW j \in DOMAIN list', list'[j] = cur
                 PROVE QuietFrom(j + 1)'
      OBVIOUS
    <3>1. j \in DOMAIN list /\ list[j] = cur /\ ~running BY <2>3, <2>4 DEF Callback
    <3>2. QuietFrom(j + 1) /\ j + 1 \in Nat BY <1>2, <3>1 DEF IInv, WalkInv
    <3> QED BY <2>2, <3>1, <3>2
  <2>10. (running => pc \in {"frame", "updating"})
         /\ (pc \in {"starting", "unwinding", "updating"} => it = cur)
    BY DEF IInv, WalkInv
  <2> QED BY <2>1, <2>5, <2>6, <2>7, <2>8, <2>9, <2>10 DEF WalkInv
<1>10. ResultInv'
  <2>1. pc # "done" BY <1>1 DEF Callback
  <2> QED BY <1>1, <2>1 DEF IInv, ResultInv, walk
<1>11. CompletionHasRunner'
  <2>1. \A g \in Listed' : g = h \/ g \in Listed BY <1>2, <1>3 DEF Listed
  <2>2. \A g \in Listed : g \in Handlers BY Sequence DEF IInv, Listed
  <2> QED BY <1>5, <2>1, <2>2 DEF IInv, CompletionHasRunner
<1> QED BY <1>6, <1>7, <1>8, <1>9, <1>10, <1>11 DEF IInv

\* A handler that is removed in a walk leaves the order of the others.
LEMMA RemoveStep == ASSUME IInv, NEW h \in Handlers, Remove(h) PROVE IInv'
<1> DEFINE p == Position(h)
           to(i) == IF i < p THEN i ELSE i + 1
<1>1. /\ pc \in Callback \cup {"init"} /\ h \in Listed /\ h # cur /\ h # it
      /\ bound' = bound \ {h} /\ UNCHANGED <<runner, fresh, running, walk>>
  BY DEF Remove, InUserCode
<1>2. p \in DOMAIN list /\ list[p] = h
  <2>1. PICK i \in DOMAIN list : list[i] = h BY <1>1 DEF Listed
  <2>2. p = i BY <2>1, Positions DEF IInv
  <2> QED BY <2>1, <2>2
<1>3. Len(list) \in Nat /\ DOMAIN list = 1 .. Len(list) /\ h \notin fresh
  BY <1>2, Sequence DEF IInv, ListInv
<1>4. /\ list' \in Seq(Handlers) /\ DOMAIN list' = 1 .. (Len(list) - 1)
      /\ \A i \in DOMAIN list' : list'[i] = list[to(i)]
  BY <1>2, Unlinked, ZenonT(30) DEF IInv, Remove
<1> HIDE DEF p
<1>5. /\ \A i \in DOMAIN list' : to(i) \in DOMAIN list /\ to(i) # p
      /\ \A i, j \in DOMAIN list' : i < j <=> to(i) < to(j)
      /\ \A k \in DOMAIN list \ {p} : \E i \in DOMAIN list' : to(i) = k
  <2>1. p \in Nat /\ p >= 1 /\ p <= Len(list) BY <1>2, <1>3
  <2>2. ASSUME NEW k \in DOMAIN list \ {p} PROVE \E i \in DOMAIN list' : to(i) = k
    <3>1. CASE k < p BY <1>3, <1>4, <2>1, <3>1
    <3>2. CASE k > p
      <4>1. k - 1 \in DOMAIN list' /\ to(k - 1) = k BY <1>3, <1>4, <2>1, <3>2
      <4> QED BY <4>1
    <3> QED BY <1>3, <2>1, <2>2, <3>1, <3>2
  <2>3. ASSUME NEW i \in DOMAIN list' PROVE to(i) \in DOMAIN list /\ to(i) # p
    BY <1>3, <1>4, <2>1
  <2>4. ASSUME NEW i \in DOMAIN list', NEW j \in DOMAIN list' PROVE i < j <=> to(i) < to(j)
    <3>1. i \in Nat /\ j \in Nat BY <1>3, <1>4
    <3> QED BY <2>1, <3>1
  <2> QED BY <2>2, <2>3, <2>4, Zenon
<1> HIDE DEF to
<1>6. /\ job' \in [Handlers -> {None, "started", "failed", "stopped"}]
      /\ \A g \in Handlers \ {h} : job'[g] = job[g]
  BY Zenon DEF Remove, IInv, TypeOK
<1>7. Fades(h)
  <2>1. Done(h) \/ WorkStops(h) \/ UNCHANGED work BY DEF Remove, DomainEnds, AsioEnds
  <2> QED BY <2>1, WorkFades DEF IInv
<1>8. ExitInv'
  <2>1. Signalled \/ (\E c \in Codes \cup {Cancelled} : Ends(c)) \/ UNCHANGED exit
    BY DEF Remove, DomainEnds, AsioEnds
  <2> QED BY <2>1, Exits DEF IInv
<1>9. TypeOK' BY <1>1, <1>4, <1>6, <1>7, <1>8 DEF IInv, TypeOK, ExitInv, walk, Fades, Outcome

<1>10. ListInv'
  <2>1. \A i, j \in DOMAIN list' : list'[i] = list'[j] => i = j
    <3> SUFFICES ASSUME NEW i \in DOMAIN list', NEW j \in DOMAIN list', list'[i] = list'[j] PROVE i = j
      OBVIOUS
    <3>1. to(i) = to(j) BY <1>4, <1>5 DEF IInv, ListInv
    <3>2. ~(i < j) /\ ~(j < i) BY <1>3, <1>5, <3>1
    <3> QED BY <1>3, <1>4, <3>2
  <2>2. \A i \in DOMAIN list' : list'[i] \notin fresh' BY <1>1, <1>4, <1>5 DEF IInv, ListInv
  <2>3. \A g \in fresh' : job'[g] = None /\ work'[g] = None
    BY <1>1, <1>3, <1>6, <1>7 DEF IInv, TypeOK, ListInv, Fades
  <2> QED BY <2>1, <2>2, <2>3 DEF ListInv
<1>11. WalkInv'
  <2>1. pc' = pc /\ cur' = cur /\ it' = it /\ running' = running BY <1>1 DEF walk
  <2>2. ASSUME NEW i \in DOMAIN list'
        PROVE list[to(i)] # h /\ list[to(i)] \in Handlers /\ job'[list'[i]] = job[list[to(i)]]
    <3>1. list[to(i)] # h BY <1>2, <1>5 DEF IInv, ListInv
    <3>2. list[to(i)] \in Handlers BY <1>5, Sequence DEF IInv
    <3> QED BY <1>4, <1>6, <3>1, <3>2
  <2>3. ASSUME NEW g \in {cur, it}, NEW k \in DOMAIN list, list[k] = g
        PROVE \E i \in DOMAIN list' : list'[i] = g /\ to(i) = k
    <3>1. k # p BY <1>1, <1>2, <2>3
    <3> QED BY <1>4, <1>5, <2>3, <3>1
  <2>4. pc \in Callback => \E j \in DOMAIN list' : list'[j] = cur BY <2>3 DEF IInv, WalkInv
  <2>5. pc = "stopping" /\ it # End =>
          \E j, k \in DOMAIN list' : list'[j] = cur /\ list'[k] = it /\ j < k
    <3> HAVE pc = "stopping" /\ it # End
    <3>1. PICK j, k \in DOMAIN list : list[j] = cur /\ list[k] = it /\ j < k BY DEF IInv, WalkInv
    <3>2. PICK a \in DOMAIN list' : list'[a] = cur /\ to(a) = j BY <2>3, <3>1
    <3>3. PICK b \in DOMAIN list' : list'[b] = it /\ to(b) = k BY <2>3, <3>1
    <3>4. a < b BY <1>5, <3>1, <3>2, <3>3
    <3> QED BY <3>2, <3>3, <3>4
  <2>6. ASSUME NEW k \in Nat, NEW n \in Nat, QuietFrom(n), \A i \in DOMAIN list' : i >= k => to(i) >= n
        PROVE QuietFrom(k)'
    <3>1. \A i \in DOMAIN list' : i >= k => job'[list'[i]] # "started"
      BY <1>5, <2>2, <2>6 DEF QuietFrom
    <3> QED BY <3>1 DEF QuietFrom
  <2>7. pc \in {"init", "done"} => QuietFrom(1)'
    <3>1. \A i \in DOMAIN list' : to(i) >= 1 BY <1>3, <1>5
    <3> QED BY <2>6, <3>1 DEF IInv, WalkInv
  <2>8. pc = "starting" => \A j \in DOMAIN list' : list'[j] = cur => QuietFrom(j)'
    <3> SUFFICES ASSUME pc = "starting", NEW j \in DOMAIN list', list'[j] = cur PROVE QuietFrom(j)'
      OBVIOUS
    <3>1. to(j) \in DOMAIN list /\ list[to(j)] = cur BY <1>4, <1>5
    <3>2. QuietFrom(to(j)) BY <3>1 DEF IInv, WalkInv
    <3>3. \A i \in DOMAIN list' : i >= j => to(i) >= to(j) BY <1>3, <1>4, <1>5
    <3>4. j \in Nat /\ to(j) \in Nat BY <1>3, <1>4, <3>1
    <3> QED BY <2>6, <3>2, <3>3, <3>4
  <2>9. pc \in {"unwinding", "stopping"} => \A j \in DOMAIN list' : list'[j] = cur => QuietFrom(j + 1)'
    <3> SUFFICES ASSUME pc \in {"unwinding", "stopping"}, NEW j \in DOMAIN list', list'[j] = cur
                 PROVE QuietFrom(j + 1)'
      OBVIOUS
    <3>1. to(j) \in DOMAIN list /\ list[to(j)] = cur BY <1>4, <1>5
    <3>2. QuietFrom(to(j) + 1) BY <3>1 DEF IInv, WalkInv
    <3>3. j \in Nat /\ j + 1 \in Nat /\ to(j) \in Nat /\ to(j) + 1 \in Nat BY <1>3, <1>4, <3>1
    <3>4. ASSUME NEW i \in DOMAIN list', i >= j + 1 PROVE to(i) >= to(j) + 1
      <4>1. to(i) \in DOMAIN list BY <1>5
      <4>2. to(i) \in Nat BY <1>3, <4>1
      <4>3. i \in Nat BY <1>3, <1>4
      <4>4. j < i BY <3>3, <3>4, <4>3
      <4>5. to(j) < to(i) BY <1>5, <4>4
      <4> QED BY <3>3, <4>2, <4>5
    <3> QED BY <2>6, <3>2, <3>3, <3>4
  <2>10. (running => pc \in {"frame", "updating"})
         /\ (pc \in {"starting", "unwinding", "updating"} => it = cur)
    BY DEF IInv, WalkInv
  <2> QED BY <2>1, <2>4, <2>5, <2>7, <2>8, <2>9, <2>10 DEF WalkInv
<1>12. ResultInv'
  <2>1. pc # "done" BY <1>1 DEF Callback
  <2> QED BY <1>1, <2>1 DEF IInv, ResultInv, walk
<1>13. CompletionHasRunner'
  <2>1. \A g \in Listed' : g # h /\ g \in Listed /\ g \in Handlers
    <3> SUFFICES ASSUME NEW i \in DOMAIN list' PROVE list'[i] # h /\ list'[i] \in Listed /\ list'[i] \in Handlers
      BY DEF Listed
    <3>1. list'[i] = list[to(i)] /\ to(i) \in DOMAIN list /\ to(i) # p BY <1>4, <1>5
    <3> QED BY <1>2, <3>1, Sequence DEF IInv, ListInv, Listed
  <2> QED BY <1>1, <1>7, <2>1 DEF IInv, CompletionHasRunner, Fades
<1> QED BY <1>8, <1>9, <1>10, <1>11, <1>12, <1>13 DEF IInv

-----------------------------------------------------------------------------
(* Runner::Run() and the walks of CompositeHandler *)

\* Nothing of the list but the handler at index j changes, which is not started
\* by the step: what was quiet stays quiet, and becomes so from j.
LEMMA QuietGrows ==
    ASSUME TypeOK, ListInv, NEW j \in DOMAIN list, UNCHANGED list,
           \A g \in Handlers \ {list[j]} : job'[g] = job[g], QuietFrom(j + 1)
    PROVE  QuietFrom(j + 1)' /\ (job'[list[j]] # "started" => QuietFrom(j)')
<1>1. DOMAIN list = 1 .. Len(list) /\ Len(list) \in Nat /\ \A i \in DOMAIN list : list[i] \in Handlers
  BY Sequence
<1>2. \A i \in DOMAIN list : i >= j + 1 => i # j BY <1>1
<1>3. \A i \in DOMAIN list : i >= j + 1 => list[i] # list[j] /\ job[list[i]] # "started"
  BY <1>2 DEF ListInv, QuietFrom
<1>4. \A i \in DOMAIN list : i >= j => i = j \/ i >= j + 1 BY <1>1
<1> QED BY <1>1, <1>3, <1>4 DEF QuietFrom

\* SetRunner() and Start() of the handler at index j, behind which nothing is
\* started.
LEMMA EnterStartStep ==
    ASSUME IInv, NEW j \in DOMAIN list, EnterStart(list[j]), UNCHANGED <<runner, exitCode, first, last>>,
           ~running, pc # "done",
           job' \in [Handlers -> {None, "started", "failed", "stopped"}],
           \A h \in fresh : job'[h] = None, QuietFrom(j)'
    PROVE  IInv'
<1>1. /\ pc' = "starting" /\ cur' = list[j] /\ it' = list[j] /\ bound' = bound \cup {list[j]}
      /\ UNCHANGED <<result, list, fresh, running, loop>> /\ WorkStarts(list[j])
  BY DEF EnterStart, Enter, Bind
<1>2. list[j] \in Handlers /\ list[j] \notin fresh BY Sequence DEF IInv, ListInv
<1>3. /\ work' \in [Handlers -> {None, "running", "done"}]
      /\ \A g \in Handlers \ {list[j]} : work'[g] = work[g]
  BY <1>1, <1>2 DEF WorkStarts, IInv, TypeOK
<1>4. TypeOK' BY <1>1, <1>2, <1>3 DEF IInv, TypeOK, Pcs, Callback
<1>5. ListInv' BY <1>1, <1>2, <1>3 DEF IInv, TypeOK, ListInv
<1>6. WalkInv'
  <2>1. \A i \in DOMAIN list' : list'[i] = cur' => QuietFrom(i)'
    BY <1>1, Zenon DEF IInv, ListInv
  <2>2. j \in DOMAIN list' /\ list'[j] = cur' BY <1>1
  <2> QED BY <1>1, <2>1, <2>2 DEF WalkInv
<1>7. ExitInv' /\ ResultInv' BY <1>1 DEF IInv, ExitInv, ResultInv, Outcome
<1>8. CompletionHasRunner'
  <2>1. Listed' = Listed /\ Listed \subseteq Handlers BY <1>1, Sequence DEF IInv, Listed
  <2> QED BY <1>1, <1>3, <2>1 DEF IInv, CompletionHasRunner
<1> QED BY <1>4, <1>5, <1>6, <1>7, <1>8 DEF IInv

\* CompositeHandler::Start() returns true.
LEMMA StartedStep ==
    ASSUME IInv, Started, UNCHANGED <<runner, exitCode, first, last>>, pc # "done",
           job' \in [Handlers -> {None, "started", "failed", "stopped"}],
           \A h \in fresh : job'[h] = None
    PROVE  IInv'
<1>1. /\ running' = TRUE /\ loop' = TRUE /\ pc' = "frame" /\ cur' = None /\ it' = End
      /\ result' = None /\ UNCHANGED <<list, fresh, bound, work>>
  BY DEF Started, Leave
<1>2. TypeOK' BY <1>1 DEF IInv, TypeOK, Pcs
<1>3. ListInv' BY <1>1, Zenon DEF IInv, ListInv
<1>4. WalkInv' BY <1>1 DEF WalkInv, Callback
<1>5. ExitInv' /\ ResultInv' BY <1>1 DEF IInv, ExitInv, ResultInv, Outcome
<1>6. CompletionHasRunner' BY <1>1 DEF IInv, CompletionHasRunner, Listed
<1> QED BY <1>2, <1>3, <1>4, <1>5, <1>6 DEF IInv

LEMMA RunStepStep == ASSUME IInv, Run PROVE IInv'
<1>1. pc = "init" /\ ~running /\ QuietFrom(1) BY DEF Run, IInv, WalkInv
<1>2. UNCHANGED <<runner, job, exitCode, first, last>> BY DEF Run
<1>3. /\ job' \in [Handlers -> {None, "started", "failed", "stopped"}]
      /\ \A h \in fresh : job'[h] = None
  BY <1>2 DEF IInv, TypeOK, ListInv
<1>4. CASE Front = End
  <2>1. Started BY <1>4 DEF Run
  <2> QED BY <1>1, <1>2, <1>3, <2>1, StartedStep
<1>5. CASE Front # End
  <2>1. Len(list) # 0 BY <1>5, EndNeighbours DEF IInv
  <2>2. 1 \in DOMAIN list /\ Front = list[1] BY <2>1, EndNeighbours DEF IInv
  <2>3. EnterStart(list[1]) BY <1>5, <2>2 DEF Run
  <2>4. QuietFrom(1)' BY <1>1, <1>2, <2>3 DEF QuietFrom, EnterStart
  <2> QED BY <1>1, <1>2, <1>3, <2>2, <2>3, <2>4, EnterStartStep
<1> QED BY <1>4, <1>5

LEMMA StartReturnsStep == ASSUME IInv, StartReturns PROVE IInv'
<1>1. pc = "starting" /\ it = cur /\ ~running /\ cur \in Handlers /\ cur \notin fresh
  BY CurListed DEF StartReturns, IInv, WalkInv, Callback
<1>2. PICK j \in DOMAIN list : list[j] = cur BY <1>1, CurListed DEF IInv, Callback
<1>3. UNCHANGED <<runner, exitCode, first, last>> /\ job' = [job EXCEPT ![cur] = "started"]
  BY DEF StartReturns
<1>4. /\ job' \in [Handlers -> {None, "started", "failed", "stopped"}]
      /\ \A h \in fresh : job'[h] = None
      /\ \A g \in Handlers \ {list[j]} : job'[g] = job[g]
  BY <1>1, <1>2, <1>3 DEF IInv, TypeOK, ListInv
<1>5. CASE Succ(it) = End
  <2>1. Started BY <1>5 DEF StartReturns
  <2> QED BY <1>1, <1>3, <1>4, <2>1, StartedStep
<1>6. CASE Succ(it) # End
  <2>1. Succ(list[j]) = list[j + 1] /\ j + 1 \in DOMAIN list
    BY <1>1, <1>2, <1>6, Neighbours DEF IInv
  <2>2. EnterStart(list[j + 1]) BY <1>1, <1>2, <1>6, <2>1 DEF StartReturns
  <2>3. QuietFrom(j + 1) BY <1>1, <1>2, Sequence DEF IInv, WalkInv, QuietFrom
  <2>4. UNCHANGED list BY <2>2 DEF EnterStart
  <2>5. QuietFrom(j + 1)' BY <1>4, <2>3, <2>4, QuietGrows DEF IInv
  <2> QED BY <1>1, <1>3, <1>4, <2>1, <2>2, <2>5, EnterStartStep
<1> QED BY <1>5, <1>6

\* CompositeHandler::Start() failed: from the handler at index j back to the first.
LEMMA UnwindStep ==
    ASSUME IInv, NEW j \in DOMAIN list, list[j] = cur, it = cur, pc # "done", ~running,
           NEW new, Walks(cur, new), new[cur] # "started", UNCHANGED running, QuietFrom(j + 1), Unwind
    PROVE  IInv'
<1>1. cur \in Handlers /\ cur \notin fresh BY Sequence DEF IInv, ListInv
<1>2. ListInv' /\ ExitInv' /\ CompletionHasRunner' BY <1>1, WalkFrame DEF IInv
<1>3. QuietFrom(j)' /\ list' = list BY QuietGrows DEF IInv, Walks
<1>4. list[j] = Front <=> j = 1 BY Neighbours DEF IInv
<1>5. CASE j = 1
  <2>1. pc' = "done" /\ cur' = None /\ it' = End /\ result' = NotStarted
    BY <1>4, <1>5 DEF Unwind, Leave
  <2>2. TypeOK' BY <1>2, <2>1 DEF IInv, TypeOK, Walks, Fades, ExitInv, Pcs, Outcome
  <2>3. WalkInv' BY <1>3, <1>5, <2>1 DEF WalkInv, Callback, Walks
  <2>4. ResultInv' BY <2>1 DEF ResultInv
  <2> QED BY <1>2, <2>2, <2>3, <2>4 DEF IInv
<1>6. CASE j # 1
  <2>1. j > 1 /\ j - 1 \in DOMAIN list /\ Prev(list[j]) = list[j - 1] /\ (j - 1) + 1 = j
    <3>1. j \in Nat /\ j >= 1 BY Sequence DEF IInv
    <3> QED BY <1>6, <3>1, Neighbours DEF IInv
  <2>2. pc' = "unwinding" /\ cur' = list[j - 1] /\ it' = list[j - 1] /\ result' = result
    BY <1>4, <1>6, <2>1 DEF Unwind, Enter
  <2>3. list[j - 1] \in Handlers BY <2>1, Sequence DEF IInv
  <2>4. TypeOK' BY <1>2, <2>2, <2>3 DEF IInv, TypeOK, Walks, Fades, ExitInv, Pcs, Callback, Outcome
  <2>5. \A i \in DOMAIN list' : list'[i] = cur' => QuietFrom(i + 1)'
    <3>1. \A i \in DOMAIN list : list[i] = list[j - 1] => i = j - 1 BY <2>1 DEF IInv, ListInv
    <3> QED BY <1>3, <2>1, <2>2, <3>1
  <2>6. j - 1 \in DOMAIN list' /\ list'[j - 1] = cur' BY <1>3, <2>1, <2>2
  <2>7. WalkInv' BY <2>2, <2>5, <2>6 DEF WalkInv
  <2>8. ResultInv' BY <2>2 DEF IInv, ResultInv
  <2> QED BY <1>2, <2>4, <2>7, <2>8 DEF IInv
<1> QED BY <1>5, <1>6

LEMMA FailsStep == ASSUME IInv, StartFails \/ UnwindReturns PROVE IInv'
<1>1. /\ pc \in {"starting", "unwinding"} /\ it = cur /\ ~running
      /\ cur \in Handlers /\ cur \notin fresh
  BY CurListed DEF StartFails, UnwindReturns, IInv, WalkInv, Callback
<1>2. PICK j \in DOMAIN list : list[j] = cur BY <1>1, CurListed DEF IInv, Callback
<1>3. QuietFrom(j + 1) BY <1>1, <1>2, Sequence DEF IInv, WalkInv, QuietFrom
<1>4. Fades(cur)
  <2>1. UNCHANGED work \/ WorkStops(cur) BY DEF StartFails, UnwindReturns
  <2> QED BY <1>1, <2>1, WorkFades DEF IInv
<1>5. PICK v \in {"failed", "stopped"} : job' = [job EXCEPT ![cur] = v]
  BY DEF StartFails, UnwindReturns
<1>6. /\ job' \in [Handlers -> {None, "started", "failed", "stopped"}] /\ job'[cur] # "started"
      /\ \A g \in Handlers \ {cur} : job'[g] = job[g]
  BY <1>1, <1>5 DEF IInv, TypeOK
<1>7. UNCHANGED <<runner, list, fresh, running, bound, exit>> /\ Unwind
  BY DEF StartFails, UnwindReturns, lists
<1>8. Walks(cur, job') BY <1>4, <1>6, <1>7 DEF Walks
<1> QED BY <1>1, <1>2, <1>3, <1>6, <1>7, <1>8, UnwindStep

\* The reverse walk of Stop() with its iterator at index k, from which nothing is
\* started.
LEMMA StopBeforeStep ==
    ASSUME IInv, NEW k \in 1 .. (Len(list) + 1), NEW h,
           NEW i, i = (IF k = Len(list) + 1 THEN End ELSE list[k]),
           NEW new, Walks(h, new), ListInv', ExitInv', CompletionHasRunner',
           running' = FALSE, pc # "done", QuietFrom(k)', StopBefore(i)
    PROVE  IInv'
<1>1. list' = list /\ Len(list) \in Nat /\ DOMAIN list = 1 .. Len(list) /\ UNCHANGED exit
  BY Sequence DEF IInv, Walks
<1>2. i = Front <=> k = 1
  <2>1. CASE k = Len(list) + 1 BY <1>1, <2>1, EndNeighbours, Positions DEF IInv
  <2>2. CASE k # Len(list) + 1
    <3>1. k \in DOMAIN list /\ i = list[k] BY <1>1, <2>2
    <3> QED BY <3>1, Neighbours DEF IInv
  <2> QED BY <2>1, <2>2
<1>3. CASE k = 1
  <2>1. /\ pc' = "done" /\ cur' = None /\ it' = End
        /\ result' = IF Exiting THEN exitCode ELSE Success
    BY <1>2, <1>3 DEF StopBefore, ExitWith, Leave
  <2>2. result' \in Codes \cup {None, Success, NotStarted, Cancelled} BY <2>1 DEF IInv, TypeOK
  <2>3. TypeOK' BY <2>1, <2>2, Zenon DEF IInv, TypeOK, Walks, Fades, ExitInv, Pcs, Outcome
  <2>4. WalkInv' BY <1>3, <2>1, ZenonT(30) DEF WalkInv, Callback
  <2>5. ResultInv' BY <1>1, <2>1 DEF ResultInv, Exiting, exit
  <2> QED BY <2>3, <2>4, <2>5 DEF IInv
<1>4. CASE k # 1
  <2>1. k - 1 \in DOMAIN list /\ (k - 1) + 1 = k /\ k - 1 < k BY <1>1, <1>4
  <2>2. Prev(i) = list[k - 1]
    <3>1. CASE k = Len(list) + 1
      <4>1. k - 1 = Len(list) /\ Len(list) # 0 /\ i = End BY <1>1, <1>4, <3>1
      <4> QED BY <4>1, EndNeighbours DEF IInv
    <3>2. CASE k # Len(list) + 1
      <4>1. k \in DOMAIN list /\ i = list[k] /\ k > 1 BY <1>1, <1>4, <3>2
      <4> QED BY <4>1, Neighbours DEF IInv
    <3> QED BY <3>1, <3>2
  <2>3. pc' = "stopping" /\ cur' = list[k - 1] /\ it' = i /\ result' = result
    BY <1>2, <1>4, <2>2 DEF StopBefore, BeforeOf, Enter
  <2>4. list[k - 1] \in Handlers /\ i \in Handlers \cup {End} BY <1>1, <2>1, Sequence DEF IInv
  <2>5. TypeOK' BY <2>3, <2>4, ZenonT(30) DEF IInv, TypeOK, Walks, Fades, ExitInv, Pcs, Callback, Outcome
  <2>6. \A n \in DOMAIN list' : list'[n] = cur' => QuietFrom(n + 1)'
    <3>1. \A n \in DOMAIN list : list[n] = list[k - 1] => n = k - 1 BY <2>1, Zenon DEF IInv, ListInv
    <3> QED BY <1>1, <2>1, <2>3, <3>1
  <2>7. k - 1 \in DOMAIN list' /\ list'[k - 1] = cur' BY <1>1, <2>1, <2>3
  <2>8. it' # End => k \in DOMAIN list' /\ list'[k] = it' BY <1>1, <2>3
  <2>9. WalkInv' BY <2>1, <2>3, <2>6, <2>7, <2>8 DEF WalkInv
  <2>10. ResultInv' BY <2>3 DEF IInv, ResultInv
  <2> QED BY <2>5, <2>9, <2>10 DEF IInv
<1> QED BY <1>3, <1>4

LEMMA InvokeStopStep == ASSUME IInv, InvokeStop PROVE IInv'
<1>1. /\ pc = "frame" /\ running' = FALSE /\ StopBefore(End)
      /\ UNCHANGED <<runner, list, fresh, bound, job, work, exit>>
  BY DEF InvokeStop
<1>2. Walks(None, job) BY <1>1 DEF IInv, TypeOK, Walks, Fades
<1>3. ListInv' BY <1>1 DEF IInv, ListInv
<1>4. ExitInv' BY <1>1 DEF IInv, ExitInv, exit, Outcome
<1>5. CompletionHasRunner' BY <1>1 DEF IInv, CompletionHasRunner, Listed
<1>6. Len(list) \in Nat /\ DOMAIN list = 1 .. Len(list) BY Sequence DEF IInv
<1>7. Len(list) + 1 \in 1 .. (Len(list) + 1) /\ QuietFrom(Len(list) + 1)'
  BY <1>1, <1>6 DEF QuietFrom
<1> QED BY <1>1, <1>2, <1>3, <1>4, <1>5, <1>7, StopBeforeStep, ZenonT(30)

LEMMA StopReturnsStep == ASSUME IInv, StopReturns PROVE IInv'
<1>1. pc = "stopping" /\ running = FALSE /\ cur \in Handlers /\ cur \notin fresh
  BY CurListed DEF StopReturns, IInv, TypeOK, WalkInv, Callback
<1>2. /\ job' = [job EXCEPT ![cur] = "stopped"] /\ WorkStops(cur) /\ StopBefore(Prev(it))
      /\ UNCHANGED <<runner, list, fresh, running, bound, exit>>
  BY DEF StopReturns, lists
<1>3. PICK j \in DOMAIN list : list[j] = cur BY <1>1, CurListed DEF IInv, Callback
<1>4. Len(list) \in Nat /\ DOMAIN list = 1 .. Len(list) BY Sequence DEF IInv
<1>5. /\ job' \in [Handlers -> {None, "started", "failed", "stopped"}] /\ job'[cur] # "started"
      /\ \A g \in Handlers \ {cur} : job'[g] = job[g]
  BY <1>1, <1>2 DEF IInv, TypeOK
<1>6. QuietFrom(j)'
  <2>1. QuietFrom(j + 1) BY <1>1, <1>3 DEF IInv, WalkInv
  <2> QED BY <1>2, <1>3, <1>5, <2>1, QuietGrows DEF IInv
<1>7. PICK k \in DOMAIN list : k >= j /\ Prev(it) = list[k]
  <2>1. CASE it = End BY <1>3, <1>4, <2>1, EndNeighbours DEF IInv
  <2>2. CASE it # End
    <3>1. PICK a, b \in DOMAIN list : list[a] = cur /\ list[b] = it /\ a < b
      BY <1>1, <2>2 DEF IInv, WalkInv
    <3>2. a = j BY <1>3, <3>1 DEF IInv, ListInv
    <3>3. b > 1 /\ b - 1 >= j BY <1>4, <3>1, <3>2
    <3>4. b - 1 \in DOMAIN list /\ Prev(it) = list[b - 1] BY <3>1, <3>3, Neighbours DEF IInv
    <3> QED BY <3>3, <3>4
  <2> QED BY <2>1, <2>2
<1>8. QuietFrom(k)' BY <1>2, <1>4, <1>6, <1>7 DEF QuietFrom
<1>9. Walks(cur, job')
  <2>1. Fades(cur) BY <1>1, <1>2, WorkFades DEF IInv
  <2> QED BY <1>2, <1>5, <2>1 DEF Walks
<1>10. ListInv' /\ ExitInv' /\ CompletionHasRunner' BY <1>1, <1>9, WalkFrame DEF IInv
<1>11. k \in 1 .. (Len(list) + 1) /\ Prev(it) = IF k = Len(list) + 1 THEN End ELSE list[k]
  BY <1>4, <1>7
<1>12. running' = FALSE /\ pc # "done" BY <1>1, <1>2
<1> HIDE DEF IInv
<1> QED BY <1>2, <1>8, <1>9, <1>10, <1>11, <1>12, StopBeforeStep, ZenonT(30)

\* The forward walk of Update() changes nothing but its iterator.
LEMMA UpdateStep == ASSUME IInv, Frame \/ UpdateReturns PROVE IInv'
<1>1. /\ pc \in {"frame", "updating"}
      /\ UNCHANGED <<runner, list, fresh, running, bound, job, work, loop, exitCode, first, last>>
  BY DEF Frame, UpdateReturns, lists, exit
<1>2. ListInv' /\ ExitInv' /\ CompletionHasRunner'
  BY <1>1 DEF IInv, ListInv, ExitInv, CompletionHasRunner, Listed, Outcome
<1>3. CASE \E j \in DOMAIN list : Enter("updating", list[j], list[j])
  <2>1. PICK j \in DOMAIN list : Enter("updating", list[j], list[j]) BY <1>3
  <2>2. pc' = "updating" /\ cur' = list[j] /\ it' = list[j] /\ result' = result BY <2>1 DEF Enter
  <2>3. list[j] \in Handlers BY Sequence DEF IInv
  <2>4. TypeOK' BY <1>1, <2>2, <2>3 DEF IInv, TypeOK, Pcs, Callback
  <2>5. WalkInv' BY <1>1, <2>2 DEF WalkInv
  <2>6. ResultInv' BY <1>1, <2>2 DEF IInv, ResultInv
  <2> QED BY <1>2, <2>4, <2>5, <2>6 DEF IInv
<1>4. CASE Leave("frame", None)
  <2>1. pc' = "frame" /\ cur' = None /\ it' = End /\ result' = None BY <1>4 DEF Leave
  <2>2. TypeOK' BY <1>1, <2>1 DEF IInv, TypeOK, Pcs
  <2>3. WalkInv' BY <1>1, <2>1 DEF WalkInv, Callback
  <2>4. ResultInv' BY <2>1 DEF ResultInv
  <2> QED BY <1>2, <2>2, <2>3, <2>4 DEF IInv
<1>5. CASE Frame
  <2>1. Front # End /\ Enter("updating", Front, Front) BY <1>5 DEF Frame
  <2>2. 1 \in DOMAIN list /\ Front = list[1] BY <2>1, EndNeighbours DEF IInv
  <2> QED BY <1>3, <2>1, <2>2
<1>6. CASE UpdateReturns
  <2>1. pc = "updating" /\ it = cur BY <1>6 DEF UpdateReturns, IInv, WalkInv
  <2>2. PICK j \in DOMAIN list : list[j] = it BY <2>1, CurListed DEF IInv, Callback
  <2>3. CASE Succ(it) = End BY <1>4, <1>6, <2>3 DEF UpdateReturns
  <2>4. CASE Succ(it) # End
    <3>1. j + 1 \in DOMAIN list /\ Succ(it) = list[j + 1] BY <2>2, <2>4, Neighbours DEF IInv
    <3>2. Enter("updating", list[j + 1], list[j + 1]) BY <1>6, <2>4, <3>1 DEF UpdateReturns
    <3> QED BY <1>3, <3>1, <3>2
  <2> QED BY <2>3, <2>4
<1> QED BY <1>5, <1>6

-----------------------------------------------------------------------------
LEMMA InductiveStep == IInv /\ [Next]_vars => IInv'
<1> SUFFICES ASSUME IInv, [Next]_vars PROVE IInv'
  OBVIOUS
<1>1. CASE UNCHANGED vars
  <2>1. UNCHANGED <<runner, list, fresh, running, bound, job, work, pc, cur, it, result, loop, exitCode, first, last>>
    BY <1>1 DEF vars, lists, walk, exit
  <2>2. TypeOK' BY <2>1 DEF IInv, TypeOK
  <2>3. ListInv' /\ WalkInv' BY <2>1 DEF IInv, ListInv, WalkInv, QuietFrom
  <2>4. ExitInv' /\ ResultInv' BY <2>1 DEF IInv, ExitInv, ResultInv, Exiting, Outcome
  <2>5. CompletionHasRunner' BY <2>1 DEF IInv, CompletionHasRunner, Listed
  <2> QED BY <2>2, <2>3, <2>4, <2>5 DEF IInv
<1>2. CASE RunStep
  BY <1>2, RunStepStep, StartReturnsStep, FailsStep, UpdateStep, InvokeStopStep, StopReturnsStep
     DEF RunStep
<1> HIDE DEF IInv
<1> QED BY <1>1, <1>2, FailsStep, CompleteStep, AddStep, RemoveStep DEF Next

LEMMA Initially == Init => IInv
<1> SUFFICES ASSUME Init PROVE IInv OBVIOUS
<1>1. list = <<>> /\ DOMAIN list = {} /\ list \in Seq(Handlers) BY DEF Init
<1>2. TypeOK BY <1>1, Zenon DEF Init, TypeOK, Pcs
<1>3. ListInv BY <1>1 DEF Init, ListInv
<1>4. WalkInv BY <1>1 DEF Init, WalkInv, QuietFrom, Callback
<1>5. ExitInv /\ ResultInv BY Zenon DEF Init, ExitInv, ResultInv, Outcome
<1>6. CompletionHasRunner BY <1>1 DEF CompletionHasRunner, Listed
<1> QED BY <1>2, <1>3, <1>4, <1>5, <1>6 DEF IInv

\* The invariant holds in every state.
THEOREM Invariance == Spec => []IInv
BY Initially, InductiveStep, PTL DEF Spec

\* The variables keep their types.
THEOREM Typing == Spec => []TypeOK
<1>1. IInv => TypeOK BY DEF IInv
<1> QED BY <1>1, Invariance, PTL

\* Run() returns with no handler of the list started, after any additions and
\* removals in the walks of Start(), Update() and Stop().
THEOREM NobodyLeftStarted == Spec => []EverybodyStopped
<1>1. IInv => EverybodyStopped
  <2> SUFFICES ASSUME IInv, pc = "done", NEW i \in DOMAIN list PROVE job[list[i]] # "started"
    BY DEF EverybodyStopped, Listed
  <2>1. i >= 1 BY Sequence DEF IInv
  <2> QED BY <2>1 DEF IInv, WalkInv, QuietFrom
<1> QED BY <1>1, Invariance, PTL

\* The walks of Stop() and of a failed Start() stop a handler when those behind it
\* are not running.
THEOREM ReverseOrder == Spec => []StoppedInReverse
<1>1. IInv => StoppedInReverse
  <2> SUFFICES ASSUME IInv, pc \in {"unwinding", "stopping"}, NEW i \in DOMAIN list,
                      Position(list[i]) > Position(cur)
               PROVE job[list[i]] # "started"
    BY DEF StoppedInReverse, Listed
  <2>1. PICK j \in DOMAIN list : list[j] = cur BY DEF IInv, WalkInv, Callback
  <2>2. Position(list[i]) = i /\ Position(cur) = j BY <2>1, Positions DEF IInv
  <2>3. i >= j + 1 BY <2>2, Sequence DEF IInv
  <2> QED BY <2>1, <2>3 DEF IInv, WalkInv, QuietFrom
<1> QED BY <1>1, Invariance, PTL

\* Domain::Completed() and AsioDomain::Completed() find the runner they call.
THEOREM RunnerIsSet == Spec => []CompletionHasRunner
<1>1. IInv => CompletionHasRunner BY DEF IInv
<1> QED BY <1>1, Invariance, PTL

\* The pending code, and what Run() returns, is the last code of a sender or of the
\* application; without one it is the first outcome, so Cancelled stays only when
\* it came before any coroutine's code.
THEOREM ExitCodeKept == Spec => []CodeReported
<1>1. IInv => CodeReported BY DEF IInv, ExitInv, ResultInv, CodeReported, Exiting, Outcome
<1> QED BY <1>1, Invariance, PTL
=============================================================================
