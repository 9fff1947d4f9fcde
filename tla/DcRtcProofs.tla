---------------------------- MODULE DcRtcProofs ----------------------------
(* Proofs about DcRtc, for any peers, candidates, links, threads and bounds. *)
EXTENDS DcRtc, FiniteSetTheorems, TLAPS

LinkType ==
    [role : {"none", "in", "out"}, peer : Peers \cup {None},
     phase : {"made", "opening", "given", "ready"}, pc : {"new", "connected"} \cup Terminal,
     closing : BOOLEAN, remote : BOOLEAN, remoteDescSet : BOOLEAN,
     pending : SUBSET Cands, applied : SUBSET Cands, accepted : SUBSET Cands,
     disconnectRequested : BOOLEAN, closedFired : BOOLEAN, told : Nat, held : BOOLEAN]

WithLink == {"describe", "answer", "flag", "candidate", "apply"}
CallType ==
    [at : {"idle", "offer"} \cup WithLink, from : Peers \cup {None},
     link : Links \cup {None}, cands : SUBSET Cands]

TypeOK ==
    /\ remoteId \in Remotes /\ maxInbound \in Nat /\ owner \in BOOLEAN
    /\ joined \in {"no", "joined", "failed"}
    /\ peers \in [Peers -> Links \cup {None}] /\ inboundCount \in Nat
    /\ link \in [Links -> LinkType] /\ thr \in [Threads -> CallType]
    /\ reported \in BOOLEAN /\ events \in Nat /\ unsent \in SUBSET (Peers \X Cands)
    /\ counted \in SUBSET Links /\ again \in BOOLEAN /\ overlapped \in BOOLEAN

\* Nothing is made before the join, and an unused link is blank; an entry is of a
\* link of its peer; a call works on a link in use, whose description is set
\* before the buffer is taken.
LifeInv ==
    /\ joined = "no" => \A l \in Links : link[l].role = "none"
    /\ \A l \in Links : link[l].role = "none" => link[l] = NoLink
    /\ \A p \in Peers : peers[p] # None => link[peers[p]].role # "none" /\ link[peers[p]].peer = p
CallInv ==
    \A t \in Threads :
        /\ thr[t].at # "idle" => thr[t].from \in Peers /\ joined = "joined"
        /\ thr[t].at \in WithLink => thr[t].link \in Links /\ link[thr[t].link].role # "none"
        /\ thr[t].at \in {"flag", "apply"} => link[thr[t].link].remote

\* The handler is told while _closedFired is set, once; the flag follows the
\* description.
Sound(rec) ==
    /\ rec.told <= 1 /\ (rec.told = 1 => rec.phase = "ready" /\ rec.closedFired)
    /\ rec.remoteDescSet => rec.remote
SoundInv == \A l \in Links : Sound(link[l])

\* Candidate c of link l: on its way in call t (AddRemoteCandidate is next), or in
\* the hand of call t (outside of the lock, about to be applied).
Arriving(t, l, c) == thr[t].at = "candidate" /\ thr[t].link = l /\ c \in thr[t].cands
InHand(t, l, c) == thr[t].at = "apply" /\ thr[t].link = l /\ c \in thr[t].cands

CandInv(l, c, t, u) ==
    /\ c \in link[l].accepted <=>
         c \in link[l].pending \/ c \in link[l].applied \/ \E v \in Threads : InHand(v, l, c)
    /\ c \in link[l].pending => c \notin link[l].applied /\ ~InHand(t, l, c) /\ ~link[l].remoteDescSet
    /\ c \in link[l].applied => ~InHand(t, l, c) /\ link[l].remote
    /\ InHand(t, l, c) /\ InHand(u, l, c) => t = u
    /\ Arriving(t, l, c) => c \notin link[l].accepted
    /\ Arriving(t, l, c) /\ Arriving(u, l, c) => t = u
    /\ <<link[l].peer, c>> \in unsent => c \notin link[l].accepted /\ ~Arriving(t, l, c)
CandsInv == \A l \in Links, c \in Cands, t, u \in Threads : CandInv(l, c, t, u)

\* Calls that passed the test of the limit and are not counted yet.
Passed == {t \in Threads : thr[t].at = "offer"}
LimitInv == inboundCount + Cardinality(Passed) < maxInbound + Cardinality(Threads)

IInv == TypeOK /\ LifeInv /\ CallInv /\ SoundInv /\ CandsInv /\ LimitInv

-----------------------------------------------------------------------------
(* Steps of one link: libdatachannel and the application. *)

\* What stays of a link.
Same(l, rec) ==
    /\ rec \in LinkType /\ Sound(rec)
    /\ rec.role = link[l].role /\ rec.peer = link[l].peer /\ rec.remote = link[l].remote
    /\ rec.remoteDescSet = link[l].remoteDescSet /\ rec.pending = link[l].pending
    /\ rec.applied = link[l].applied /\ rec.accepted = link[l].accepted

Frame(l) == \E rec : Changes(l, rec) /\ Same(l, rec) /\ link[l].role # "none"

\* ... and of the transport: entries may go and the count may fall.
Around ==
    /\ UNCHANGED <<configVars, thr>>
    /\ peers' \in [Peers -> Links \cup {None}]
    /\ \A p \in Peers : peers'[p] # None => peers'[p] = peers[p]
    /\ inboundCount' \in Nat /\ inboundCount' <= inboundCount
    /\ counted' \in SUBSET Links /\ again' \in BOOLEAN /\ overlapped' \in BOOLEAN
    /\ events' \in Nat /\ reported' \in BOOLEAN

LEMMA EventNat == ASSUME TypeOK, Event PROVE events' \in Nat
BY DEF TypeOK, Event

LEMMA FireOnceSame ==
    ASSUME TypeOK, SoundInv, NEW l \in Links, NEW st \in Terminal
    PROVE Same(l, FireOnce(l, st)) /\ Same(l, [link[l] EXCEPT !.pc = st])
<1>1. link[l] \in LinkType /\ Sound(link[l]) BY DEF TypeOK, SoundInv
<1>2. Same(l, [link[l] EXCEPT !.pc = st]) BY <1>1 DEF Same, Sound, LinkType
<1>3. CASE link[l].closedFired BY <1>2, <1>3 DEF FireOnce
<1>4. CASE ~link[l].closedFired
  <2> DEFINE told == IF link[l].phase = "ready" THEN link[l].told + 1 ELSE link[l].told
  <2>1. FireOnce(l, st) = [link[l] EXCEPT !.pc = st, !.closedFired = TRUE, !.told = told]
    BY <1>4 DEF FireOnce
  <2>2. link[l].told = 0 BY <1>1, <1>4 DEF Sound, LinkType
  <2>3. told \in Nat /\ told <= 1 /\ (told = 1 => link[l].phase = "ready") BY <2>2
  <2> HIDE DEF told
  <2> DEFINE rec == [link[l] EXCEPT !.pc = st, !.closedFired = TRUE, !.told = told]
  <2>4. /\ rec \in LinkType /\ rec.told = told /\ rec.closedFired /\ rec.phase = link[l].phase
        /\ rec.role = link[l].role /\ rec.peer = link[l].peer /\ rec.remote = link[l].remote
        /\ rec.remoteDescSet = link[l].remoteDescSet /\ rec.pending = link[l].pending
        /\ rec.applied = link[l].applied /\ rec.accepted = link[l].accepted
    BY <1>1, <2>3, ZenonT(30) DEF LinkType
  <2> HIDE DEF rec
  <2>5. Same(l, rec) BY <1>1, <2>3, <2>4 DEF Same, Sound
  <2>6. FireOnce(l, st) = rec BY <2>1 DEF rec
  <2> QED BY <1>2, <2>5, <2>6
<1> QED BY <1>2, <1>3, <1>4

LEMMA StateChangeFrame ==
    ASSUME TypeOK, SoundInv, NEW l \in Links, NEW st \in Terminal, StateChange(l, st), events' \in Nat
    PROVE Frame(l) /\ Around
<1>1. link[l].role # "none" /\ UNCHANGED <<configVars, thr>> BY DEF StateChange
<1>2. CASE Attached(l)
  <2> DEFINE rec == IF HeldElsewhere(l) THEN FireOnce(l, st) ELSE [link[l] EXCEPT !.pc = st]
  <2>1. Gone(l) /\ Changes(l, rec) /\ reported' = (reported \/ (st = "failed" /\ link[l].role = "out"))
    BY <1>2 DEF StateChange
  <2>2. Same(l, rec) BY FireOnceSame
  <2>3. Frame(l) BY <1>1, <2>1, <2>2 DEF Frame
  <2>4. reported' \in BOOLEAN BY <2>1
  <2>5. /\ peers' \in [Peers -> Links \cup {None}]
        /\ \A p \in Peers : peers'[p] # None => peers'[p] = peers[p]
    BY <2>1 DEF Gone, TypeOK
  <2>6. inboundCount' \in Nat /\ inboundCount' <= inboundCount BY <2>1 DEF Gone, TypeOK, countVars
  <2>7. counted' \in SUBSET Links /\ again' \in BOOLEAN /\ overlapped' \in BOOLEAN
    BY <2>1, Zenon DEF Gone, TypeOK, countVars
  <2> QED BY <1>1, <2>3, <2>4, <2>5, <2>6, <2>7 DEF Around
<1>3. CASE ~Attached(l)
  <2>1. /\ Changes(l, [link[l] EXCEPT !.pc = st])
        /\ UNCHANGED <<peers, countVars, reported>>
    BY <1>3 DEF StateChange
  <2>2. Frame(l) BY <1>1, <2>1, FireOnceSame DEF Frame
  <2>3. Around BY <1>1, <2>1 DEF Around, TypeOK, countVars
  <2> QED BY <2>2, <2>3
<1> QED BY <1>2, <1>3

LEMMA LinkFrame ==
    ASSUME TypeOK, LifeInv, SoundInv, NEW l \in Links,
           ChannelOpens(l) \/ Opening(l) \/ Breaks(l) \/ Closes(l) \/ Disconnect(l) \/ Drop(l)
    PROVE Frame(l) /\ Around
<1>1. link[l] \in LinkType /\ Sound(link[l]) BY DEF TypeOK, SoundInv
<1>2. link[l].remote \/ link[l].phase # "made" \/ link[l].held => link[l].role # "none"
  BY DEF LifeInv, NoLink
<1>3. NothingElse => Around BY DEF NothingElse, Around, TypeOK, countVars
<1>4. CASE ChannelOpens(l)
  <2> DEFINE rec == [link[l] EXCEPT !.phase = "opening", !.pc = "connected"]
  <2>1. Changes(l, rec) /\ NothingElse /\ link[l].remote /\ link[l].phase = "made"
    BY <1>4 DEF ChannelOpens
  <2>2. Same(l, rec) BY <1>1, <2>1, Zenon DEF Same, Sound, LinkType
  <2> QED BY <1>2, <1>3, <2>1, <2>2 DEF Frame
<1>5. CASE AttachAndOnLink(l)
  <2> DEFINE rec == [link[l] EXCEPT !.phase = "given", !.held = TRUE]
  <2>1. Changes(l, rec) /\ NothingElse /\ link[l].phase = "opening" BY <1>5 DEF AttachAndOnLink
  <2>2. Same(l, rec) BY <1>1, <2>1, ZenonT(30) DEF Same, Sound, LinkType
  <2> QED BY <1>2, <1>3, <2>1, <2>2 DEF Frame
<1>6. CASE SetHandler(l)
  <2> DEFINE rec == [link[l] EXCEPT !.phase = "ready"]
  <2>1. Changes(l, rec) /\ NothingElse /\ link[l].phase = "given" BY <1>6 DEF SetHandler
  <2>2. Same(l, rec) BY <1>1, <2>1 DEF Same, Sound, LinkType
  <2> QED BY <1>2, <1>3, <2>1, <2>2 DEF Frame
<1>7. CASE Breaks(l)
  <2>1. PICK st \in Terminal : StateChange(l, st) BY <1>7 DEF Breaks
  <2>2. events' \in Nat BY <1>7, EventNat DEF Breaks
  <2> QED BY <2>1, <2>2, StateChangeFrame
<1>8. CASE Closes(l)
  <2>1. StateChange(l, "closed") /\ events' \in Nat BY <1>8 DEF Closes, TypeOK
  <2> QED BY <2>1, StateChangeFrame DEF Terminal
<1>9. CASE Disconnect(l)
  <2> DEFINE rec == [link[l] EXCEPT !.disconnectRequested = TRUE, !.closing = TRUE]
  <2>1. /\ Changes(l, rec) /\ link[l].held /\ Event
        /\ UNCHANGED <<configVars, peers, countVars, thr, reported>>
    BY <1>9 DEF Disconnect
  <2>2. Same(l, rec) BY <1>1, ZenonT(30) DEF Same, Sound, LinkType
  <2>3. Around BY <2>1, EventNat DEF Around, TypeOK, countVars
  <2> QED BY <1>2, <2>1, <2>2, <2>3 DEF Frame
<1>10. CASE Drop(l)
  <2> DEFINE rec == [link[l] EXCEPT !.held = FALSE]
  <2>1. /\ Changes(l, rec) /\ link[l].held /\ Event
        /\ UNCHANGED <<configVars, peers, countVars, thr, reported>>
    BY <1>10 DEF Drop
  <2>2. Same(l, rec) BY <1>1, ZenonT(30) DEF Same, Sound, LinkType
  <2>3. Around BY <2>1, EventNat DEF Around, TypeOK, countVars
  <2> QED BY <1>2, <2>1, <2>2, <2>3 DEF Frame
<1> QED BY <1>4, <1>5, <1>6, <1>7, <1>8, <1>9, <1>10 DEF Opening

\* Such a step keeps the invariant.
LEMMA LinkStep ==
    ASSUME IInv, NEW l \in Links, Frame(l), Around
    PROVE IInv'
<1>1. PICK rec : Changes(l, rec) /\ Same(l, rec) /\ link[l].role # "none" BY DEF Frame
<1>2. link' = [link EXCEPT ![l] = rec] /\ rec \in LinkType /\ Sound(rec) BY <1>1 DEF Changes, Same
<1>3. TypeOK' BY <1>2 DEF IInv, TypeOK, Around, configVars
<1>4. \A k \in Links :
        /\ link'[k].role = link[k].role /\ link'[k].peer = link[k].peer
        /\ link'[k].remote = link[k].remote /\ link'[k].remoteDescSet = link[k].remoteDescSet
        /\ link'[k].pending = link[k].pending /\ link'[k].applied = link[k].applied
        /\ link'[k].accepted = link[k].accepted
        /\ link[k].role = "none" => link'[k] = link[k]
  BY <1>1, <1>2 DEF IInv, TypeOK, Same
<1>5. thr' = thr /\ unsent' = unsent /\ joined' = joined /\ maxInbound' = maxInbound
  BY DEF Around, configVars
<1>6. LifeInv' BY <1>4, <1>5 DEF IInv, TypeOK, LifeInv, Around
<1>7. CallInv' BY <1>4, <1>5 DEF IInv, CallInv, WithLink
<1>8. SoundInv' BY <1>2 DEF IInv, TypeOK, SoundInv
<1>9. CandsInv' BY <1>4, <1>5 DEF IInv, CandsInv, CandInv, Arriving, InHand
<1>10. LimitInv'
  <2>1. Passed' = Passed BY <1>5 DEF Passed
  <2>2. Cardinality(Passed) \in Nat /\ Cardinality(Threads) \in Nat
    BY DcRtcAssumption, FS_CardinalityType, FS_Subset DEF Passed
  <2> QED BY <1>5, <2>1, <2>2 DEF IInv, TypeOK, LimitInv, Around
<1> QED BY <1>3, <1>6, <1>7, <1>8, <1>9, <1>10 DEF IInv

-----------------------------------------------------------------------------
(* Steps of one OnMessage call. *)

LEMMA Sizes ==
    /\ IsFiniteSet(Passed) /\ Cardinality(Passed) \in Nat /\ Cardinality(Threads) \in Nat
    /\ Cardinality(Threads) > 0
<1>1. IsFiniteSet(Threads) /\ Threads # {} /\ Passed \in SUBSET Threads
  BY DcRtcAssumption DEF Passed
<1>2. Cardinality(Threads) \in Nat /\ Cardinality(Threads) # 0
  BY <1>1, FS_CardinalityType, FS_EmptySet
<1>3. IsFiniteSet(Passed) BY <1>1, FS_Subset
<1>4. Cardinality(Passed) \in Nat BY <1>3, FS_CardinalityType
<1> QED BY <1>2, <1>3, <1>4

\* Call t becomes q, and link l becomes rec.
Moves(t, q, l, rec) ==
    /\ thr' = [thr EXCEPT ![t] = q] /\ link' = [link EXCEPT ![l] = rec]
    /\ q \in CallType /\ q.at # "offer"
    /\ q.at # "idle" => q.from \in Peers /\ joined = "joined"
    /\ q.at \in WithLink => q.link = l
    /\ q.at \in {"flag", "apply"} => rec.remote
    /\ rec \in LinkType /\ Sound(rec) /\ rec.role = link[l].role /\ rec.peer = link[l].peer
    /\ link[l].remote => rec.remote
    /\ link[l].role # "none"
    /\ events' \in Nat /\ unsent' \subseteq unsent
    /\ UNCHANGED <<remoteId, maxInbound, owner, joined, peers, countVars, reported>>

LEMMA MovesStep ==
    ASSUME IInv, NEW t \in Threads, NEW q, NEW l \in Links, NEW rec, Moves(t, q, l, rec), CandsInv'
    PROVE IInv'
<1> DEFINE move == /\ thr' = [thr EXCEPT ![t] = q] /\ link' = [link EXCEPT ![l] = rec]
                   /\ q \in CallType /\ rec \in LinkType
<1>1. move BY DEF Moves
<1>2. TypeOK' BY <1>1 DEF IInv, TypeOK, Moves, countVars
<1>3. /\ link'[l] = rec /\ \A k \in Links \ {l} : link'[k] = link[k]
      /\ thr'[t] = q /\ \A u \in Threads \ {t} : thr'[u] = thr[u]
  BY <1>1 DEF IInv, TypeOK
<1> HIDE DEF move
<1>4. LifeInv' BY <1>3 DEF IInv, TypeOK, LifeInv, Moves
<1>5. CallInv'
  <2> SUFFICES ASSUME NEW u \in Threads
               PROVE /\ thr'[u].at # "idle" => thr'[u].from \in Peers /\ joined' = "joined"
                     /\ thr'[u].at \in WithLink => thr'[u].link \in Links /\ link'[thr'[u].link].role # "none"
                     /\ thr'[u].at \in {"flag", "apply"} => link'[thr'[u].link].remote
    BY DEF CallInv
  <2>1. CASE u = t BY <1>3, <2>1 DEF Moves, WithLink
  <2>2. CASE u # t
    <3>1. thr'[u] = thr[u] BY <1>3, <2>2
    <3> QED BY <1>3, <3>1 DEF IInv, CallInv, Moves, WithLink
  <2> QED BY <2>1, <2>2
<1>6. SoundInv' BY <1>3 DEF IInv, SoundInv, Moves
<1>7. LimitInv'
  <2>1. Passed' \in SUBSET Passed BY <1>3 DEF Passed, Moves
  <2>2. Cardinality(Passed') \in Nat /\ Cardinality(Passed') <= Cardinality(Passed)
    BY <2>1, Sizes, FS_Subset, FS_CardinalityType
  <2> QED BY <2>2, Sizes DEF IInv, TypeOK, LimitInv, Moves, countVars
<1> QED BY <1>2, <1>4, <1>5, <1>6, <1>7 DEF IInv

\* A step that neither brings a candidate nor moves one.
QuietCands ==
    /\ \A v \in Threads, k \in Links, c \in Cands :
           (Arriving(v, k, c)' <=> Arriving(v, k, c)) /\ (InHand(v, k, c)' <=> InHand(v, k, c))
    /\ \A k \in Links :
           /\ link'[k].peer = link[k].peer /\ link'[k].remoteDescSet = link[k].remoteDescSet
           /\ link'[k].pending = link[k].pending /\ link'[k].applied = link[k].applied
           /\ link'[k].accepted = link[k].accepted /\ (link[k].remote => link'[k].remote)
    /\ unsent' \subseteq unsent

LEMMA QuietCandsStep == ASSUME CandsInv, QuietCands PROVE CandsInv'
<1> SUFFICES ASSUME NEW l \in Links, NEW c \in Cands, NEW t \in Threads, NEW u \in Threads
             PROVE CandInv(l, c, t, u)'
  BY DEF CandsInv
<1>1. CandInv(l, c, t, u) BY DEF CandsInv
<1> QED BY <1>1, Zenon DEF CandInv, QuietCands

\* OnMessage and HandleOffer begin no candidate.
LEMMA QuietCall ==
    ASSUME TypeOK, NEW t \in Threads, NEW q, thr' = [thr EXCEPT ![t] = q],
           thr[t].at \notin {"candidate", "apply"}, q.at \notin {"candidate", "apply"}
    PROVE \A v \in Threads, k \in Links, c \in Cands :
           (Arriving(v, k, c)' <=> Arriving(v, k, c)) /\ (InHand(v, k, c)' <=> InHand(v, k, c))
<1>1. thr'[t] = q /\ \A u \in Threads \ {t} : thr'[u] = thr[u] BY DEF TypeOK
<1> QED BY <1>1 DEF Arriving, InHand

\* An offer that passes the test of the limit.
LEMMA OnOfferStep ==
    ASSUME IInv, NEW t \in Threads, NEW p \in Peers, OnOffer(t, p)
    PROVE IInv'
<1> DEFINE q == [at |-> "offer", from |-> p, link |-> None, cands |-> {}]
<1>1. /\ thr' = [thr EXCEPT ![t] = q] /\ thr[t].at = "idle" /\ inboundCount < maxInbound /\ Event
      /\ joined = "joined" /\ overlapped' \in BOOLEAN
      /\ UNCHANGED <<configVars, peers, inboundCount, counted, again, link, reported>>
  BY DEF OnOffer, Calls, OnMessageEnabled
<1>2. q \in CallType /\ q.at = "offer" /\ q.from = p BY DEF CallType
<1> HIDE DEF q
<1>3. TypeOK' BY <1>1, <1>2, EventNat DEF IInv, TypeOK, configVars
<1>4. thr'[t] = q /\ \A u \in Threads \ {t} : thr'[u] = thr[u] BY <1>1 DEF IInv, TypeOK
<1>5. LifeInv' /\ SoundInv' BY <1>1, ZenonT(30) DEF IInv, LifeInv, SoundInv, configVars
<1>6. CallInv' BY <1>1, <1>2, <1>4 DEF IInv, CallInv, WithLink, configVars
<1>7. CandsInv'
  <2>1. QuietCands BY <1>1, <1>2, QuietCall, ZenonT(30) DEF IInv, QuietCands, configVars
  <2> QED BY <2>1, QuietCandsStep DEF IInv
<1>8. LimitInv'
  <2>1. Passed' \in SUBSET Threads BY DEF Passed
  <2>2. Cardinality(Passed') \in Nat /\ Cardinality(Passed') <= Cardinality(Threads)
    BY <2>1, DcRtcAssumption, FS_Subset, FS_CardinalityType
  <2> QED BY <1>1, <2>2, Sizes DEF IInv, TypeOK, LimitInv, configVars
<1> QED BY <1>3, <1>5, <1>6, <1>7, <1>8 DEF IInv

\* A new link enters the map.
LEMMA NewLinkUnused ==
    ASSUME LifeInv, Unused # {}
    PROVE NewLink \in Links /\ link[NewLink] = NoLink
<1>1. NewLink \in Unused BY DEF NewLink
<1> QED BY <1>1 DEF Unused, LifeInv

LEMMA MadeFrame ==
    ASSUME IInv, NEW n \in Links, link[n] = NoLink, NEW p \in Peers, NEW role \in {"in", "out"},
           link' = [link EXCEPT ![n] = Made(role, p)], peers' = [peers EXCEPT ![p] = n],
           joined' = "joined"
    PROVE /\ link' \in [Links -> LinkType] /\ peers' \in [Peers -> Links \cup {None}]
          /\ LifeInv' /\ SoundInv'
          /\ link'[n].role = role /\ \A k \in Links \ {n} : link'[k] = link[k]
<1> DEFINE rec == Made(role, p)
<1>1. rec \in LinkType /\ rec.role = role /\ rec.peer = p /\ Sound(rec)
  <2>1. NoLink \in LinkType BY DEF NoLink, LinkType
  <2>2. rec \in LinkType /\ rec.role = role /\ rec.peer = p BY <2>1, ZenonT(30) DEF Made, LinkType
  <2>3. rec.told = 0 /\ ~rec.remoteDescSet BY DEF Made, NoLink
  <2> QED BY <2>2, <2>3 DEF Sound
<1>2. link' = [link EXCEPT ![n] = rec] OBVIOUS
<1> HIDE DEF rec
<1>3. link' \in [Links -> LinkType] /\ peers' \in [Peers -> Links \cup {None}]
  BY <1>1, <1>2 DEF IInv, TypeOK
<1>4. link'[n] = rec /\ \A k \in Links \ {n} : link'[k] = link[k] BY <1>2 DEF IInv, TypeOK
<1>5. link[n].role = "none" BY DEF NoLink
<1>6. LifeInv'
  <2>1. \A l \in Links : link'[l].role = "none" => link'[l] = NoLink
    BY <1>1, <1>4 DEF IInv, LifeInv
  <2>2. ASSUME NEW q \in Peers, peers'[q] # None
        PROVE link'[peers'[q]].role # "none" /\ link'[peers'[q]].peer = q
    <3>1. CASE q = p BY <1>1, <1>4, <3>1 DEF IInv, TypeOK
    <3>2. CASE q # p
      <4>1. peers'[q] = peers[q] /\ peers[q] \in Links BY <2>2, <3>2 DEF IInv, TypeOK
      <4>2. link[peers[q]].role # "none" /\ link[peers[q]].peer = q BY <2>2, <4>1 DEF IInv, LifeInv
      <4> QED BY <1>4, <1>5, <4>1, <4>2
    <3> QED BY <3>1, <3>2
  <2> QED BY <2>1, <2>2 DEF LifeInv
<1>7. SoundInv' BY <1>1, <1>4 DEF IInv, SoundInv
<1> QED BY <1>1, <1>3, <1>4, <1>6, <1>7

\* ... and no candidate of it is anywhere.
LEMMA MadeCands ==
    ASSUME IInv, NEW n \in Links, link[n] = NoLink, NEW p \in Peers, NEW role \in {"in", "out"},
           link' = [link EXCEPT ![n] = Made(role, p)], UNCHANGED unsent,
           \A v \in Threads, k \in Links, c \in Cands :
               (Arriving(v, k, c)' <=> Arriving(v, k, c)) /\ (InHand(v, k, c)' <=> InHand(v, k, c))
    PROVE CandsInv'
<1>1. /\ link'[n] = Made(role, p) /\ \A k \in Links \ {n} : link'[k] = link[k]
  BY ZenonT(30) DEF IInv, TypeOK
<1>2. \A v \in Threads, c \in Cands : ~Arriving(v, n, c) /\ ~InHand(v, n, c)
  BY DEF IInv, CallInv, WithLink, Arriving, InHand, NoLink
<1> SUFFICES ASSUME NEW l \in Links, NEW c \in Cands, NEW t \in Threads, NEW u \in Threads
             PROVE CandInv(l, c, t, u)'
  BY DEF CandsInv
<1>3. CASE l = n
  <2>1. /\ link'[l].accepted = {} /\ link'[l].pending = {} /\ link'[l].applied = {}
        /\ ~link'[l].remoteDescSet
    BY <1>1, <1>3 DEF Made, NoLink
  <2> QED BY <1>2, <1>3, <2>1, Zenon DEF CandInv
<1>4. CASE l # n
  <2>1. CandInv(l, c, t, u) /\ link'[l] = link[l] BY <1>1, <1>4 DEF IInv, CandsInv
  <2> QED BY <2>1 DEF CandInv
<1> QED BY <1>3, <1>4

LEMMA JoinedStep == ASSUME IInv, Joined PROVE IInv'
<1>1. CASE remoteId = None
  <2>1. /\ joined = "no" /\ joined' = "joined"
        /\ UNCHANGED <<remoteId, maxInbound, owner, unsent, peers, countVars, link, thr, reported, events>>
    BY <1>1 DEF Joined
  <2>2. TypeOK' BY <2>1 DEF IInv, TypeOK, countVars
  <2>3. LifeInv' /\ CallInv' /\ SoundInv' BY <2>1, ZenonT(30) DEF IInv, LifeInv, CallInv, SoundInv, WithLink
  <2>4. CandsInv' BY <2>1 DEF IInv, CandsInv, CandInv, Arriving, InHand
  <2>5. LimitInv' BY <2>1 DEF IInv, LimitInv, Passed, countVars
  <2> QED BY <2>2, <2>3, <2>4, <2>5 DEF IInv
<1>2. CASE remoteId # None
  <2> DEFINE n == NewLink
  <2>1. /\ joined = "no" /\ joined' = "joined" /\ remoteId \in Peers
        /\ peers' = [peers EXCEPT ![remoteId] = n] /\ link' = [link EXCEPT ![n] = Made("out", remoteId)]
        /\ UNCHANGED <<remoteId, maxInbound, owner, unsent, countVars, thr, reported, events>>
    BY <1>2, DcRtcAssumption DEF Joined, OpenOfferer, IInv, TypeOK
  <2>2. Unused # {} BY <2>1, DcRtcAssumption, Zenon DEF IInv, LifeInv, Unused
  <2>3. n \in Links /\ link[n] = NoLink BY <2>2, NewLinkUnused DEF IInv
  <2> HIDE DEF n
  <2>4. /\ link' \in [Links -> LinkType] /\ peers' \in [Peers -> Links \cup {None}]
        /\ LifeInv' /\ SoundInv'
        /\ link'[n].role = "out" /\ \A k \in Links \ {n} : link'[k] = link[k]
    BY <2>1, <2>3, MadeFrame, Zenon
  <2>5. TypeOK' BY <2>1, <2>4, Zenon DEF IInv, TypeOK, countVars
  <2>6. CallInv' BY <2>1, <2>3, <2>4, Zenon DEF IInv, CallInv, WithLink, NoLink
  <2>7. CandsInv' BY <2>1, <2>3, MadeCands, ZenonT(30) DEF Arriving, InHand
  <2>8. LimitInv' BY <2>1, Zenon DEF IInv, LimitInv, Passed, countVars
  <2> QED BY <2>4, <2>5, <2>6, <2>7, <2>8 DEF IInv
<1> QED BY <1>1, <1>2

LEMMA HandleOfferStep == ASSUME IInv, NEW t \in Threads, HandleOffer(t) PROVE IInv'
<1> DEFINE n == NewLink
           p == thr[t].from
           q == [at |-> "describe", from |-> p, link |-> n, cands |-> {}]
<1>1. /\ thr[t].at = "offer" /\ Unused # {} /\ inboundCount' = inboundCount + 1
      /\ counted' = counted \cup {n}
      /\ peers' = [peers EXCEPT ![p] = n] /\ link' = [link EXCEPT ![n] = Made("in", p)]
      /\ thr' = [thr EXCEPT ![t] = q] /\ UNCHANGED <<configVars, again, overlapped, reported, events>>
  BY DEF HandleOffer, Calls
<1>2. n \in Links /\ link[n] = NoLink BY <1>1, NewLinkUnused DEF IInv
<1>3. p \in Peers /\ joined = "joined" BY <1>1 DEF IInv, CallInv
<1>4. q \in CallType /\ q.at = "describe" /\ q.link = n /\ q.from = p
  BY <1>2, <1>3 DEF CallType, WithLink
<1> HIDE DEF n, p, q
<1>5. /\ link' \in [Links -> LinkType] /\ peers' \in [Peers -> Links \cup {None}]
      /\ LifeInv' /\ SoundInv'
      /\ link'[n].role = "in" /\ \A k \in Links \ {n} : link'[k] = link[k]
  BY <1>1, <1>2, <1>3, MadeFrame, ZenonT(30) DEF configVars
<1>6. TypeOK' BY <1>1, <1>4, <1>5 DEF IInv, TypeOK, configVars
<1>7. thr'[t] = q /\ \A u \in Threads \ {t} : thr'[u] = thr[u] BY <1>1 DEF IInv, TypeOK
<1>8. CallInv'
  <2> SUFFICES ASSUME NEW u \in Threads
               PROVE /\ thr'[u].at # "idle" => thr'[u].from \in Peers /\ joined' = "joined"
                     /\ thr'[u].at \in WithLink => thr'[u].link \in Links /\ link'[thr'[u].link].role # "none"
                     /\ thr'[u].at \in {"flag", "apply"} => link'[thr'[u].link].remote
    BY DEF CallInv
  <2>1. CASE u = t BY <1>1, <1>2, <1>3, <1>4, <1>5, <1>7, <2>1 DEF configVars
  <2>2. CASE u # t
    <3>1. thr'[u] = thr[u] BY <1>7, <2>2
    <3>2. thr[u].at \in WithLink => thr[u].link \in Links \ {n} BY <1>2 DEF IInv, CallInv, NoLink
    <3> QED BY <1>1, <1>5, <3>1, <3>2 DEF IInv, CallInv, WithLink, configVars
  <2> QED BY <2>1, <2>2
<1>9. CandsInv'
  <2>1. \A v \in Threads, k \in Links, c \in Cands :
           (Arriving(v, k, c)' <=> Arriving(v, k, c)) /\ (InHand(v, k, c)' <=> InHand(v, k, c))
    BY <1>1, <1>4, QuietCall, ZenonT(30) DEF IInv
  <2> QED BY <1>1, <1>2, <1>3, <2>1, MadeCands, ZenonT(30) DEF configVars
<1>10. LimitInv'
  <2>1. t \in Passed /\ Passed' = Passed \ {t} BY <1>1, <1>4, <1>7 DEF Passed
  <2>2. Cardinality(Passed') = Cardinality(Passed) - 1 BY <2>1, Sizes, FS_RemoveElement
  <2> QED BY <1>1, <2>2, Sizes DEF IInv, TypeOK, LimitInv, configVars
<1> QED BY <1>5, <1>6, <1>8, <1>9, <1>10 DEF IInv

LEMMA LinkSelf == ASSUME TypeOK, NEW l \in Links, UNCHANGED link PROVE link' = [link EXCEPT ![l] = link[l]]
BY DEF TypeOK

LEMMA OnAnswerStep == ASSUME IInv, NEW t \in Threads, OnAnswer(t) PROVE IInv'
<1> DEFINE l == peers[remoteId]
           q == [at |-> "answer", from |-> remoteId, link |-> l, cands |-> {}]
<1>1. /\ thr[t].at = "idle" /\ joined = "joined" /\ remoteId # None /\ l # None /\ Event
      /\ thr' = [thr EXCEPT ![t] = q] /\ UNCHANGED <<configVars, peers, countVars, link, reported>>
  BY DEF OnAnswer, Calls, OnMessageEnabled
<1>2. remoteId \in Peers /\ l \in Links /\ link[l].role # "none" /\ link[l] \in LinkType /\ Sound(link[l])
  BY <1>1, DcRtcAssumption DEF IInv, TypeOK, LifeInv, SoundInv
<1>3. q \in CallType /\ q.at = "answer" /\ q.from = remoteId /\ q.link = l
  BY <1>2 DEF CallType, WithLink
<1>4. link' = [link EXCEPT ![l] = link[l]] BY <1>1, <1>2, LinkSelf DEF IInv
<1> HIDE DEF l, q
<1>5. Moves(t, q, l, link[l]) BY <1>1, <1>2, <1>3, <1>4, EventNat, Zenon DEF IInv, Moves, configVars
<1>6. QuietCands BY <1>1, <1>3, QuietCall, ZenonT(30) DEF IInv, QuietCands, configVars
<1> QED BY <1>2, <1>5, <1>6, MovesStep, QuietCandsStep DEF IInv

LEMMA OnCandidateStep ==
    ASSUME IInv, NEW t \in Threads, NEW p \in Peers, NEW i \in Cands, OnCandidate(t, p, i)
    PROVE IInv'
<1> DEFINE l == peers[p]
           q == [at |-> "candidate", from |-> p, link |-> l, cands |-> {i}]
<1>1. /\ thr[t].at = "idle" /\ joined = "joined" /\ Event /\ <<p, i>> \in unsent
      /\ unsent' = unsent \ {<<p, i>>}
      /\ IF l = None THEN UNCHANGED thr ELSE thr' = [thr EXCEPT ![t] = q]
      /\ UNCHANGED <<remoteId, maxInbound, owner, joined, peers, countVars, link, reported>>
  BY DEF OnCandidate, Calls, OnMessageEnabled
<1>2. CASE l = None
  <2>1. thr' = thr BY <1>1, <1>2
  <2>2. TypeOK' BY <1>1, <2>1, EventNat DEF IInv, TypeOK, countVars
  <2>3. LifeInv' /\ CallInv' /\ SoundInv' BY <1>1, <2>1, ZenonT(30) DEF IInv, LifeInv, CallInv, SoundInv, WithLink
  <2>4. QuietCands BY <1>1, <2>1 DEF QuietCands, Arriving, InHand
  <2>5. LimitInv' BY <1>1, <2>1 DEF IInv, LimitInv, Passed, countVars
  <2> QED BY <2>2, <2>3, <2>4, <2>5, QuietCandsStep DEF IInv
<1>3. CASE l # None
  <2>1. /\ l \in Links /\ link[l].role # "none" /\ link[l].peer = p /\ link[l] \in LinkType
        /\ Sound(link[l])
    BY <1>3 DEF IInv, TypeOK, LifeInv, SoundInv
  <2>2. q \in CallType /\ q.at = "candidate" /\ q.from = p /\ q.link = l /\ q.cands = {i}
    BY <2>1 DEF CallType, WithLink
  <2>3. link' = [link EXCEPT ![l] = link[l]] BY <1>1, <2>1, LinkSelf DEF IInv
  <2>4. thr' = [thr EXCEPT ![t] = q] BY <1>1, <1>3
  <2> HIDE DEF l, q
  <2>5. Moves(t, q, l, link[l]) BY <1>1, <2>1, <2>2, <2>3, <2>4, EventNat, ZenonT(30) DEF IInv, Moves
  <2>6. thr'[t] = q /\ \A u \in Threads \ {t} : thr'[u] = thr[u] BY <2>4 DEF IInv, TypeOK
  <2>7. /\ \A v \in Threads, k \in Links, c \in Cands : InHand(v, k, c)' <=> InHand(v, k, c)
        /\ \A v \in Threads, k \in Links, c \in Cands :
             Arriving(v, k, c)' <=> Arriving(v, k, c) \/ (v = t /\ k = l /\ c = i)
        /\ \A k \in Links, c \in Cands : ~Arriving(t, k, c)
    BY <1>1, <2>2, <2>6 DEF InHand, Arriving
  <2>8. CandsInv'
    <3> SUFFICES ASSUME NEW k \in Links, NEW c \in Cands, NEW v \in Threads, NEW w \in Threads
                 PROVE CandInv(k, c, v, w)'
      BY DEF CandsInv
    <3>1. CandInv(k, c, v, w) /\ CandInv(k, c, w, v) BY DEF IInv, CandsInv
    <3>2. link' = link /\ unsent' \subseteq unsent /\ <<p, i>> \in unsent /\ <<p, i>> \notin unsent'
      BY <1>1
    <3> QED BY <2>1, <2>7, <3>1, <3>2, ZenonT(30) DEF CandInv
  <2> QED BY <2>1, <2>5, <2>8, MovesStep
<1> QED BY <1>2, <1>3

\* The steps on a link begin with what the call knows of it.
LEMMA CallLink ==
    ASSUME IInv, NEW t \in Threads, thr[t].at \in WithLink
    PROVE /\ thr[t].link \in Links /\ link[thr[t].link].role # "none" /\ joined = "joined"
          /\ link[thr[t].link] \in LinkType /\ Sound(link[thr[t].link])
          /\ thr[t] \in CallType /\ thr[t].from \in Peers
BY DEF IInv, TypeOK, CallInv, SoundInv, WithLink

LEMMA IdleCall == Idle \in CallType /\ Idle.at = "idle"
BY DEF Idle, CallType

LEMMA SetRemoteDescriptionStep ==
    ASSUME IInv, NEW t \in Threads, SetRemoteDescription(t)
    PROVE IInv'
<1> DEFINE l == thr[t].link
           taken == thr[t].at = "describe" \/ (link[l].role = "out" /\ ~link[l].remote)
           rec == [link[l] EXCEPT !.remote = TRUE]
           q == [thr[t] EXCEPT !.at = "flag"]
<1>1. /\ thr[t].at \in {"describe", "answer"}
      /\ link' = IF taken THEN [link EXCEPT ![l].remote = TRUE] ELSE link
      /\ thr' = [thr EXCEPT ![t] = IF taken THEN q ELSE Idle]
      /\ UNCHANGED <<configVars, peers, countVars, reported, events>>
  BY DEF SetRemoteDescription
<1>2. /\ l \in Links /\ link[l].role # "none" /\ joined = "joined" /\ link[l] \in LinkType
      /\ Sound(link[l]) /\ thr[t] \in CallType /\ thr[t].from \in Peers
  BY <1>1, CallLink DEF WithLink
<1>3. events' \in Nat BY <1>1 DEF IInv, TypeOK
<1>4. CASE taken
  <2>1. /\ rec \in LinkType /\ Sound(rec) /\ rec.role = link[l].role /\ rec.peer = link[l].peer /\ rec.remote
        /\ rec.remoteDescSet = link[l].remoteDescSet /\ rec.pending = link[l].pending
        /\ rec.applied = link[l].applied /\ rec.accepted = link[l].accepted
    BY <1>2, Zenon DEF LinkType, Sound
  <2>2. q \in CallType /\ q.at = "flag" /\ q.from = thr[t].from /\ q.link = l
    BY <1>2 DEF CallType, WithLink
  <2>3. link' = [link EXCEPT ![l] = rec] BY <1>1, <1>4
  <2>4. thr' = [thr EXCEPT ![t] = q] BY <1>1, <1>4, Zenon
  <2> HIDE DEF rec, q, l, taken
  <2>5. Moves(t, q, l, rec) BY <1>1, <1>2, <1>3, <2>1, <2>2, <2>3, <2>4, ZenonT(30) DEF Moves, configVars
  <2>6. link'[l] = rec /\ \A k \in Links \ {l} : link'[k] = link[k] BY <1>2, <2>3 DEF IInv, TypeOK
  <2>7. QuietCands
    <3>1. \A v \in Threads, k \in Links, c \in Cands :
             (Arriving(v, k, c)' <=> Arriving(v, k, c)) /\ (InHand(v, k, c)' <=> InHand(v, k, c))
      BY <1>1, <2>2, <2>4, QuietCall, ZenonT(30) DEF IInv
    <3> QED BY <1>1, <2>1, <2>6, <3>1 DEF QuietCands, configVars
  <2> QED BY <1>2, <2>5, <2>7, MovesStep, QuietCandsStep DEF IInv
<1>5. CASE ~taken
  <2>1. thr' = [thr EXCEPT ![t] = Idle] /\ link' = link BY <1>1, <1>5
  <2>2. link' = [link EXCEPT ![l] = link[l]] BY <1>2, <2>1, LinkSelf DEF IInv
  <2> HIDE DEF rec, q, l, taken
  <2>3. Moves(t, Idle, l, link[l]) BY <1>1, <1>2, <1>3, <2>1, <2>2, IdleCall, Zenon DEF Moves, configVars, WithLink
  <2>4. QuietCands BY <1>1, <2>1, IdleCall, QuietCall, ZenonT(30) DEF IInv, QuietCands, configVars
  <2> QED BY <1>2, <2>3, <2>4, MovesStep, QuietCandsStep DEF IInv
<1> QED BY <1>4, <1>5

\* The buffer goes into the hand of the call that set the flag.
LEMMA TakePendingStep == ASSUME IInv, NEW t \in Threads, TakePending(t) PROVE IInv'
<1> DEFINE l == thr[t].link
           rec == [link[l] EXCEPT !.remoteDescSet = TRUE, !.pending = {}]
           q == [at |-> "apply", from |-> thr[t].from, link |-> l, cands |-> link[l].pending]
<1>1. /\ thr[t].at = "flag" /\ link' = [link EXCEPT ![l] = rec] /\ thr' = [thr EXCEPT ![t] = q]
      /\ UNCHANGED <<configVars, peers, countVars, reported, events>>
  BY Zenon DEF TakePending, Calls
<1>2. /\ l \in Links /\ link[l].role # "none" /\ joined = "joined" /\ link[l] \in LinkType
      /\ Sound(link[l]) /\ thr[t] \in CallType /\ thr[t].from \in Peers
  BY <1>1, CallLink DEF WithLink
<1>3. events' \in Nat /\ link[l].remote BY <1>1 DEF IInv, TypeOK, CallInv
<1>4. /\ rec \in LinkType /\ Sound(rec) /\ rec.role = link[l].role /\ rec.peer = link[l].peer
      /\ rec.remote = link[l].remote /\ rec.remoteDescSet /\ rec.pending = {}
      /\ rec.applied = link[l].applied /\ rec.accepted = link[l].accepted
  BY <1>2, <1>3, ZenonT(30) DEF LinkType, Sound
<1>5. q \in CallType /\ q.at = "apply" /\ q.from = thr[t].from /\ q.link = l /\ q.cands = link[l].pending
  BY <1>2 DEF CallType, WithLink, LinkType
<1> HIDE DEF l, rec, q
<1>6. Moves(t, q, l, rec) BY <1>1, <1>2, <1>3, <1>4, <1>5 DEF Moves, configVars
<1>7. link'[l] = rec /\ \A k \in Links \ {l} : link'[k] = link[k]
  BY <1>1, <1>2 DEF IInv, TypeOK
<1>8. thr'[t] = q /\ \A u \in Threads \ {t} : thr'[u] = thr[u] BY <1>1 DEF IInv, TypeOK
<1>9. /\ \A v \in Threads, k \in Links, c \in Cands : Arriving(v, k, c)' <=> Arriving(v, k, c)
      /\ \A v \in Threads, k \in Links, c \in Cands :
           InHand(v, k, c)' <=> InHand(v, k, c) \/ (v = t /\ k = l /\ c \in link[l].pending)
      /\ \A k \in Links, c \in Cands : ~InHand(t, k, c)
  BY <1>1, <1>5, <1>8 DEF InHand, Arriving
<1>10. CandsInv'
  <2> SUFFICES ASSUME NEW k \in Links, NEW c \in Cands, NEW v \in Threads, NEW w \in Threads
               PROVE CandInv(k, c, v, w)'
    BY DEF CandsInv
  <2>1. CandInv(k, c, v, w) /\ CandInv(k, c, w, v) BY DEF IInv, CandsInv
  <2>2. unsent' = unsent BY <1>1 DEF configVars
  <2>3. CASE k = l BY <1>3, <1>4, <1>7, <1>9, <2>1, <2>2, <2>3, ZenonT(30) DEF CandInv
  <2>4. CASE k # l BY <1>7, <1>9, <2>1, <2>2, <2>4, ZenonT(30) DEF CandInv
  <2> QED BY <2>3, <2>4
<1> QED BY <1>2, <1>6, <1>10, MovesStep

\* A candidate enters the buffer, or the hand of its call once the flag is set.
LEMMA AddRemoteCandidateStep == ASSUME IInv, NEW t \in Threads, AddRemoteCandidate(t) PROVE IInv'
<1> DEFINE l == thr[t].link
           C == thr[t].cands
           held == [link[l] EXCEPT !.accepted = @ \cup C]
           kept == [link[l] EXCEPT !.accepted = @ \cup C, !.pending = @ \cup C]
           rec == IF link[l].remoteDescSet THEN held ELSE kept
           hand == [thr[t] EXCEPT !.at = "apply"]
           q == IF link[l].remoteDescSet THEN hand ELSE Idle
<1>1. /\ thr[t].at = "candidate"
      /\ UNCHANGED <<configVars, peers, countVars, reported, events>>
  BY DEF AddRemoteCandidate
<1>2. link' = [link EXCEPT ![l] = rec] /\ thr' = [thr EXCEPT ![t] = q]
  <2>1. CASE link[l].remoteDescSet BY <2>1 DEF AddRemoteCandidate
  <2>2. CASE ~link[l].remoteDescSet BY <2>2, ZenonT(30) DEF AddRemoteCandidate
  <2> QED BY <2>1, <2>2
<1>3. /\ l \in Links /\ link[l].role # "none" /\ joined = "joined" /\ link[l] \in LinkType
      /\ Sound(link[l]) /\ thr[t] \in CallType /\ thr[t].from \in Peers
  BY <1>1, CallLink DEF WithLink
<1>4. events' \in Nat /\ C \in SUBSET Cands BY <1>1, <1>3 DEF IInv, TypeOK, CallType
<1>5. /\ rec \in LinkType /\ Sound(rec) /\ rec.role = link[l].role /\ rec.peer = link[l].peer
      /\ rec.remote = link[l].remote /\ rec.remoteDescSet = link[l].remoteDescSet
      /\ rec.applied = link[l].applied /\ rec.accepted = link[l].accepted \cup C
      /\ rec.pending = IF link[l].remoteDescSet THEN link[l].pending ELSE link[l].pending \cup C
  <2>1. CASE link[l].remoteDescSet BY <1>3, <1>4, <2>1, Zenon DEF LinkType, Sound
  <2>2. CASE ~link[l].remoteDescSet BY <1>3, <1>4, <2>2, ZenonT(30) DEF LinkType, Sound
  <2> QED BY <2>1, <2>2
<1>6. /\ q \in CallType /\ q.at \in {"apply", "idle"}
      /\ q.at = "apply" <=> link[l].remoteDescSet
      /\ q.at = "apply" => q.link = l /\ q.cands = C /\ q.from = thr[t].from
  <2>1. CASE link[l].remoteDescSet BY <1>3, <2>1 DEF CallType, WithLink
  <2>2. CASE ~link[l].remoteDescSet BY <2>2, IdleCall
  <2> QED BY <2>1, <2>2
<1>7. C = thr[t].cands /\ l = thr[t].link OBVIOUS
<1> HIDE DEF l, C, rec, q
<1>8. Moves(t, q, l, rec) BY <1>1, <1>2, <1>3, <1>4, <1>5, <1>6, ZenonT(30) DEF Moves, configVars, WithLink, Sound
<1>9. link'[l] = rec /\ \A k \in Links \ {l} : link'[k] = link[k]
  BY <1>2, <1>3 DEF IInv, TypeOK
<1>10. thr'[t] = q /\ \A u \in Threads \ {t} : thr'[u] = thr[u] BY <1>2 DEF IInv, TypeOK
<1>11. /\ \A v \in Threads, k \in Links, c \in Cands :
            Arriving(v, k, c)' <=> Arriving(v, k, c) /\ v # t
       /\ \A v \in Threads, k \in Links, c \in Cands :
            InHand(v, k, c)' <=> InHand(v, k, c) \/ (v = t /\ k = l /\ c \in C /\ link[l].remoteDescSet)
       /\ \A k \in Links, c \in Cands : ~InHand(t, k, c) /\ (Arriving(t, k, c) <=> k = l /\ c \in C)
  BY <1>1, <1>6, <1>7, <1>10 DEF InHand, Arriving
<1>12. CandsInv'
  <2> SUFFICES ASSUME NEW k \in Links, NEW c \in Cands, NEW v \in Threads, NEW w \in Threads
               PROVE CandInv(k, c, v, w)'
    BY DEF CandsInv
  <2>1. CandInv(k, c, v, w) /\ CandInv(k, c, t, v) /\ CandInv(k, c, t, w) BY DEF IInv, CandsInv
  <2>2. unsent' = unsent BY <1>1 DEF configVars
  <2>3. CASE k = l
    <3>1. CASE c \in C BY <1>5, <1>9, <1>11, <2>1, <2>2, <2>3, <3>1, ZenonT(30) DEF CandInv
    <3>2. CASE c \notin C
      <4>1. /\ link'[k].peer = link[k].peer /\ link'[k].remote = link[k].remote
            /\ link'[k].remoteDescSet = link[k].remoteDescSet
            /\ link'[k].applied = link[k].applied
            /\ c \in link'[k].accepted <=> c \in link[k].accepted
            /\ c \in link'[k].pending <=> c \in link[k].pending
        BY <1>5, <1>9, <2>3, <3>2, Zenon
      <4>2. \A x \in Threads : /\ InHand(x, k, c)' <=> InHand(x, k, c)
                               /\ Arriving(x, k, c)' => Arriving(x, k, c)
        BY <1>11, <3>2, Zenon
      <4> QED BY <2>1, <2>2, <4>1, <4>2, Zenon DEF CandInv
    <3> QED BY <3>1, <3>2
  <2>4. CASE k # l
    <3>1. link'[k] = link[k] BY <1>9, <2>4, Zenon
    <3>2. \A x \in Threads : /\ InHand(x, k, c)' <=> InHand(x, k, c)
                             /\ Arriving(x, k, c)' => Arriving(x, k, c)
      BY <1>11, <2>4, Zenon
    <3> QED BY <2>1, <2>2, <3>1, <3>2, Zenon DEF CandInv
  <2> QED BY <2>3, <2>4
<1> QED BY <1>3, <1>8, <1>12, MovesStep

\* What a call has in its hand reaches the connection.
LEMMA ApplyStep == ASSUME IInv, NEW t \in Threads, Apply(t) PROVE IInv'
<1> DEFINE l == thr[t].link
           C == thr[t].cands
           rec == [link[l] EXCEPT !.applied = @ \cup C]
<1>1. /\ thr[t].at = "apply" /\ link' = [link EXCEPT ![l] = rec] /\ thr' = [thr EXCEPT ![t] = Idle]
      /\ UNCHANGED <<configVars, peers, countVars, reported, events>>
  BY DEF Apply
<1>2. /\ l \in Links /\ link[l].role # "none" /\ joined = "joined" /\ link[l] \in LinkType
      /\ Sound(link[l]) /\ thr[t] \in CallType /\ thr[t].from \in Peers
  BY <1>1, CallLink DEF WithLink
<1>3. events' \in Nat /\ link[l].remote /\ C \in SUBSET Cands
  BY <1>1, <1>2, Zenon DEF IInv, TypeOK, CallInv, CallType
<1>4. /\ rec \in LinkType /\ Sound(rec) /\ rec.role = link[l].role /\ rec.peer = link[l].peer
      /\ rec.remote = link[l].remote /\ rec.remoteDescSet = link[l].remoteDescSet
      /\ rec.pending = link[l].pending
      /\ rec.applied = link[l].applied \cup C /\ rec.accepted = link[l].accepted
  BY <1>2, <1>3, ZenonT(30) DEF LinkType, Sound
<1>5. C = thr[t].cands /\ l = thr[t].link OBVIOUS
<1> HIDE DEF l, C, rec
<1>6. Moves(t, Idle, l, rec) BY <1>1, <1>2, <1>3, <1>4, IdleCall DEF Moves, configVars, WithLink
<1>7. link'[l] = rec /\ \A k \in Links \ {l} : link'[k] = link[k]
  BY <1>1, <1>2 DEF IInv, TypeOK
<1>8. thr'[t] = Idle /\ \A u \in Threads \ {t} : thr'[u] = thr[u] BY <1>1 DEF IInv, TypeOK
<1>9. /\ \A v \in Threads, k \in Links, c \in Cands : Arriving(v, k, c)' <=> Arriving(v, k, c)
      /\ \A v \in Threads, k \in Links, c \in Cands : InHand(v, k, c)' <=> InHand(v, k, c) /\ v # t
      /\ \A k \in Links, c \in Cands : InHand(t, k, c) <=> k = l /\ c \in C
  BY <1>1, <1>5, <1>8, IdleCall DEF InHand, Arriving
<1>10. CandsInv'
  <2> SUFFICES ASSUME NEW k \in Links, NEW c \in Cands, NEW v \in Threads, NEW w \in Threads
               PROVE CandInv(k, c, v, w)'
    BY DEF CandsInv
  <2>1. CandInv(k, c, v, w) /\ CandInv(k, c, t, v) /\ \A x \in Threads : CandInv(k, c, t, x)
    BY DEF IInv, CandsInv
  <2>2. unsent' = unsent BY <1>1 DEF configVars
  <2>3. CASE k = l
    <3>1. CASE c \in C BY <1>3, <1>4, <1>7, <1>9, <2>1, <2>2, <2>3, <3>1, ZenonT(30) DEF CandInv
    <3>2. CASE c \notin C BY <1>3, <1>4, <1>7, <1>9, <2>1, <2>2, <2>3, <3>2, ZenonT(30) DEF CandInv
    <3> QED BY <3>1, <3>2
  <2>4. CASE k # l BY <1>7, <1>9, <2>1, <2>2, <2>4, ZenonT(30) DEF CandInv
  <2> QED BY <2>3, <2>4
<1> QED BY <1>2, <1>6, <1>10, MovesStep, Zenon

-----------------------------------------------------------------------------
\* The join that fails, OnLeft and the end of the transport change no link.
LEMMA OtherStep ==
    ASSUME IInv, JoinFails \/ OnLeft \/ DestroyTransport \/ UNCHANGED vars
    PROVE IInv'
<1>1. /\ UNCHANGED <<remoteId, maxInbound, unsent, peers, countVars, link, thr>>
      /\ joined' = joined \/ (joined = "no" /\ joined' = "failed")
      /\ owner' \in BOOLEAN /\ reported' \in BOOLEAN /\ events' \in Nat
  BY EventNat, Zenon DEF IInv, TypeOK, JoinFails, OnLeft, DestroyTransport, vars, configVars
<1>2. TypeOK' BY <1>1 DEF IInv, TypeOK, countVars
<1>3. LifeInv' /\ SoundInv' BY <1>1, Zenon DEF IInv, LifeInv, SoundInv
<1>4. CallInv' BY <1>1, ZenonT(30) DEF IInv, CallInv, WithLink
<1>5. CandsInv'
  <2> SUFFICES ASSUME NEW l \in Links, NEW c \in Cands, NEW t \in Threads, NEW u \in Threads
               PROVE CandInv(l, c, t, u)'
    BY DEF CandsInv
  <2>1. CandInv(l, c, t, u) BY DEF IInv, CandsInv
  <2> QED BY <1>1, <2>1 DEF CandInv, Arriving, InHand
<1>6. LimitInv' BY <1>1 DEF IInv, LimitInv, Passed, countVars
<1> QED BY <1>2, <1>3, <1>4, <1>5, <1>6 DEF IInv

LEMMA InductiveStep == IInv /\ [Next]_vars => IInv'
<1> SUFFICES ASSUME IInv, [Next]_vars PROVE IInv'
  OBVIOUS
<1>1. ASSUME NEW t \in Threads, OnMessage(t) PROVE IInv'
  BY <1>1, OnOfferStep, OnCandidateStep, OnAnswerStep DEF OnMessage
<1>2. ASSUME NEW t \in Threads, Handling(t) PROVE IInv'
  BY <1>2, HandleOfferStep, SetRemoteDescriptionStep, TakePendingStep, AddRemoteCandidateStep,
     ApplyStep DEF Handling
<1>3. ASSUME NEW l \in Links,
             ChannelOpens(l) \/ Opening(l) \/ Breaks(l) \/ Closes(l) \/ Disconnect(l) \/ Drop(l)
      PROVE IInv'
  <2>1. Frame(l) /\ Around BY <1>3, LinkFrame DEF IInv
  <2> QED BY <2>1, LinkStep
<1> HIDE DEF IInv
<1> QED BY <1>1, <1>2, <1>3, JoinedStep, OtherStep DEF Next

LEMMA Initially == Init => IInv
<1> SUFFICES ASSUME Init PROVE IInv OBVIOUS
<1>1. NoLink \in LinkType /\ Idle \in CallType BY IdleCall DEF NoLink, LinkType
<1>2. TypeOK
  <2>1. remoteId \in Remotes /\ maxInbound \in Nat /\ events \in Nat /\ inboundCount \in Nat
    BY DcRtcAssumption DEF Init
  <2>2. peers \in [Peers -> Links \cup {None}] /\ unsent \in SUBSET (Peers \X Cands)
    BY DEF Init
  <2>3. link \in [Links -> LinkType] /\ thr \in [Threads -> CallType] BY <1>1 DEF Init
  <2> QED BY <2>1, <2>2, <2>3, ZenonT(30) DEF Init, TypeOK
<1>3. /\ NoLink.role = "none" /\ Sound(NoLink)
      /\ NoLink.accepted = {} /\ NoLink.pending = {} /\ NoLink.applied = {}
  BY DEF NoLink, Sound
<1>4. /\ \A l \in Links : link[l] = NoLink
      /\ \A p \in Peers : peers[p] = None
      /\ \A t \in Threads : thr[t].at = "idle"
  BY Zenon DEF Init, Idle
<1>6. LifeInv BY <1>3, <1>4, Zenon DEF LifeInv
<1>7. SoundInv BY <1>3, <1>4, Zenon DEF SoundInv
<1>8. CallInv BY <1>4, ZenonT(30) DEF CallInv, WithLink
<1>9. CandsInv BY <1>3, <1>4 DEF CandsInv, CandInv, Arriving, InHand
<1>5. LimitInv
  <2>1. Passed = {} BY DEF Init, Passed, Idle
  <2>2. Cardinality(Passed) = 0 BY <2>1, FS_EmptySet
  <2> QED BY <1>2, <2>2, Sizes DEF Init, TypeOK, LimitInv
<1> QED BY <1>2, <1>5, <1>6, <1>7, <1>8, <1>9 DEF IInv

\* The invariant holds in every state.
THEOREM Invariance == Spec => []IInv
BY Initially, InductiveStep, PTL DEF Spec

\* The variables keep their types.
THEOREM Typing == Spec => []TypeOK
<1>1. IInv => TypeOK BY DEF IInv
<1> QED BY <1>1, Invariance, PTL

\* SetRemoteDescription against AddRemoteCandidate: a candidate is in one place,
\* applied after the description, and never left in the buffer behind the flag.
THEOREM CandidatesNotLost == Spec => []CandidatesKept
<1>1. IInv => CandidatesKept
  <2> SUFFICES ASSUME IInv, NEW l \in Links
               PROVE LET flying(t) == IF thr[t].at = "apply" /\ thr[t].link = l THEN thr[t].cands ELSE {}
                         inFlight == UNION {flying(t) : t \in Threads}
                     IN  /\ link[l].accepted = link[l].pending \cup link[l].applied \cup inFlight
                         /\ link[l].applied # {} => link[l].remote
                         /\ link[l].pending \cap (link[l].applied \cup inFlight) = {}
                         /\ link[l].applied \cap inFlight = {}
                         /\ link[l].pending # {} => ~link[l].remoteDescSet
    BY DEF CandidatesKept
  <2> DEFINE flying(t) == IF thr[t].at = "apply" /\ thr[t].link = l THEN thr[t].cands ELSE {}
             inFlight == UNION {flying(t) : t \in Threads}
  <2>1. /\ link[l].accepted \in SUBSET Cands /\ link[l].pending \in SUBSET Cands
        /\ link[l].applied \in SUBSET Cands
    BY DEF IInv, TypeOK, LinkType
  <2>2. inFlight \in SUBSET Cands BY DEF IInv, TypeOK, CallType
  <2>3. \A c \in Cands : c \in inFlight <=> \E t \in Threads : InHand(t, l, c)
    BY DEF InHand
  <2>4. \A c \in Cands, t \in Threads : CandInv(l, c, t, t) BY DEF IInv, CandsInv
  <2>5. PICK t \in Threads : TRUE BY DcRtcAssumption
  <2> HIDE DEF inFlight
  <2>6. \A c \in Cands :
          /\ c \in link[l].accepted <=> c \in link[l].pending \/ c \in link[l].applied \/ c \in inFlight
          /\ c \in link[l].pending => c \notin link[l].applied /\ c \notin inFlight /\ ~link[l].remoteDescSet
          /\ c \in link[l].applied => c \notin inFlight /\ link[l].remote
    BY <2>3, <2>4, <2>5, ZenonT(30) DEF CandInv
  <2>7. /\ link[l].accepted = link[l].pending \cup link[l].applied \cup inFlight
        /\ link[l].applied # {} => link[l].remote
        /\ link[l].pending \cap (link[l].applied \cup inFlight) = {}
        /\ link[l].applied \cap inFlight = {}
        /\ link[l].pending # {} => ~link[l].remoteDescSet
    BY <2>1, <2>2, <2>6
  <2> QED BY <2>7 DEF inFlight
<1> QED BY <1>1, Invariance, PTL

\* A connection passes through several final states: _closedFired lets one of them
\* reach the handler, and only once the handler is bound.
THEOREM DisconnectedOnce == Spec => []ToldOnce
<1>1. IInv => ToldOnce BY DEF IInv, TypeOK, LinkType, SoundInv, Sound, ToldOnce
<1> QED BY <1>1, Invariance, PTL
-----------------------------------------------------------------------------
(* The end of a connection: what DisconnectCompletes rests on *)

\* The handler was not told of a connection that has not ended, and Disconnect()
\* closes the connection.
Open(rec) ==
    /\ rec.pc \notin Terminal => ~rec.closedFired /\ rec.told = 0
    /\ rec.disconnectRequested => rec.closing
OpenInv == \A l \in Links : Open(link[l])

\* A disconnected link whose connection has not ended waits for its close, and
\* nothing has used up its _closedFired.
DisconnectPending ==
    \A l \in Links : link[l].disconnectRequested /\ link[l].pc \notin Terminal
                        => link[l].closing /\ ~link[l].closedFired /\ link[l].told = 0

\* The step that ends the connection of a link that the application holds with its
\* handler bound tells the handler, and takes the link out of the map.
EndTells ==
    \A l \in Links :
        /\ link[l].phase = "ready" /\ link[l].held
        /\ link[l].pc \notin Terminal /\ link'[l].pc \in Terminal
        => /\ link'[l].told = 1
           /\ StateAlive => \A p \in Peers : peers'[p] # l

\* A step of one link that does not end its connection.
LEMMA OpenMoves ==
    ASSUME TypeOK, OpenInv, NEW l \in Links, NEW rec, link' = [link EXCEPT ![l] = rec], Open(rec),
           rec.pc \in Terminal => link[l].pc \in Terminal
    PROVE OpenInv' /\ EndTells
<1>1. link'[l] = rec /\ \A k \in Links \ {l} : link'[k] = link[k] BY DEF TypeOK
<1>2. OpenInv' BY <1>1 DEF OpenInv
<1>3. EndTells BY <1>1 DEF EndTells
<1> QED BY <1>2, <1>3

\* Whichever state ends it, by the network or by Disconnect().
LEMMA EndStep ==
    ASSUME IInv, OpenInv, NEW l \in Links, NEW st \in Terminal, StateChange(l, st)
    PROVE OpenInv' /\ EndTells
<1>1. link[l] \in LinkType /\ Open(link[l]) /\ link \in [Links -> LinkType]
  BY DEF IInv, TypeOK, OpenInv
<1> DEFINE plain == [link[l] EXCEPT !.pc = st]
<1>2. Open(plain) /\ plain.pc = st BY <1>1 DEF Open, LinkType
<1>3. /\ Open(FireOnce(l, st)) /\ FireOnce(l, st).pc = st
      /\ link[l].pc \notin Terminal /\ link[l].phase = "ready" => FireOnce(l, st).told = 1
  <2>1. CASE link[l].closedFired BY <1>1, <1>2, <2>1 DEF FireOnce, Open
  <2>2. CASE ~link[l].closedFired
    <3> DEFINE told == IF link[l].phase = "ready" THEN link[l].told + 1 ELSE link[l].told
    <3>1. FireOnce(l, st) = [link[l] EXCEPT !.pc = st, !.closedFired = TRUE, !.told = told]
      BY <2>2 DEF FireOnce
    <3>2. link[l].pc \notin Terminal /\ link[l].phase = "ready" => told = 1 BY <1>1 DEF Open
    <3> HIDE DEF told
    <3>3. /\ FireOnce(l, st).pc = st /\ FireOnce(l, st).told = told
          /\ FireOnce(l, st).disconnectRequested = link[l].disconnectRequested
          /\ FireOnce(l, st).closing = link[l].closing
      BY <1>1, <3>1 DEF LinkType
    <3> QED BY <1>1, <3>2, <3>3 DEF Open
  <2> QED BY <2>1, <2>2
<1> DEFINE rec == IF Attached(l) /\ HeldElsewhere(l) THEN FireOnce(l, st) ELSE plain
<1>4. link' = [link EXCEPT ![l] = rec] BY DEF StateChange, Changes
<1>5. Open(rec) BY <1>2, <1>3
<1>6. link'[l] = rec /\ \A k \in Links \ {l} : link'[k] = link[k] BY <1>1, <1>4
<1>7. OpenInv' BY <1>5, <1>6 DEF OpenInv
<1>8. EndTells
  <2> SUFFICES ASSUME link[l].phase = "ready", link[l].held, link[l].pc \notin Terminal
               PROVE  link'[l].told = 1 /\ (StateAlive => \A p \in Peers : peers'[p] # l)
    BY <1>6, Zenon DEF EndTells
  <2>1. Attached(l) /\ HeldElsewhere(l) BY DEF Attached, HeldElsewhere
  <2>2. link'[l].told = 1 BY <1>3, <1>6, <2>1
  <2>3. ASSUME StateAlive, NEW p \in Peers PROVE peers'[p] # l
    <3>1. peers' = [peers EXCEPT ![link[l].peer] = None] BY <2>1, <2>3 DEF StateChange, Gone
    <3>2. peers \in [Peers -> Links \cup {None}] /\ l # None
      BY DcRtcAssumption DEF IInv, TypeOK
    <3>3. CASE p = link[l].peer BY <3>1, <3>2, <3>3
    <3>4. CASE p # link[l].peer
      <4>1. peers'[p] = peers[p] BY <3>1, <3>2, <3>4
      <4>2. peers[p] = l => link[l].peer = p BY <3>2 DEF IInv, LifeInv
      <4> QED BY <3>4, <4>1, <4>2
    <3> QED BY <3>3, <3>4
  <2> QED BY <2>2, <2>3
<1> QED BY <1>7, <1>8

\* Steps of OnMessage on the link of their call.
LEMMA CallOpen ==
    ASSUME IInv, OpenInv, NEW t \in Threads,
           SetRemoteDescription(t) \/ TakePending(t) \/ AddRemoteCandidate(t) \/ Apply(t)
    PROVE OpenInv' /\ EndTells
<1> DEFINE l == thr[t].link
           described == [link[l] EXCEPT !.remote = TRUE]
           flagged == [link[l] EXCEPT !.remoteDescSet = TRUE, !.pending = {}]
           accepted == [link[l] EXCEPT !.accepted = @ \cup thr[t].cands]
           buffered == [link[l] EXCEPT !.accepted = @ \cup thr[t].cands, !.pending = @ \cup thr[t].cands]
           applied == [link[l] EXCEPT !.applied = @ \cup thr[t].cands]
<1>1. thr[t].at \in WithLink
  BY Zenon DEF SetRemoteDescription, TakePending, AddRemoteCandidate, Apply, WithLink
<1>2. l \in Links /\ link[l] \in LinkType /\ Open(link[l]) /\ TypeOK
  BY <1>1, CallLink DEF OpenInv, IInv
<1>3. \/ link' = link
      \/ link' = [link EXCEPT ![l] = described]
      \/ link' = [link EXCEPT ![l] = flagged]
      \/ link' = [link EXCEPT ![l] = accepted]
      \/ link' = [link EXCEPT ![l] = buffered]
      \/ link' = [link EXCEPT ![l] = applied]
  <2>1. CASE SetRemoteDescription(t) BY <2>1, ZenonT(30) DEF SetRemoteDescription
  <2>2. CASE TakePending(t) BY <2>2, <1>2, Zenon DEF TakePending, IInv, TypeOK
  <2>3. CASE AddRemoteCandidate(t) BY <2>3, <1>2 DEF AddRemoteCandidate, IInv, TypeOK
  <2>4. CASE Apply(t) BY <2>4, ZenonT(30) DEF Apply
  <2> QED BY <2>1, <2>2, <2>3, <2>4
<1>4. Open(described) /\ described.pc = link[l].pc BY <1>2 DEF Open, LinkType
<1>5. Open(flagged) /\ flagged.pc = link[l].pc BY <1>2 DEF Open, LinkType
<1>6. Open(accepted) /\ accepted.pc = link[l].pc BY <1>2 DEF Open, LinkType
<1>7. Open(buffered) /\ buffered.pc = link[l].pc BY <1>2 DEF Open, LinkType
<1>8. Open(applied) /\ applied.pc = link[l].pc BY <1>2 DEF Open, LinkType
<1> HIDE DEF described, flagged, accepted, buffered, applied, l
<1>9. link' = link => OpenInv' /\ EndTells BY DEF OpenInv, EndTells
<1> QED BY <1>2, <1>3, <1>4, <1>5, <1>6, <1>7, <1>8, <1>9, OpenMoves

\* Steps of one link that end nothing.
LEMMA LinkOpen ==
    ASSUME IInv, OpenInv, NEW l \in Links,
           ChannelOpens(l) \/ Opening(l) \/ Disconnect(l) \/ Drop(l)
    PROVE OpenInv' /\ EndTells
<1> DEFINE opens == [link[l] EXCEPT !.phase = "opening", !.pc = "connected"]
           given == [link[l] EXCEPT !.phase = "given", !.held = TRUE]
           ready == [link[l] EXCEPT !.phase = "ready"]
           asked == [link[l] EXCEPT !.disconnectRequested = TRUE, !.closing = TRUE]
           dropped == [link[l] EXCEPT !.held = FALSE]
<1>1. link[l] \in LinkType /\ Open(link[l]) /\ TypeOK BY DEF IInv, TypeOK, OpenInv
<1>2. \/ link[l].pc = "new" /\ link' = [link EXCEPT ![l] = opens]
      \/ link' = [link EXCEPT ![l] = given]
      \/ link' = [link EXCEPT ![l] = ready]
      \/ link' = [link EXCEPT ![l] = asked]
      \/ link' = [link EXCEPT ![l] = dropped]
  BY Zenon DEF ChannelOpens, Opening, AttachAndOnLink, SetHandler, Disconnect, Drop, Changes
<1>3. link[l].pc = "new" => Open(opens) /\ opens.pc \notin Terminal
  BY <1>1 DEF Open, LinkType, Terminal
<1>4. Open(given) /\ given.pc = link[l].pc BY <1>1 DEF Open, LinkType
<1>5. Open(ready) /\ ready.pc = link[l].pc BY <1>1 DEF Open, LinkType
<1>6. Open(asked) /\ asked.pc = link[l].pc BY <1>1 DEF Open, LinkType
<1>7. Open(dropped) /\ dropped.pc = link[l].pc BY <1>1 DEF Open, LinkType
<1> HIDE DEF opens, given, ready, asked, dropped
<1> QED BY <1>1, <1>2, <1>3, <1>4, <1>5, <1>6, <1>7, OpenMoves

LEMMA OpenStep == IInv /\ OpenInv /\ [Next]_vars => OpenInv' /\ EndTells
<1> SUFFICES ASSUME IInv, OpenInv, [Next]_vars PROVE OpenInv' /\ EndTells OBVIOUS
<1>1. CASE UNCHANGED link BY <1>1 DEF OpenInv, EndTells
<1>2. ASSUME NEW role, NEW p, NewLink \in Links, link' = [link EXCEPT ![NewLink] = Made(role, p)]
      PROVE  OpenInv' /\ EndTells
  <2>1. Open(Made(role, p)) /\ Made(role, p).pc \notin Terminal BY DEF Open, Made, NoLink, Terminal
  <2>2. TypeOK BY DEF IInv
  <2> HIDE DEF IInv
  <2> QED BY <1>2, <2>1, <2>2, OpenMoves, Zenon
<1>3. CASE Joined
  <2>1. CASE remoteId = None BY <1>1, <1>3, <2>1 DEF Joined
  <2>2. CASE remoteId # None
    <3>1. NewLink \in Links
      BY <1>3, NewLinkUnused, DcRtcAssumption DEF Joined, IInv, LifeInv, Unused
    <3>2. link' = [link EXCEPT ![NewLink] = Made("out", remoteId)] BY <1>3, <2>2 DEF Joined, OpenOfferer
    <3> QED BY <1>2, <3>1, <3>2, Zenon
  <2> QED BY <2>1, <2>2
<1>4. ASSUME NEW t \in Threads, HandleOffer(t) PROVE OpenInv' /\ EndTells
  <2>1. NewLink \in Links BY <1>4, NewLinkUnused DEF HandleOffer, IInv
  <2>2. link' = [link EXCEPT ![NewLink] = Made("in", thr[t].from)] BY <1>4 DEF HandleOffer
  <2> QED BY <1>2, <2>1, <2>2, Zenon
<1>5. ASSUME NEW l \in Links, Breaks(l) \/ Closes(l) PROVE OpenInv' /\ EndTells
  <2>1. PICK st \in Terminal : StateChange(l, st) BY <1>5 DEF Breaks, Closes, Terminal
  <2> QED BY <2>1, EndStep
<1>6. \A t \in Threads : OnMessage(t) => UNCHANGED link
  BY Zenon DEF OnMessage, OnOffer, OnCandidate, OnAnswer
<1>7. JoinFails \/ OnLeft \/ DestroyTransport \/ UNCHANGED vars => UNCHANGED link
  BY DEF JoinFails, OnLeft, DestroyTransport, vars
<1> HIDE DEF IInv, OpenInv
<1> QED BY <1>1, <1>3, <1>4, <1>5, <1>6, <1>7, CallOpen, LinkOpen DEF Next, Handling

LEMMA OpenInvariance == Spec => []OpenInv
<1>1. Init => OpenInv BY DEF Init, OpenInv, Open, NoLink
<1> QED BY <1>1, OpenStep, Invariance, PTL DEF Spec

\* DcRtcLink::Disconnect() closes the connection, and until the connection ends no
\* other callback has used up the one call of the handler.
THEOREM DisconnectIsAnswerable == Spec => []DisconnectPending
<1>1. OpenInv => DisconnectPending BY DEF OpenInv, Open, DisconnectPending
<1> QED BY <1>1, OpenInvariance, PTL

\* The state callback of Attach: however the connection of a held link with a bound
\* handler ends, the same step runs onDisconnected and erases the link's entry, even
\* with an offer that replaced entries in between.
THEOREM EndIsTold == Spec => [][EndTells]_vars
<1>1. IInv /\ OpenInv /\ [Next]_vars => [EndTells]_vars BY OpenStep
<1> QED BY <1>1, Invariance, OpenInvariance, PTL DEF Spec

-----------------------------------------------------------------------------
(* The limit of inbound connections. *)

\* What has not ended is counted; the count is that of the links counted, until
\* one is counted out twice; and with the offers tested but not counted yet it is
\* within the limit, until two of them overlap.
Inbound(l) == link[l].role = "in" /\ link[l].pc \notin Terminal
CountInv ==
    /\ \A l \in Links : Inbound(l) => l \in counted
    /\ \A l \in counted : link[l].role = "in"
    /\ IsFiniteSet(counted)
    /\ ~again => inboundCount = Cardinality(counted)
    /\ ~overlapped => inboundCount + Cardinality(Passed) <= maxInbound

\* A step that counts nothing, tests no offer and revives no connection.
Uncounting ==
    /\ UNCHANGED <<countVars, maxInbound>> /\ Passed' \subseteq Passed
    /\ \A k \in Links : /\ Inbound(k)' => Inbound(k)
                        /\ link[k].role = "in" => link'[k].role = "in"

LEMMA UncountingStep == ASSUME IInv, CountInv, Uncounting PROVE CountInv'
<1>1. UNCHANGED <<inboundCount, counted, again, overlapped, maxInbound>> BY DEF Uncounting, countVars
<1>2. counted \in SUBSET Links BY DEF IInv, TypeOK
<1>3. \A l \in Links : Inbound(l)' => l \in counted BY DEF CountInv, Uncounting
<1>4. \A l \in counted : link'[l].role = "in" BY <1>2 DEF CountInv, Uncounting
<1>5. Cardinality(Passed') \in Nat /\ Cardinality(Passed') <= Cardinality(Passed)
  <2>1. Passed' \in SUBSET Passed BY DEF Uncounting
  <2> QED BY <2>1, Sizes, FS_Subset, FS_CardinalityType
<1>6. ~overlapped => inboundCount + Cardinality(Passed') <= maxInbound
  BY <1>5, Sizes DEF CountInv, IInv, TypeOK
<1> QED BY <1>1, <1>3, <1>4, <1>6 DEF CountInv

\* One link changes and keeps its role.
LEMMA OneLink ==
    ASSUME TypeOK, NEW l \in Links, NEW rec, link' = [link EXCEPT ![l] = rec], rec.role = link[l].role,
           rec.pc \notin Terminal => link[l].pc \notin Terminal
    PROVE \A k \in Links : /\ Inbound(k)' => Inbound(k)
                           /\ link[k].role = "in" => link'[k].role = "in"
<1>1. link'[l] = rec /\ \A k \in Links \ {l} : link'[k] = link[k] BY DEF TypeOK
<1> QED BY <1>1, Zenon DEF Inbound

\* A call that goes on, or ends, is no longer between the test and the count.
LEMMA CallCounts ==
    ASSUME IInv, NEW t \in Threads,
           SetRemoteDescription(t) \/ TakePending(t) \/ AddRemoteCandidate(t) \/ Apply(t)
    PROVE Uncounting
<1> DEFINE l == thr[t].link
<1>1. thr[t].at \in WithLink
  BY Zenon DEF SetRemoteDescription, TakePending, AddRemoteCandidate, Apply, WithLink
<1>2. l \in Links /\ link[l] \in LinkType /\ link \in [Links -> LinkType] /\ thr \in [Threads -> CallType]
  BY <1>1, CallLink DEF IInv, TypeOK
<1>3. UNCHANGED <<countVars, maxInbound>>
  BY DEF SetRemoteDescription, TakePending, AddRemoteCandidate, Apply, configVars
<1>4. \E q : thr' = [thr EXCEPT ![t] = q] /\ q.at # "offer"
  <2>1. CASE SetRemoteDescription(t) \/ AddRemoteCandidate(t)
    <3> DEFINE flag == [thr[t] EXCEPT !.at = "flag"]
               apply == [thr[t] EXCEPT !.at = "apply"]
    <3>1. flag.at = "flag" /\ apply.at = "apply" /\ Idle.at = "idle" BY <1>2 DEF CallType, Idle
    <3>2. \/ thr' = [thr EXCEPT ![t] = flag] \/ thr' = [thr EXCEPT ![t] = apply]
          \/ thr' = [thr EXCEPT ![t] = Idle]
      BY <2>1, <1>2 DEF SetRemoteDescription, AddRemoteCandidate
    <3> HIDE DEF flag, apply
    <3> QED BY <3>1, <3>2
  <2>2. CASE TakePending(t)
    <3> DEFINE q == [at |-> "apply", from |-> thr[t].from, link |-> l, cands |-> link[l].pending]
    <3>1. thr' = [thr EXCEPT ![t] = q] /\ q.at = "apply" BY <2>2 DEF TakePending, Calls
    <3> HIDE DEF q
    <3> QED BY <3>1
  <2>3. CASE Apply(t)
    <3>1. thr' = [thr EXCEPT ![t] = Idle] BY <2>3 DEF Apply
    <3> QED BY <3>1, IdleCall
  <2> QED BY <2>1, <2>2, <2>3
<1>5. Passed' \subseteq Passed BY <1>2, <1>4 DEF Passed
<1>6. \A k \in Links : link'[k].role = link[k].role /\ link'[k].pc = link[k].pc
  <2>1. CASE SetRemoteDescription(t)
    <3> DEFINE rec == [link[l] EXCEPT !.remote = TRUE]
    <3>1. link' = [link EXCEPT ![l] = rec] \/ link' = link BY <2>1, Zenon DEF SetRemoteDescription
    <3>2. rec.role = link[l].role /\ rec.pc = link[l].pc BY <1>2 DEF LinkType
    <3> HIDE DEF rec
    <3> QED BY <1>2, <3>1, <3>2
  <2>2. CASE TakePending(t) BY <1>2, <2>2 DEF TakePending, LinkType
  <2>3. CASE AddRemoteCandidate(t) BY <1>2, <2>3 DEF AddRemoteCandidate, LinkType
  <2>4. CASE Apply(t) BY <1>2, <2>4 DEF Apply, LinkType
  <2> QED BY <2>1, <2>2, <2>3, <2>4
<1> QED BY <1>3, <1>5, <1>6 DEF Uncounting, Inbound

LEMMA LinkCounts ==
    ASSUME IInv, NEW l \in Links, ChannelOpens(l) \/ Opening(l) \/ Disconnect(l) \/ Drop(l)
    PROVE Uncounting
<1> DEFINE opens == [link[l] EXCEPT !.phase = "opening", !.pc = "connected"]
           given == [link[l] EXCEPT !.phase = "given", !.held = TRUE]
           ready == [link[l] EXCEPT !.phase = "ready"]
           asked == [link[l] EXCEPT !.disconnectRequested = TRUE, !.closing = TRUE]
           dropped == [link[l] EXCEPT !.held = FALSE]
<1>1. link[l] \in LinkType /\ TypeOK BY DEF IInv, TypeOK
<1>2. UNCHANGED <<countVars, maxInbound, thr>>
  BY DEF ChannelOpens, Opening, AttachAndOnLink, SetHandler, Disconnect, Drop, NothingElse, configVars
<1>3. \/ link[l].pc = "new" /\ link' = [link EXCEPT ![l] = opens]
      \/ link' = [link EXCEPT ![l] = given]
      \/ link' = [link EXCEPT ![l] = ready]
      \/ link' = [link EXCEPT ![l] = asked]
      \/ link' = [link EXCEPT ![l] = dropped]
  BY Zenon DEF ChannelOpens, Opening, AttachAndOnLink, SetHandler, Disconnect, Drop, Changes
<1>4. /\ opens.role = link[l].role /\ given.role = link[l].role /\ ready.role = link[l].role
      /\ asked.role = link[l].role /\ dropped.role = link[l].role
      /\ given.pc = link[l].pc /\ ready.pc = link[l].pc /\ asked.pc = link[l].pc /\ dropped.pc = link[l].pc
  BY <1>1 DEF LinkType
<1>5. link[l].pc = "new" => link[l].pc \notin Terminal BY DEF Terminal
<1> HIDE DEF opens, given, ready, asked, dropped
<1>6. \A k \in Links : Inbound(k)' => Inbound(k)
  BY <1>1, <1>3, <1>4, <1>5, OneLink
<1>7. \A k \in Links : link[k].role = "in" => link'[k].role = "in"
  BY <1>1, <1>3, <1>4, <1>5, OneLink
<1>8. Passed' = Passed BY <1>2 DEF Passed
<1> QED BY <1>2, <1>6, <1>7, <1>8 DEF Uncounting

\* A connection ends: its link is counted out, or the step counts nothing.
LEMMA EndCounts ==
    ASSUME IInv, CountInv, NEW l \in Links, NEW st \in Terminal, StateChange(l, st)
    PROVE CountInv'
<1> DEFINE plain == [link[l] EXCEPT !.pc = st]
           rec == IF Attached(l) /\ HeldElsewhere(l) THEN FireOnce(l, st) ELSE plain
<1>1. link[l] \in LinkType /\ TypeOK BY DEF IInv, TypeOK
<1>2. link' = [link EXCEPT ![l] = rec] BY DEF StateChange, Changes
<1>3. rec.role = link[l].role /\ rec.pc = st
  <2>1. plain.role = link[l].role /\ plain.pc = st BY <1>1 DEF LinkType
  <2>2. FireOnce(l, st).role = link[l].role /\ FireOnce(l, st).pc = st BY <1>1 DEF FireOnce, LinkType
  <2> QED BY <2>1, <2>2
<1> HIDE DEF rec
<1>4. \A k \in Links : /\ Inbound(k)' => Inbound(k)
                       /\ link[k].role = "in" => link'[k].role = "in"
  BY <1>1, <1>2, <1>3, OneLink
<1>5. UNCHANGED <<maxInbound, thr>> /\ Passed' = Passed BY DEF StateChange, configVars, Passed
<1>6. ~Inbound(l)' BY <1>1, <1>2, <1>3 DEF Inbound, TypeOK
<1>7. CASE ~(Attached(l) /\ StateAlive)
  <2>1. UNCHANGED countVars BY <1>7 DEF StateChange, Gone, countVars
  <2> QED BY <1>4, <1>5, <2>1, UncountingStep DEF Uncounting
<1>8. CASE Attached(l) /\ StateAlive
  <2>1. /\ inboundCount' = IF link[l].role = "in" /\ inboundCount > 0 THEN inboundCount - 1 ELSE inboundCount
        /\ counted' = counted \ {l}
        /\ again' = (again \/ (link[l].role = "in" /\ l \notin counted))
        /\ overlapped' = overlapped
    BY <1>8, Zenon DEF StateChange, Gone
  <2>2. counted \in SUBSET Links /\ IsFiniteSet(counted) /\ Cardinality(counted) \in Nat /\ inboundCount \in Nat
    BY FS_CardinalityType DEF IInv, TypeOK, CountInv
  <2>3. \A k \in Links : Inbound(k)' => k \in counted' BY <1>4, <1>6, <2>1 DEF CountInv
  <2>4. \A k \in counted' : link'[k].role = "in" BY <1>4, <2>1, <2>2 DEF CountInv
  <2>5. IsFiniteSet(counted') BY <2>1, <2>2, FS_RemoveElement
  <2>6. ASSUME ~again' PROVE inboundCount' = Cardinality(counted')
    <3>1. ~again /\ (link[l].role = "in" => l \in counted) BY <2>1, <2>6
    <3>2. inboundCount = Cardinality(counted) BY <3>1 DEF CountInv
    <3>3. CASE l \in counted
      <4>1. link[l].role = "in" BY <3>3 DEF CountInv
      <4>2. Cardinality(counted') = Cardinality(counted) - 1 /\ Cardinality(counted') \in Nat
        BY <2>1, <2>2, <2>5, <3>3, FS_RemoveElement, FS_CardinalityType
      <4> QED BY <2>1, <2>2, <3>2, <4>1, <4>2
    <3>4. CASE l \notin counted
      <4>1. link[l].role # "in" /\ counted' = counted BY <2>1, <3>1, <3>4
      <4> QED BY <2>1, <3>2, <4>1
    <3> QED BY <3>3, <3>4
  <2>7. ~overlapped' => inboundCount' + Cardinality(Passed') <= maxInbound'
    BY <1>5, <2>1, <2>2, Sizes DEF CountInv, IInv, TypeOK
  <2> QED BY <2>3, <2>4, <2>5, <2>6, <2>7 DEF CountInv
<1> QED BY <1>7, <1>8

\* An offer passes the test, alone or beside another that is not counted yet.
LEMMA OfferCounts == ASSUME IInv, CountInv, NEW t \in Threads, NEW p \in Peers, OnOffer(t, p) PROVE CountInv'
<1> DEFINE q == [at |-> "offer", from |-> p, link |-> None, cands |-> {}]
<1>1. /\ thr' = [thr EXCEPT ![t] = q] /\ inboundCount < maxInbound
      /\ overlapped' = (overlapped \/ Overlaps)
      /\ UNCHANGED <<maxInbound, inboundCount, counted, again, link>>
  BY DEF OnOffer, Calls, configVars
<1>2. q.at = "offer" OBVIOUS
<1> HIDE DEF q
<1>3. ASSUME ~overlapped' PROVE Cardinality(Passed') = 1
  <2>1. \A u \in Threads : thr[u].at # "offer" BY <1>1, <1>3 DEF Overlaps
  <2>2. Passed' = {t} BY <1>1, <1>2, <2>1 DEF Passed, IInv, TypeOK
  <2> QED BY <2>2, FS_Singleton
<1>4. ~overlapped' => inboundCount' + Cardinality(Passed') <= maxInbound'
  BY <1>1, <1>3 DEF IInv, TypeOK
<1> QED BY <1>1, <1>4 DEF CountInv, Inbound

\* The new link is counted.
LEMMA HandleOfferCounts == ASSUME IInv, CountInv, NEW t \in Threads, HandleOffer(t) PROVE CountInv'
<1> DEFINE n == NewLink
           rec == Made("in", thr[t].from)
           q == [at |-> "describe", from |-> thr[t].from, link |-> n, cands |-> {}]
<1>1. /\ thr[t].at = "offer" /\ Unused # {} /\ inboundCount' = inboundCount + 1
      /\ counted' = counted \cup {n} /\ link' = [link EXCEPT ![n] = rec]
      /\ thr' = [thr EXCEPT ![t] = q] /\ UNCHANGED <<maxInbound, again, overlapped>>
  BY DEF HandleOffer, Calls, configVars
<1>2. n \in Links /\ link[n].role = "none" BY <1>1, NewLinkUnused DEF IInv, NoLink
<1>3. rec.role = "in" /\ q.at # "offer" BY DEF Made, NoLink
<1> HIDE DEF n, rec, q
<1>4. link'[n] = rec /\ \A k \in Links \ {n} : link'[k] = link[k] BY <1>1, <1>2 DEF IInv, TypeOK
<1>5. counted \in SUBSET Links /\ IsFiniteSet(counted) /\ Cardinality(counted) \in Nat /\ inboundCount \in Nat
  BY FS_CardinalityType DEF IInv, TypeOK, CountInv
<1>6. n \notin counted BY <1>2 DEF CountInv
<1>7. IsFiniteSet(counted') /\ Cardinality(counted') = Cardinality(counted) + 1
  BY <1>1, <1>5, <1>6, FS_AddElement
<1>8. \A k \in Links : Inbound(k)' => k \in counted' BY <1>1, <1>4 DEF CountInv, Inbound
<1>9. \A k \in counted' : link'[k].role = "in" BY <1>1, <1>3, <1>4, <1>5 DEF CountInv
<1>10. Cardinality(Passed') = Cardinality(Passed) - 1
  <2>1. t \in Passed /\ Passed' = Passed \ {t} BY <1>1, <1>3 DEF Passed, IInv, TypeOK
  <2> QED BY <2>1, Sizes, FS_RemoveElement
<1>11. ~overlapped' => inboundCount' + Cardinality(Passed') <= maxInbound'
  BY <1>1, <1>5, <1>10, Sizes DEF CountInv, IInv, TypeOK
<1>12. ~again' => inboundCount' = Cardinality(counted') BY <1>1, <1>5, <1>7 DEF CountInv
<1> QED BY <1>7, <1>8, <1>9, <1>11, <1>12 DEF CountInv

\* The rest of the transport: the join, answers, candidates and the end.
LEMMA OtherCounts ==
    ASSUME IInv,
           \/ JoinFails \/ Joined \/ OnLeft \/ DestroyTransport \/ UNCHANGED vars
           \/ \E t \in Threads : OnAnswer(t) \/ \E p \in Peers, c \in Cands : OnCandidate(t, p, c)
    PROVE Uncounting
<1>1. UNCHANGED <<countVars, maxInbound>>
  BY DEF JoinFails, Joined, OnLeft, DestroyTransport, vars, OnAnswer, OnCandidate, configVars
<1>2. Passed' \subseteq Passed
  <2>1. CASE thr' = thr BY <2>1 DEF Passed
  <2>2. ASSUME NEW t \in Threads, NEW q, thr' = [thr EXCEPT ![t] = q], q.at # "offer" PROVE Passed' \subseteq Passed
    BY <2>2 DEF Passed, IInv, TypeOK
  <2>3. ASSUME NEW t \in Threads, OnAnswer(t) PROVE Passed' \subseteq Passed
    <3> DEFINE q == [at |-> "answer", from |-> remoteId, link |-> peers[remoteId], cands |-> {}]
    <3>1. thr' = [thr EXCEPT ![t] = q] /\ q.at # "offer" BY <2>3 DEF OnAnswer, Calls
    <3> HIDE DEF q
    <3> QED BY <2>2, <3>1
  <2>4. ASSUME NEW t \in Threads, NEW p \in Peers, NEW c \in Cands, OnCandidate(t, p, c)
        PROVE Passed' \subseteq Passed
    <3> DEFINE q == [at |-> "candidate", from |-> p, link |-> peers[p], cands |-> {c}]
    <3>1. (thr' = thr \/ thr' = [thr EXCEPT ![t] = q]) /\ q.at # "offer" BY <2>4 DEF OnCandidate, Calls
    <3> HIDE DEF q
    <3> QED BY <2>1, <2>2, <3>1
  <2>5. JoinFails \/ Joined \/ OnLeft \/ DestroyTransport \/ UNCHANGED vars => thr' = thr
    BY DEF JoinFails, Joined, OnLeft, DestroyTransport, vars
  <2> QED BY <2>1, <2>3, <2>4, <2>5
<1>3. \A k \in Links : /\ Inbound(k)' => Inbound(k)
                       /\ link[k].role = "in" => link'[k].role = "in"
  <2>1. CASE link' = link BY <2>1 DEF Inbound
  <2>2. CASE link' = [link EXCEPT ![NewLink] = Made("out", remoteId)] /\ joined = "no"
    <3>1. Unused # {} BY <2>2, DcRtcAssumption, Zenon DEF IInv, LifeInv, Unused
    <3>2. NewLink \in Links /\ link[NewLink].role = "none" BY <3>1, NewLinkUnused DEF IInv, NoLink
    <3>3. Made("out", remoteId).role = "out" BY DEF Made, NoLink
    <3>4. /\ link'[NewLink] = Made("out", remoteId)
          /\ \A k \in Links \ {NewLink} : link'[k] = link[k]
      BY <2>2, <3>2 DEF IInv, TypeOK
    <3> QED BY <3>2, <3>3, <3>4 DEF Inbound
  <2>3. Joined => link' = link \/ (link' = [link EXCEPT ![NewLink] = Made("out", remoteId)] /\ joined = "no")
    BY DEF Joined, OpenOfferer
  <2>4. \/ JoinFails \/ OnLeft \/ DestroyTransport \/ UNCHANGED vars
        \/ \E t \in Threads : OnAnswer(t) \/ \E p \in Peers, c \in Cands : OnCandidate(t, p, c)
        => link' = link
    BY Zenon DEF JoinFails, OnLeft, DestroyTransport, vars, OnAnswer, OnCandidate
  <2> QED BY <2>1, <2>2, <2>3, <2>4
<1> QED BY <1>1, <1>2, <1>3 DEF Uncounting

LEMMA CountStep == IInv /\ CountInv /\ [Next]_vars => CountInv'
<1> SUFFICES ASSUME IInv, CountInv, [Next]_vars PROVE CountInv' OBVIOUS
<1>1. ASSUME NEW l \in Links, Breaks(l) \/ Closes(l) PROVE CountInv'
  <2>1. PICK st \in Terminal : StateChange(l, st) BY <1>1 DEF Breaks, Closes, Terminal
  <2> QED BY <2>1, EndCounts
<1>2. ASSUME NEW t \in Threads, OnMessage(t) PROVE CountInv'
  BY <1>2, OfferCounts, OtherCounts, UncountingStep DEF OnMessage
<1>3. ASSUME NEW t \in Threads, Handling(t) PROVE CountInv'
  BY <1>3, HandleOfferCounts, CallCounts, UncountingStep DEF Handling
<1>4. ASSUME NEW l \in Links, ChannelOpens(l) \/ Opening(l) \/ Disconnect(l) \/ Drop(l) PROVE CountInv'
  BY <1>4, LinkCounts, UncountingStep
<1>5. CASE JoinFails \/ Joined \/ OnLeft \/ DestroyTransport \/ UNCHANGED vars
  BY <1>5, OtherCounts, UncountingStep
<1> HIDE DEF IInv, CountInv
<1> QED BY <1>1, <1>2, <1>3, <1>4, <1>5 DEF Next

\* maxInboundConnections, for any number of links and threads: while onGone ran at
\* most once for each link, the inbound connections that have not ended are counted
\* and the count is within the limit; offers that overlap on the signaling threads
\* between the test and the count exceed it by less than the number of threads.
THEOREM LimitRespected == Spec => []WithinLimit
<1>1. Init => CountInv
  <2> SUFFICES ASSUME Init PROVE CountInv OBVIOUS
  <2>1. Passed = {} BY DEF Init, Passed, Idle
  <2>2. Cardinality(Passed) = 0 /\ IsFiniteSet({}) /\ Cardinality({}) = 0 BY <2>1, FS_EmptySet
  <2>3. \A l \in Links : link[l].role = "none" BY DEF Init, NoLink
  <2>4. counted = {} /\ inboundCount = 0 /\ maxInbound \in Nat BY DcRtcAssumption DEF Init
  <2> QED BY <2>2, <2>3, <2>4 DEF CountInv, Inbound
<1>2. IInv /\ CountInv => WithinLimit
  <2> SUFFICES ASSUME IInv, CountInv, ~again
               PROVE /\ {l \in Links : link[l].role = "in" /\ link[l].pc \notin Terminal} \subseteq counted
                     /\ Cardinality(counted) = inboundCount
                     /\ inboundCount <= maxInbound + IF overlapped THEN Cardinality(Threads) - 1 ELSE 0
    BY Zenon DEF WithinLimit
  <2>1. inboundCount \in Nat /\ maxInbound \in Nat BY DEF IInv, TypeOK
  <2>2. CASE overlapped BY <2>1, <2>2, Sizes DEF IInv, LimitInv, CountInv, Inbound
  <2>3. CASE ~overlapped BY <2>1, <2>3, Sizes DEF CountInv, Inbound
  <2> QED BY <2>2, <2>3
<1> QED BY <1>1, <1>2, CountStep, Invariance, PTL DEF Spec
=============================================================================
