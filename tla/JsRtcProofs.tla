---------------------------- MODULE JsRtcProofs ----------------------------
(* Proofs about JsRtc, for any peers, candidates, contexts and limit.        *)
EXTENDS JsRtc, FiniteSetTheorems, TLAPS

ContextType ==
    [mem : {"none", "live", "linked", "freed"}, role : {"none", "in", "out"},
     peer : Peers \cup {None}, entry : BOOLEAN, offered : BOOLEAN, descSet : BOOLEAN,
     local : BOOLEAN, dc : {"none", "connecting", "open", "closed"}, closeEvent : BOOLEAN,
     disconnectRequested : BOOLEAN, told : {0, 1},
     pending : SUBSET Cands, applied : SUBSET Cands, accepted : SUBSET Cands]

TypeOK ==
    /\ remoteId \in Remotes /\ maxInbound \in Nat
    /\ joined \in {"no", "joined", "failed", "lost", "gone"}
    /\ peers \in [Peers -> Contexts \cup {None}]
    /\ inboundCount \in Nat
    /\ ctx \in [Contexts -> ContextType]
    /\ unsent \in SUBSET (Peers \X Cands)

\* Nothing is made before the join, an unused context is blank, the map goes with
\* the transport.
LifeInv ==
    /\ joined = "no" => \A c \in Contexts : ctx[c].mem = "none"
    /\ joined = "gone" => \A p \in Peers : peers[p] = None
    /\ \A c \in Contexts : ctx[c].mem = "none" => ctx[c] = NoContext

IInv == TypeOK /\ LifeInv /\ PeersLive /\ InboundExact /\ CandidatesKept
-----------------------------------------------------------------------------
\* Closed() keeps what a context is, and its candidates.
LEMMA ClosedFrame ==
    ASSUME NEW rec \in ContextType
    PROVE /\ Closed(rec) \in ContextType
          /\ Closed(rec).mem = rec.mem /\ Closed(rec).role = rec.role /\ Closed(rec).peer = rec.peer
          /\ Closed(rec).descSet = rec.descSet /\ Closed(rec).pending = rec.pending
          /\ Closed(rec).applied = rec.applied /\ Closed(rec).accepted = rec.accepted
<1>1. CASE rec.entry
  <2> DEFINE dc == IF rec.dc = "none" THEN rec.dc ELSE "closed"
             event == rec.closeEvent \/ rec.dc \in {"connecting", "open"}
  <2>1. Closed(rec) = [rec EXCEPT !.entry = FALSE, !.dc = dc, !.closeEvent = event]
    BY <1>1 DEF Closed
  <2>2. dc \in {"none", "connecting", "open", "closed"} /\ event \in BOOLEAN
    OBVIOUS
  <2> HIDE DEF dc, event
  <2>3. Closed(rec) \in ContextType
    <3> DEFINE a == [rec EXCEPT !.entry = FALSE]
               b == [a EXCEPT !.dc = dc]
    <3>1. a \in ContextType BY ZenonT(30) DEF ContextType
    <3> HIDE DEF a
    <3>2. b \in ContextType BY <2>2, <3>1 DEF ContextType
    <3> HIDE DEF b
    <3>3. [b EXCEPT !.closeEvent = event] \in ContextType BY <2>2, <3>2 DEF ContextType
    <3> QED BY <2>1, <3>3 DEF a, b
  <2>4. /\ Closed(rec).mem = rec.mem /\ Closed(rec).role = rec.role /\ Closed(rec).peer = rec.peer
        /\ Closed(rec).descSet = rec.descSet
    BY <2>1 DEF ContextType
  <2>5. /\ Closed(rec).pending = rec.pending /\ Closed(rec).applied = rec.applied
        /\ Closed(rec).accepted = rec.accepted
    BY <2>1 DEF ContextType
  <2> QED BY <2>3, <2>4, <2>5
<1>2. CASE ~rec.entry BY <1>2 DEF Closed, ContextType
<1> QED BY <1>1, <1>2

LEMMA NewContextUnused ==
    ASSUME Unused # {}
    PROVE NewContext \in Contexts /\ ctx[NewContext].mem = "none"
BY DEF NewContext, Unused

\* A context that is in use stays what it is: a signaling message, an event of the
\* browser or Disconnect() changes its connection only.
Same(c, rec) ==
    /\ rec \in ContextType
    /\ rec.mem = ctx[c].mem /\ rec.role = ctx[c].role /\ rec.peer = ctx[c].peer

\* Candidates of one context.
Kept(rec) ==
    /\ rec.applied # {} => rec.descSet
    /\ rec.accepted = rec.pending \cup rec.applied
    /\ rec.descSet => rec.pending = {}

Frame(c) ==
    \E rec : Changes(c, rec) /\ Same(c, rec) /\ Kept(rec) /\ ctx[c].mem # "none"

Connection(c) ==
    \/ RemoteDescriptionSet(c) \/ OnLocalDescription(c) \/ OnDataChannel(c) \/ ChannelCloses(c)
    \/ OnDataChannelClose(c) \/ Disconnect(c)

LEMMA ConnectionFrame ==
    ASSUME TypeOK, LifeInv, CandidatesKept, NEW c \in Contexts, Connection(c)
    PROVE Frame(c) /\ Others
<1>1. ctx[c] \in ContextType /\ Kept(ctx[c])
  BY DEF TypeOK, CandidatesKept, Kept
<1>2. ctx[c].entry \/ ctx[c].closeEvent \/ HasLink(c) => ctx[c].mem # "none"
  BY DEF LifeInv, NoContext, HasLink
<1>3. CASE RemoteDescriptionSet(c)
  <2> DEFINE rec == [ctx[c] EXCEPT !.descSet = TRUE, !.pending = {}, !.applied = @ \cup ctx[c].pending]
  <2>1. Changes(c, rec) /\ Others /\ ctx[c].entry BY <1>3 DEF RemoteDescriptionSet
  <2>2. Same(c, rec) /\ Kept(rec) BY <1>1, ZenonT(30) DEF Same, Kept, ContextType
  <2> QED BY <1>2, <2>1, <2>2 DEF Frame
<1>4. CASE OnLocalDescription(c)
  <2> DEFINE rec == [ctx[c] EXCEPT !.local = TRUE]
  <2>1. Changes(c, rec) /\ Others /\ ctx[c].entry BY <1>4 DEF OnLocalDescription
  <2>2. Same(c, rec) /\ Kept(rec) BY <1>1, ZenonT(30) DEF Same, Kept, ContextType
  <2> QED BY <1>2, <2>1, <2>2 DEF Frame
<1>5. CASE OnDataChannel(c)
  <2> DEFINE rec == [ctx[c] EXCEPT !.dc = "connecting"]
  <2>1. Changes(c, rec) /\ Others /\ ctx[c].entry BY <1>5 DEF OnDataChannel
  <2>2. Same(c, rec) /\ Kept(rec) BY <1>1 DEF Same, Kept, ContextType
  <2> QED BY <1>2, <2>1, <2>2 DEF Frame
<1>6. CASE ChannelCloses(c)
  <2> DEFINE rec == [ctx[c] EXCEPT !.dc = "closed", !.closeEvent = TRUE]
  <2>1. Changes(c, rec) /\ Others /\ ctx[c].entry BY <1>6 DEF ChannelCloses
  <2>2. Same(c, rec) /\ Kept(rec) BY <1>1, ZenonT(30) DEF Same, Kept, ContextType
  <2> QED BY <1>2, <2>1, <2>2 DEF Frame
<1>7. CASE OnDataChannelClose(c)
  <2>1. PICK told \in OnClose(ctx[c]) : Changes(c, [ctx[c] EXCEPT !.closeEvent = FALSE, !.told = told])
    BY <1>7, Zenon DEF OnDataChannelClose
  <2>2. told \in {0, 1} BY <1>1 DEF OnClose, ContextType
  <2> DEFINE rec == [ctx[c] EXCEPT !.closeEvent = FALSE, !.told = told]
  <2>3. Same(c, rec) /\ Kept(rec) BY <1>1, <2>2, ZenonT(30) DEF Same, Kept, ContextType
  <2> QED BY <1>2, <1>7, <2>1, <2>3 DEF Frame, OnDataChannelClose
<1>8. CASE Disconnect(c)
  <2> DEFINE closed == Closed(ctx[c])
             rec == [closed EXCEPT !.disconnectRequested = TRUE]
  <2>1. Changes(c, rec) /\ Others /\ HasLink(c) BY <1>8 DEF Disconnect
  <2>2. Same(c, closed) /\ Kept(closed) BY <1>1, ClosedFrame DEF Same, Kept
  <2> HIDE DEF closed
  <2>3. Same(c, rec) /\ Kept(rec) BY <2>2, Zenon DEF Same, Kept, ContextType
  <2> QED BY <1>2, <2>1, <2>3 DEF Frame
<1> QED BY <1>3, <1>4, <1>5, <1>6, <1>7, <1>8 DEF Connection

\* SetRemoteAnswer and AddIceCandidate reach a context in use.
LEMMA SignalingFrame ==
    ASSUME TypeOK, LifeInv, PeersLive, CandidatesKept, NEW p \in Peers,
           SetRemoteAnswer(p) \/ \E i \in Cands : AddIceCandidate(p, i)
    PROVE /\ UNCHANGED ctx \/ \E c \in Contexts : Frame(c)
          /\ unsent' \subseteq unsent
          /\ UNCHANGED <<options, joined, peers, inboundCount>>
<1> DEFINE c == peers[p]
<1>1. c # None => c \in Contexts /\ ctx[c] \in ContextType /\ Kept(ctx[c]) /\ ctx[c].mem # "none"
  BY DEF TypeOK, PeersLive, CandidatesKept, Kept
<1>2. CASE SetRemoteAnswer(p)
  <2> DEFINE rec == [ctx[c] EXCEPT !.offered = TRUE]
  <2>1. Changes(c, rec) /\ Others /\ c # None BY <1>2 DEF SetRemoteAnswer
  <2>2. Same(c, rec) /\ Kept(rec) BY <1>1, <2>1, ZenonT(30) DEF Same, Kept, ContextType
  <2> QED BY <1>1, <2>1, <2>2 DEF Frame, Others
<1>3. ASSUME NEW i \in Cands, AddIceCandidate(p, i)
      PROVE  /\ UNCHANGED ctx \/ \E d \in Contexts : Frame(d)
             /\ unsent' \subseteq unsent
             /\ UNCHANGED <<options, joined, peers, inboundCount>>
  <2> DEFINE now == [ctx[c] EXCEPT !.accepted = @ \cup {i}, !.applied = @ \cup {i}]
             later == [ctx[c] EXCEPT !.accepted = @ \cup {i}, !.pending = @ \cup {i}]
             rec == IF ctx[c].descSet THEN now ELSE later
  <2>1. UNCHANGED ctx \/ (c # None /\ Changes(c, rec)) BY <1>3, ZenonT(30) DEF AddIceCandidate
  <2>2. ASSUME c # None PROVE Same(c, rec) /\ Kept(rec)
    <3>1. CASE ctx[c].descSet BY <1>1, <2>2, <3>1, ZenonT(30) DEF Same, Kept, ContextType
    <3>2. CASE ~ctx[c].descSet BY <1>1, <2>2, <3>2, ZenonT(30) DEF Same, Kept, ContextType
    <3> QED BY <3>1, <3>2
  <2>3. UNCHANGED ctx \/ \E d \in Contexts : Frame(d) BY <1>1, <2>1, <2>2 DEF Frame
  <2> QED BY <1>3, <2>3, Zenon DEF AddIceCandidate
<1> QED BY <1>2, <1>3

-----------------------------------------------------------------------------
\* Steps that leave the contexts what they are keep the invariant.
LEMMA FrameStep ==
    ASSUME IInv, UNCHANGED ctx \/ \E c \in Contexts : Frame(c),
           unsent' \subseteq unsent, UNCHANGED <<options, joined, peers, inboundCount>>
    PROVE IInv'
<1>1. ASSUME NEW c \in Contexts, Frame(c) PROVE IInv'
  <2>1. PICK rec : /\ ctx' = [ctx EXCEPT ![c] = rec] /\ Kept(rec) /\ rec \in ContextType
                   /\ rec.mem = ctx[c].mem /\ rec.role = ctx[c].role /\ rec.peer = ctx[c].peer
                   /\ ctx[c].mem # "none"
    BY <1>1, Zenon DEF Frame, Changes, Same
  <2>2. TypeOK' BY <2>1 DEF IInv, TypeOK, options
  <2>3. \A d \in Contexts : /\ ctx'[d].mem = ctx[d].mem /\ ctx'[d].role = ctx[d].role
                            /\ ctx'[d].peer = ctx[d].peer
                            /\ ctx[d].mem = "none" => ctx'[d] = ctx[d]
    BY <2>1 DEF IInv, TypeOK
  <2>4. LifeInv' BY <2>3 DEF IInv, LifeInv
  <2>5. PeersLive' BY <2>3 DEF IInv, TypeOK, PeersLive
  <2>6. {d \in Contexts : ctx'[d].role = "in" /\ ctx'[d].mem # "freed"}
          = {d \in Contexts : ctx[d].role = "in" /\ ctx[d].mem # "freed"}
    BY <2>3
  <2>7. InboundExact' BY <2>6 DEF IInv, InboundExact, StateAlive, options
  <2>8. CandidatesKept' BY <2>1 DEF IInv, TypeOK, CandidatesKept, Kept
  <2> QED BY <2>2, <2>4, <2>5, <2>7, <2>8 DEF IInv
<1>2. CASE UNCHANGED ctx
  BY <1>2 DEF IInv, TypeOK, LifeInv, PeersLive, InboundExact, StateAlive, CandidatesKept, options
<1> QED BY <1>1, <1>2

\* A new context enters the map under its peer: Joined and HandleOffer.
Makes(p, rec) ==
    /\ Unused # {}
    /\ peers' = [peers EXCEPT ![p] = NewContext]
    /\ Changes(NewContext, rec)
    /\ rec \in ContextType /\ rec.mem = "live" /\ rec.peer = p /\ rec.role # "none"
    /\ Kept(rec)
    /\ joined' = "joined" /\ UNCHANGED <<options, unsent>>
    /\ \/ rec.role = "in" /\ inboundCount < maxInbound /\ inboundCount' = inboundCount + 1
       \/ rec.role # "in" /\ UNCHANGED inboundCount

LEMMA InboundFinite ==
    LET In == {c \in Contexts : ctx[c].role = "in" /\ ctx[c].mem # "freed"}
    IN  IsFiniteSet(In) /\ Cardinality(In) \in Nat
<1> DEFINE In == {c \in Contexts : ctx[c].role = "in" /\ ctx[c].mem # "freed"}
<1>1. IsFiniteSet(Contexts) /\ In \in SUBSET Contexts BY JsRtcAssumption
<1> HIDE DEF In
<1>2. IsFiniteSet(In) BY <1>1, FS_Subset
<1>3. Cardinality(In) \in Nat BY <1>2, FS_CardinalityType
<1> QED BY <1>2, <1>3 DEF In

LEMMA MakesStep ==
    ASSUME IInv, joined # "gone", NEW p \in Peers, NEW rec, Makes(p, rec)
    PROVE IInv'
<1> DEFINE n == NewContext
           In == {c \in Contexts : ctx[c].role = "in" /\ ctx[c].mem # "freed"}
<1>1. n \in Contexts /\ ctx[n].mem = "none" /\ ctx[n] = NoContext
  BY NewContextUnused DEF Makes, IInv, LifeInv
<1>2. /\ ctx' = [ctx EXCEPT ![n] = rec] /\ rec \in ContextType /\ Kept(rec)
      /\ rec.mem = "live" /\ rec.peer = p
      /\ peers' = [peers EXCEPT ![p] = n] /\ joined' = "joined" /\ UNCHANGED <<options, unsent>>
  BY DEF Makes, Changes
<1>3. \/ rec.role = "in" /\ inboundCount < maxInbound /\ inboundCount' = inboundCount + 1
      \/ rec.role # "in" /\ UNCHANGED inboundCount
  BY DEF Makes
<1> HIDE DEF n
<1>4. TypeOK' BY <1>1, <1>2, <1>3 DEF IInv, TypeOK, options
<1>5. ctx'[n] = rec /\ \A d \in Contexts \ {n} : ctx'[d] = ctx[d]
  BY <1>1, <1>2 DEF IInv, TypeOK
<1>6. LifeInv' BY <1>1, <1>2, <1>5 DEF IInv, LifeInv
<1>7. PeersLive'
  <2> SUFFICES ASSUME NEW q \in Peers, peers'[q] # None
               PROVE  ctx'[peers'[q]].mem \in {"live", "linked"} /\ ctx'[peers'[q]].peer = q
    BY DEF PeersLive
  <2>1. CASE q = p
    <3>1. peers'[q] = n BY <1>2, <2>1 DEF IInv, TypeOK
    <3> QED BY <1>2, <1>5, <2>1, <3>1
  <2>2. CASE q # p
    <3>1. peers'[q] = peers[q] /\ peers[q] \in Contexts BY <1>2, <2>2 DEF IInv, TypeOK
    <3>2. ctx[peers[q]].mem \in {"live", "linked"} /\ ctx[peers[q]].peer = q
      BY <3>1 DEF IInv, PeersLive
    <3>3. peers[q] # n BY <1>1, <3>2
    <3> QED BY <1>5, <3>1, <3>2, <3>3
  <2> QED BY <2>1, <2>2
<1>8. CandidatesKept' BY <1>2, <1>5 DEF IInv, CandidatesKept, Kept
<1>9. InboundExact'
  <2> DEFINE In2 == {c \in Contexts : ctx'[c].role = "in" /\ ctx'[c].mem # "freed"}
  <2>1. IsFiniteSet(In) /\ Cardinality(In) \in Nat /\ n \notin In
    BY InboundFinite, <1>1 DEF NoContext
  <2>2. inboundCount = Cardinality(In) /\ inboundCount <= maxInbound
    BY DEF IInv, InboundExact, StateAlive
  <2>3. SUFFICES inboundCount' = Cardinality(In2) /\ inboundCount' <= maxInbound'
    BY DEF InboundExact, StateAlive
  <2> maxInbound' = maxInbound /\ maxInbound \in Nat BY <1>2 DEF Makes, options, IInv, TypeOK
  <2>4. CASE rec.role = "in"
    <3>1. In2 = In \cup {n} BY <1>1, <1>2, <1>5, <2>4
    <3> HIDE DEF In, In2
    <3>2. Cardinality(In2) = Cardinality(In) + 1 BY <2>1, <3>1, FS_AddElement
    <3> QED BY <1>3, <2>1, <2>2, <2>4, <3>2, JsRtcAssumption
  <2>5. CASE rec.role # "in"
    <3>1. In2 = In BY <1>1, <1>2, <1>5, <2>1, <2>5
    <3> HIDE DEF In, In2
    <3> QED BY <1>3, <2>2, <2>5, <3>1
  <2> QED BY <2>4, <2>5
<1> QED BY <1>4, <1>6, <1>7, <1>8, <1>9 DEF IInv

\* dc.onopen gives the context to a link.
LEMMA LinkStep ==
    ASSUME IInv, NEW c \in Contexts, NEW rec \in ContextType, Changes(c, rec), Kept(rec),
           ctx[c].mem = "live", rec.mem = "linked", rec.role = ctx[c].role, rec.peer = ctx[c].peer,
           UNCHANGED <<options, joined, peers, inboundCount, unsent>>
    PROVE IInv'
<1>1. ctx' = [ctx EXCEPT ![c] = rec] BY DEF Changes
<1>2. ctx'[c] = rec /\ \A d \in Contexts \ {c} : ctx'[d] = ctx[d] BY <1>1 DEF IInv, TypeOK
<1>3. TypeOK' BY <1>1 DEF IInv, TypeOK, options
<1>4. LifeInv' BY <1>2 DEF IInv, LifeInv
<1>5. PeersLive' BY <1>2 DEF IInv, TypeOK, PeersLive
<1>6. {d \in Contexts : ctx'[d].role = "in" /\ ctx'[d].mem # "freed"}
        = {d \in Contexts : ctx[d].role = "in" /\ ctx[d].mem # "freed"}
  BY <1>2
<1>7. InboundExact' BY <1>6, ZenonT(30) DEF IInv, InboundExact, StateAlive, options
<1>8. CandidatesKept' BY <1>2 DEF IInv, CandidatesKept, Kept
<1> QED BY <1>3, <1>4, <1>5, <1>7, <1>8 DEF IInv

\* A context is deleted: DestroyLink, and a channel that opens without State.
LEMMA FreeStep ==
    ASSUME IInv, NEW c \in Contexts, NEW rec \in ContextType, Changes(c, rec), Kept(rec),
           ctx[c].mem \in {"live", "linked"}, rec.mem = "freed", rec.role = ctx[c].role,
           IF StateAlive THEN Gone(c) ELSE UNCHANGED <<peers, inboundCount>>,
           UNCHANGED <<options, joined, unsent>>
    PROVE IInv'
<1> DEFINE In == {d \in Contexts : ctx[d].role = "in" /\ ctx[d].mem # "freed"}
           In2 == {d \in Contexts : ctx'[d].role = "in" /\ ctx'[d].mem # "freed"}
<1>1. ctx' = [ctx EXCEPT ![c] = rec] BY DEF Changes
<1>2. ctx'[c] = rec /\ \A d \in Contexts \ {c} : ctx'[d] = ctx[d] BY <1>1 DEF IInv, TypeOK
<1>3. TypeOK' BY <1>1 DEF IInv, TypeOK, Gone, options
<1>4. \A p \in Peers : peers'[p] # None => peers'[p] = peers[p] /\ peers[p] # c
  <2> SUFFICES ASSUME NEW p \in Peers, peers'[p] # None PROVE peers'[p] = peers[p] /\ peers[p] # c
    OBVIOUS
  <2>1. CASE StateAlive
    <3>1. peers' = [peers EXCEPT ![ctx[c].peer] = None] BY <2>1 DEF Gone
    <3>2. p # ctx[c].peer /\ peers'[p] = peers[p] BY <3>1 DEF IInv, TypeOK
    <3>3. peers[p] # c BY <3>2 DEF IInv, PeersLive
    <3> QED BY <3>2, <3>3
  <2>2. CASE ~StateAlive BY <2>2 DEF IInv, LifeInv, StateAlive
  <2> QED BY <2>1, <2>2
<1>5. joined # "no" BY DEF IInv, LifeInv
<1>6. joined' = "gone" => \A p \in Peers : peers'[p] = None BY <1>4 DEF IInv, LifeInv
<1>7. LifeInv' BY <1>2, <1>5, <1>6 DEF IInv, LifeInv
<1>8. PeersLive' BY <1>2, <1>4 DEF IInv, TypeOK, PeersLive
<1>9. CandidatesKept' BY <1>2 DEF IInv, CandidatesKept, Kept
<1>10. InboundExact'
  <2> SUFFICES ASSUME StateAlive PROVE inboundCount' = Cardinality(In2) /\ inboundCount' <= maxInbound'
    BY DEF InboundExact, StateAlive
  <2>1. IsFiniteSet(In) /\ Cardinality(In) \in Nat BY InboundFinite
  <2>2. inboundCount = Cardinality(In) /\ inboundCount <= maxInbound BY DEF IInv, InboundExact
  <2> maxInbound' = maxInbound /\ maxInbound \in Nat BY DEF options, IInv, TypeOK
  <2>3. In2 = In \ {c} BY <1>2
  <2>4. c \in In <=> ctx[c].role = "in" OBVIOUS
  <2>5. inboundCount' = IF ctx[c].role = "in" /\ inboundCount > 0 THEN inboundCount - 1 ELSE inboundCount
    BY DEF Gone
  <2> HIDE DEF In, In2
  <2>6. Cardinality(In2) = IF c \in In THEN Cardinality(In) - 1 ELSE Cardinality(In)
    BY <2>1, <2>3, FS_RemoveElement, ZenonT(30)
  <2>7. c \in In => Cardinality(In) # 0 BY <2>1, FS_EmptySet
  <2> QED BY <2>1, <2>2, <2>4, <2>5, <2>6, <2>7, JsRtcAssumption
<1> QED BY <1>3, <1>7, <1>8, <1>9, <1>10 DEF IInv

-----------------------------------------------------------------------------
LEMMA InductiveStep == IInv /\ [Next]_vars => IInv'
<1> SUFFICES ASSUME IInv, [Next]_vars PROVE IInv'
  OBVIOUS
<1>1. CASE JoinFails
  BY <1>1 DEF JoinFails, IInv, TypeOK, LifeInv, PeersLive, InboundExact, StateAlive, CandidatesKept, options
<1>2. CASE Joined
  <2>1. CASE remoteId = None
    BY <1>2, <2>1 DEF Joined, IInv, TypeOK, LifeInv, PeersLive, InboundExact, StateAlive, CandidatesKept, options
  <2>2. CASE remoteId # None
    <3> DEFINE rec == SetupOfferer([NoContext EXCEPT !.mem = "live", !.role = "out", !.peer = remoteId])
    <3>1. remoteId \in Peers /\ Unused # {}
      BY <1>2, <2>2, JsRtcAssumption DEF Joined, IInv, TypeOK, LifeInv, Unused
    <3>2. /\ rec \in ContextType /\ rec.mem = "live" /\ rec.peer = remoteId /\ rec.role = "out"
          /\ Kept(rec)
      BY <3>1, ZenonT(30) DEF ContextType, NoContext, SetupOfferer, Kept
    <3>3. /\ peers' = [peers EXCEPT ![remoteId] = NewContext] /\ Changes(NewContext, rec)
          /\ joined' = "joined" /\ UNCHANGED <<options, inboundCount, unsent>> /\ joined = "no"
      BY <1>2, <2>2 DEF Joined, OpenOfferer
    <3> HIDE DEF rec
    <3>4. Makes(remoteId, rec) BY <3>1, <3>2, <3>3 DEF Makes
    <3> QED BY <3>1, <3>3, <3>4, MakesStep
  <2> QED BY <2>1, <2>2
<1>3. ASSUME NEW p \in Peers, HandleOffer(p) PROVE IInv'
  <2> DEFINE rec == SetupAnswerer([NoContext EXCEPT !.mem = "live", !.role = "in", !.peer = p])
  <2>1. rec \in ContextType /\ rec.mem = "live" /\ rec.peer = p /\ rec.role = "in" /\ Kept(rec)
    BY ZenonT(30) DEF ContextType, NoContext, SetupAnswerer, Kept
  <2>2. /\ peers' = [peers EXCEPT ![p] = NewContext] /\ Changes(NewContext, rec) /\ Unused # {}
        /\ joined = "joined" /\ UNCHANGED <<options, joined, unsent>>
        /\ inboundCount < maxInbound /\ inboundCount' = inboundCount + 1
    BY <1>3 DEF HandleOffer
  <2> HIDE DEF rec
  <2>3. Makes(p, rec) BY <2>1, <2>2 DEF Makes
  <2> QED BY <2>2, <2>3, MakesStep
<1>4. ASSUME NEW p \in Peers, SetRemoteAnswer(p) \/ \E i \in Cands : AddIceCandidate(p, i) PROVE IInv'
  BY <1>4, SignalingFrame, FrameStep DEF IInv
<1>0. CASE OnLeft
  <2>1. joined = "joined" /\ joined' = "lost" /\ UNCHANGED <<remoteId, maxInbound, peers, inboundCount, ctx, unsent>>
    BY <1>0 DEF OnLeft, options
  <2>2. TypeOK' BY <2>1 DEF IInv, TypeOK
  <2>3. LifeInv' BY <2>1 DEF IInv, LifeInv
  <2>4. PeersLive' /\ CandidatesKept' BY <2>1 DEF IInv, PeersLive, CandidatesKept
  <2>5. InboundExact' BY <2>1 DEF IInv, InboundExact, StateAlive
  <2> QED BY <2>2, <2>3, <2>4, <2>5 DEF IInv
<1>5. CASE DestroyTransport
  BY <1>5 DEF DestroyTransport, IInv, TypeOK, LifeInv, PeersLive, InboundExact, StateAlive, CandidatesKept, options
<1>6. ASSUME NEW c \in Contexts, Connection(c) PROVE IInv'
  <2>1. Frame(c) /\ Others BY <1>6, ConnectionFrame DEF IInv
  <2> QED BY <2>1, FrameStep DEF Others
<1>7. ASSUME NEW c \in Contexts, OnDataChannelOpen(c) PROVE IInv'
  <2>1. ctx[c] \in ContextType /\ Kept(ctx[c]) BY DEF IInv, TypeOK, CandidatesKept, Kept
  <2>2. CASE StateAlive
    <3> DEFINE rec == [ctx[c] EXCEPT !.mem = "linked", !.dc = "open"]
    <3>1. Changes(c, rec) /\ Others /\ ctx[c].mem = "live" BY <1>7, <2>2 DEF OnDataChannelOpen
    <3>2. /\ rec \in ContextType /\ Kept(rec) /\ rec.mem = "linked" /\ rec.role = ctx[c].role
          /\ rec.peer = ctx[c].peer
      BY <2>1, ZenonT(30) DEF ContextType, Kept
    <3> HIDE DEF rec
    <3> QED BY <3>1, <3>2, LinkStep DEF Others
  <2>3. CASE ~StateAlive
    <3> DEFINE open == [ctx[c] EXCEPT !.dc = "open"]
               closed == Closed(open)
               rec == [closed EXCEPT !.mem = "freed"]
    <3>1. Changes(c, rec) /\ Others /\ ctx[c].mem = "live" BY <1>7, <2>3 DEF OnDataChannelOpen
    <3>2. open \in ContextType /\ Kept(open) /\ open.role = ctx[c].role
      BY <2>1 DEF ContextType, Kept
    <3> HIDE DEF open
    <3>3. closed \in ContextType /\ Kept(closed) /\ closed.role = ctx[c].role
      BY <3>2, ClosedFrame DEF Kept
    <3> HIDE DEF closed
    <3>4. rec \in ContextType /\ Kept(rec) /\ rec.mem = "freed" /\ rec.role = ctx[c].role
      BY <3>3 DEF ContextType, Kept
    <3> HIDE DEF rec
    <3> QED BY <2>3, <3>1, <3>4, FreeStep DEF Others
  <2> QED BY <2>2, <2>3
<1>8. ASSUME NEW c \in Contexts, DestroyLink(c) PROVE IInv'
  <2> DEFINE closed == Closed(ctx[c])
             rec == [closed EXCEPT !.mem = "freed"]
  <2>1. /\ Changes(c, rec) /\ ctx[c].mem = "linked"
        /\ IF StateAlive THEN Gone(c) ELSE UNCHANGED <<peers, inboundCount>>
        /\ UNCHANGED <<options, joined, unsent>>
    BY <1>8 DEF DestroyLink, HasLink
  <2>2. closed \in ContextType /\ Kept(closed) /\ closed.role = ctx[c].role
    BY ClosedFrame DEF IInv, TypeOK, CandidatesKept, Kept
  <2> HIDE DEF closed
  <2>3. rec \in ContextType /\ Kept(rec) /\ rec.mem = "freed" /\ rec.role = ctx[c].role
    BY <2>2 DEF ContextType, Kept
  <2> HIDE DEF rec
  <2> QED BY <2>1, <2>3, FreeStep
<1>9. CASE UNCHANGED vars
  BY <1>9 DEF vars, IInv, TypeOK, LifeInv, PeersLive, InboundExact, StateAlive, CandidatesKept, options
<1> HIDE DEF IInv
<1> QED BY <1>0, <1>1, <1>2, <1>3, <1>4, <1>5, <1>6, <1>7, <1>8, <1>9
        DEF Next, Signaling, Browser, Connection

LEMMA Initially == Init => IInv
<1> SUFFICES ASSUME Init PROVE IInv OBVIOUS
<1>1. NoContext \in ContextType BY DEF NoContext, ContextType
<1>2. TypeOK BY <1>1, JsRtcAssumption DEF Init, TypeOK
<1>3. LifeInv /\ PeersLive BY DEF Init, LifeInv, PeersLive, NoContext
<1>4. CandidatesKept BY DEF Init, CandidatesKept, NoContext
<1>5. InboundExact
  <2> DEFINE In == {c \in Contexts : ctx[c].role = "in" /\ ctx[c].mem # "freed"}
  <2>1. In = {} BY DEF Init, NoContext
  <2>2. inboundCount = 0 /\ maxInbound \in Nat BY JsRtcAssumption DEF Init
  <2>3. Cardinality({}) = 0 BY FS_EmptySet
  <2> HIDE DEF In
  <2>4. inboundCount = Cardinality(In) /\ inboundCount <= maxInbound BY <2>1, <2>2, <2>3
  <2> QED BY <2>4 DEF In, InboundExact
<1> QED BY <1>2, <1>3, <1>4, <1>5 DEF IInv

\* The invariant holds in every state.
THEOREM Invariance == Spec => []IInv
<1> QED BY Initially, InductiveStep, PTL DEF Spec

\* The variables keep their types.
THEOREM Typing == Spec => []TypeOK
<1>1. IInv => TypeOK BY DEF IInv
<1> QED BY <1>1, Invariance, PTL

\* Every pointer of State::peers is to a context of that peer that was not deleted,
\* whatever offers replace it and links are destroyed.
THEOREM PointersLive == Spec => []PeersLive
<1>1. IInv => PeersLive BY DEF IInv
<1> QED BY <1>1, Invariance, PTL

\* State::inboundCount is the number of inbound contexts that were not deleted, those
\* that never open included, and HandleOffer never takes it above the limit.
THEOREM CountExact == Spec => []InboundExact
<1>1. IInv => InboundExact BY DEF IInv
<1> QED BY <1>1, Invariance, PTL

\* The script's addIceCandidate and the promise of setRemoteDescription: no
\* candidate is applied early, lost or left in the buffer.
THEOREM CandidatesNotLost == Spec => []CandidatesKept
<1>1. IInv => CandidatesKept BY DEF IInv
<1> QED BY <1>1, Invariance, PTL
-----------------------------------------------------------------------------
(* Disconnect(): what DisconnectCompletes rests on *)

\* A link's channel is open with its connection in the script's map, or its close
\* event is queued, or it was told; Disconnect() takes the connection out of the map.
Closing(rec) ==
    /\ rec.mem = "linked" => (rec.dc = "open" /\ rec.entry) \/ rec.closeEvent \/ rec.told = 1
    /\ rec.disconnectRequested => ~rec.entry

ClosingInv == \A c \in Contexts : Closing(ctx[c])

\* A link whose Disconnect() was called and that was not told yet has its dc.onclose
\* queued.
DisconnectPending ==
    \A c \in Contexts : HasLink(c) /\ ctx[c].disconnectRequested => ctx[c].told = 1 \/ ctx[c].closeEvent

\* JsRtcPc_Close queues the event of an open channel, and leaves no entry.
LEMMA ClosedClosing ==
    ASSUME NEW rec \in ContextType, Closing(rec)
    PROVE /\ Closed(rec).mem = "linked" => Closed(rec).closeEvent \/ Closed(rec).told = 1
          /\ ~Closed(rec).entry
<1>1. CASE rec.entry
  <2> DEFINE dc == IF rec.dc = "none" THEN rec.dc ELSE "closed"
             event == rec.closeEvent \/ rec.dc \in {"connecting", "open"}
  <2>1. Closed(rec) = [rec EXCEPT !.entry = FALSE, !.dc = dc, !.closeEvent = event]
    BY <1>1 DEF Closed
  <2> HIDE DEF dc, event
  <2>2. /\ Closed(rec).mem = rec.mem /\ Closed(rec).told = rec.told /\ ~Closed(rec).entry
        /\ Closed(rec).closeEvent = event
    BY <2>1 DEF ContextType
  <2>3. rec.mem = "linked" => event \/ rec.told = 1 BY DEF Closing, event
  <2> QED BY <2>2, <2>3
<1>2. CASE ~rec.entry BY <1>2 DEF Closed, Closing
<1> QED BY <1>1, <1>2

\* One context moves, and keeps its Closing.
LEMMA ClosingMoves ==
    ASSUME TypeOK, ClosingInv, NEW c \in Contexts, NEW rec, Changes(c, rec), Closing(rec)
    PROVE ClosingInv'
<1>1. ctx'[c] = rec /\ \A d \in Contexts \ {c} : ctx'[d] = ctx[d] BY DEF Changes, TypeOK
<1> QED BY <1>1 DEF ClosingInv

LEMMA ClosingStep == IInv /\ ClosingInv /\ [Next]_vars => ClosingInv'
<1> SUFFICES ASSUME IInv, ClosingInv, [Next]_vars PROVE ClosingInv' OBVIOUS
<1>0. TypeOK /\ \A c \in Contexts : ctx[c] \in ContextType /\ Closing(ctx[c])
  BY DEF IInv, TypeOK, ClosingInv
<1>1. CASE UNCHANGED ctx BY <1>1 DEF ClosingInv
<1>2. CASE Joined
  <2>1. CASE remoteId # None
    <3> DEFINE rec == SetupOfferer([NoContext EXCEPT !.mem = "live", !.role = "out", !.peer = remoteId])
    <3>1. NewContext \in Contexts
      BY <1>2, NewContextUnused, JsRtcAssumption DEF Joined, IInv, LifeInv, Unused
    <3>2. Changes(NewContext, rec) BY <1>2, <2>1 DEF Joined, OpenOfferer
    <3>3. Closing(rec) BY DEF Closing, NoContext, SetupOfferer
    <3> HIDE DEF rec
    <3> QED BY <1>0, <3>1, <3>2, <3>3, ClosingMoves
  <2> QED BY <1>1, <1>2, <2>1 DEF Joined
<1>3. ASSUME NEW p \in Peers, HandleOffer(p) PROVE ClosingInv'
  <2> DEFINE rec == SetupAnswerer([NoContext EXCEPT !.mem = "live", !.role = "in", !.peer = p])
  <2>1. NewContext \in Contexts /\ Changes(NewContext, rec) BY <1>3, NewContextUnused DEF HandleOffer
  <2>2. Closing(rec) BY DEF Closing, NoContext, SetupAnswerer
  <2> HIDE DEF rec
  <2> QED BY <1>0, <2>1, <2>2, ClosingMoves
<1>4. ASSUME NEW p \in Peers, SetRemoteAnswer(p) PROVE ClosingInv'
  <2> DEFINE c == peers[p]
             rec == [ctx[c] EXCEPT !.offered = TRUE]
  <2>1. c \in Contexts /\ Changes(c, rec) BY <1>4 DEF SetRemoteAnswer, IInv, TypeOK
  <2>2. Closing(rec) BY <1>0, <2>1 DEF Closing, ContextType
  <2> HIDE DEF rec
  <2> QED BY <1>0, <2>1, <2>2, ClosingMoves
<1>5. ASSUME NEW p \in Peers, NEW i \in Cands, AddIceCandidate(p, i), ctx' # ctx PROVE ClosingInv'
  <2> DEFINE c == peers[p]
             now == [ctx[c] EXCEPT !.accepted = @ \cup {i}, !.applied = @ \cup {i}]
             later == [ctx[c] EXCEPT !.accepted = @ \cup {i}, !.pending = @ \cup {i}]
             rec == IF ctx[c].descSet THEN now ELSE later
  <2>1. c # None /\ Changes(c, rec) BY <1>5, ZenonT(30) DEF AddIceCandidate
  <2>2. c \in Contexts BY <2>1 DEF IInv, TypeOK
  <2>3. Closing(now) BY <1>0, <2>2 DEF Closing, ContextType
  <2>4. Closing(later) BY <1>0, <2>2 DEF Closing, ContextType
  <2>5. Closing(rec) BY <2>3, <2>4
  <2> HIDE DEF rec
  <2> QED BY <1>0, <2>1, <2>2, <2>5, ClosingMoves
<1>6. ASSUME NEW c \in Contexts, RemoteDescriptionSet(c) PROVE ClosingInv'
  <2> DEFINE rec == [ctx[c] EXCEPT !.descSet = TRUE, !.pending = {}, !.applied = @ \cup ctx[c].pending]
  <2>1. Changes(c, rec) BY <1>6 DEF RemoteDescriptionSet
  <2>2. Closing(rec) BY <1>0 DEF Closing, ContextType
  <2> HIDE DEF rec
  <2> QED BY <1>0, <2>1, <2>2, ClosingMoves
<1>7. ASSUME NEW c \in Contexts, OnLocalDescription(c) PROVE ClosingInv'
  <2> DEFINE rec == [ctx[c] EXCEPT !.local = TRUE]
  <2>1. Changes(c, rec) BY <1>7 DEF OnLocalDescription
  <2>2. Closing(rec) BY <1>0 DEF Closing, ContextType
  <2> HIDE DEF rec
  <2> QED BY <1>0, <2>1, <2>2, ClosingMoves
<1>8. ASSUME NEW c \in Contexts, OnDataChannel(c) PROVE ClosingInv'
  <2> DEFINE rec == [ctx[c] EXCEPT !.dc = "connecting"]
  <2>1. Changes(c, rec) /\ ctx[c].dc = "none" BY <1>8 DEF OnDataChannel
  <2>2. Closing(rec) BY <1>0, <2>1 DEF Closing, ContextType
  <2> HIDE DEF rec
  <2> QED BY <1>0, <2>1, <2>2, ClosingMoves
<1>9. ASSUME NEW c \in Contexts, OnDataChannelOpen(c) PROVE ClosingInv'
  <2>1. CASE StateAlive
    <3> DEFINE rec == [ctx[c] EXCEPT !.mem = "linked", !.dc = "open"]
    <3>1. Changes(c, rec) /\ ctx[c].entry BY <1>9, <2>1 DEF OnDataChannelOpen
    <3>2. Closing(rec) BY <1>0, <3>1 DEF Closing, ContextType
    <3> HIDE DEF rec
    <3> QED BY <1>0, <3>1, <3>2, ClosingMoves
  <2>2. CASE ~StateAlive
    <3> DEFINE open == [ctx[c] EXCEPT !.dc = "open"]
               closed == Closed(open)
               rec == [closed EXCEPT !.mem = "freed"]
    <3>1. Changes(c, rec) /\ ctx[c].mem = "live" BY <1>9, <2>2 DEF OnDataChannelOpen
    <3>2. open \in ContextType /\ Closing(open) BY <1>0, <3>1 DEF Closing, ContextType
    <3> HIDE DEF open
    <3>3. closed \in ContextType /\ ~closed.entry BY <3>2, ClosedFrame, ClosedClosing
    <3> HIDE DEF closed
    <3>4. Closing(rec) BY <3>3 DEF Closing, ContextType
    <3> HIDE DEF rec
    <3> QED BY <1>0, <3>1, <3>4, ClosingMoves
  <2> QED BY <2>1, <2>2
<1>10. ASSUME NEW c \in Contexts, ChannelCloses(c) PROVE ClosingInv'
  <2> DEFINE rec == [ctx[c] EXCEPT !.dc = "closed", !.closeEvent = TRUE]
  <2>1. Changes(c, rec) BY <1>10 DEF ChannelCloses
  <2>2. Closing(rec) BY <1>0 DEF Closing, ContextType
  <2> HIDE DEF rec
  <2> QED BY <1>0, <2>1, <2>2, ClosingMoves
<1>11. ASSUME NEW c \in Contexts, OnDataChannelClose(c) PROVE ClosingInv'
  <2>1. PICK told \in OnClose(ctx[c]) : Changes(c, [ctx[c] EXCEPT !.closeEvent = FALSE, !.told = told])
    BY <1>11, Zenon DEF OnDataChannelClose
  <2> DEFINE rec == [ctx[c] EXCEPT !.closeEvent = FALSE, !.told = told]
  <2>2. ctx[c].mem = "linked" => told = 1 BY DEF OnClose
  <2>3. Closing(rec) BY <1>0, <2>2 DEF Closing, ContextType
  <2> HIDE DEF rec
  <2> QED BY <1>0, <2>1, <2>3, ClosingMoves DEF rec
<1>12. ASSUME NEW c \in Contexts, DestroyLink(c) \/ Disconnect(c) PROVE ClosingInv'
  <2> DEFINE closed == Closed(ctx[c])
  <2>1. /\ closed \in ContextType /\ ~closed.entry
        /\ closed.mem = "linked" => closed.closeEvent \/ closed.told = 1
    BY <1>0, ClosedFrame, ClosedClosing
  <2>2. \/ Changes(c, [closed EXCEPT !.mem = "freed"])
        \/ Changes(c, [closed EXCEPT !.disconnectRequested = TRUE])
    BY <1>12 DEF DestroyLink, Disconnect
  <2> HIDE DEF closed
  <2>3. Closing([closed EXCEPT !.mem = "freed"]) BY <2>1 DEF Closing, ContextType
  <2>4. Closing([closed EXCEPT !.disconnectRequested = TRUE]) BY <2>1 DEF Closing, ContextType
  <2> QED BY <1>0, <2>2, <2>3, <2>4, ClosingMoves
<1>13. JoinFails \/ OnLeft \/ DestroyTransport \/ UNCHANGED vars => UNCHANGED ctx
  BY DEF JoinFails, OnLeft, DestroyTransport, vars
<1> HIDE DEF ClosingInv
<1> QED BY <1>1, <1>2, <1>3, <1>4, <1>5, <1>6, <1>7, <1>8, <1>9, <1>10, <1>11, <1>12, <1>13
        DEF Next, Signaling, Browser

\* JsRtcLink::Disconnect(): until the application destroys the link or it is told,
\* the close event that tells it is queued, whatever closed the channel first.
THEOREM DisconnectIsAnswerable == Spec => []DisconnectPending
<1>1. Init => ClosingInv BY DEF Init, ClosingInv, Closing, NoContext
<1>2. ClosingInv => DisconnectPending BY DEF ClosingInv, Closing, DisconnectPending, HasLink
<1> QED BY <1>1, <1>2, ClosingStep, Invariance, PTL DEF Spec
=============================================================================
