------------------------------- MODULE JsRtc -------------------------------
(***************************************************************************)
(* JsRtcTransport: WebRTC links over the browser's RTCPeerConnection.      *)
(*                                                                         *)
(* Everything runs on the browser's one thread: an event, a resolved       *)
(* promise or a call of the application runs to its end, so each is one    *)
(* action.  What interleaves is which of them comes next.  The context of  *)
(* a peer is a raw pointer: State::peers, the map of the script            *)
(* (Module._rtt_pcMap) and the closures of its events all hold it, and the *)
(* link deletes it.                                                        *)
(***************************************************************************)
EXTENDS Naturals, FiniteSets

CONSTANTS Peers,        \* remote peers
          Remotes,      \* Options::remoteId: a peer for an offerer, None for an answerer
          Cands,        \* ICE candidates a peer trickles
          Contexts,     \* JsRtcPeerContext objects (bounds how many are made)
          None,
          MaxInbound    \* bound on maxInbound

ASSUME JsRtcAssumption ==
    /\ Contexts # {} /\ IsFiniteSet(Contexts) /\ MaxInbound \in Nat
    /\ Remotes \subseteq Peers \cup {None} /\ None \notin Peers \cup Contexts

VARIABLES
    remoteId,     \* State::remoteId
    maxInbound,   \* State::maxInboundConnections
    joined,       \* "no", "joined", "failed", "lost", or "gone" once the transport is destroyed
    peers,        \* State::peers
    inboundCount, \* State::inboundCount
    ctx,          \* the contexts, with their link and their entry in the script's map
    unsent        \* candidates that may still arrive

options == <<remoteId, maxInbound>>
vars == <<options, joined, peers, inboundCount, ctx, unsent>>

(* mem: the memory of the context; entry: it is in the script's map; offered *)
(* and descSet: its setRemoteDescription is pending, has resolved; local: its *)
(* description was sent; dc: its channel; closeEvent: dc.onclose is queued;   *)
(* told: how often onDisconnected ran.                                        *)
NoContext == [mem |-> "none", role |-> "none", peer |-> None, entry |-> FALSE,
              offered |-> FALSE, descSet |-> FALSE, local |-> FALSE, dc |-> "none",
              closeEvent |-> FALSE, disconnectRequested |-> FALSE, told |-> 0,
              pending |-> {}, applied |-> {}, accepted |-> {}]

Init ==
    /\ remoteId \in Remotes /\ maxInbound \in 0 .. MaxInbound
    /\ joined = "no"
    /\ peers = [p \in Peers |-> None] /\ inboundCount = 0
    /\ ctx = [c \in Contexts |-> NoContext]
    /\ unsent = Peers \X Cands

StateAlive == joined # "gone"
Unused == {c \in Contexts : ctx[c].mem = "none"}
NewContext == CHOOSE c \in Unused : TRUE
Changes(c, rec) == ctx' = [ctx EXCEPT ![c] = rec]
Others == UNCHANGED <<options, joined, peers, inboundCount, unsent>>

-----------------------------------------------------------------------------
(* JsRtcTransport *)

JoinFails ==
    /\ joined = "no" /\ joined' = "failed"
    /\ UNCHANGED <<options, peers, inboundCount, ctx, unsent>>

(* JsRtcPc_SetupOfferer makes the channel with the connection; the answerer's *)
(* comes with ondatachannel, and its setRemoteDescription begins at once.     *)
SetupOfferer(rec) == [rec EXCEPT !.entry = TRUE, !.dc = "connecting"]
SetupAnswerer(rec) == [rec EXCEPT !.entry = TRUE, !.offered = TRUE]

OpenOfferer ==
    /\ peers' = [peers EXCEPT ![remoteId] = NewContext]
    /\ Changes(NewContext, SetupOfferer([NoContext EXCEPT !.mem = "live", !.role = "out", !.peer = remoteId]))

Joined ==
    /\ joined = "no" /\ joined' = "joined"
    /\ IF remoteId # None THEN OpenOfferer ELSE UNCHANGED <<peers, ctx>>
    /\ UNCHANGED <<options, inboundCount, unsent>>

HandleOfferOffByOneMutant(p) ==
    /\ joined = "joined" /\ inboundCount <= maxInbound /\ Unused # {}
    /\ peers' = [peers EXCEPT ![p] = NewContext]
    /\ inboundCount' = inboundCount + 1
    /\ Changes(NewContext, SetupAnswerer([NoContext EXCEPT !.mem = "live", !.role = "in", !.peer = p]))
    /\ UNCHANGED <<options, joined, unsent>>

(* OnMessage with an offer: the limit is tested, then the context made and   *)
(* counted, with no other task of the browser in between.                    *)
HandleOffer(p) ==
    /\ joined = "joined" /\ inboundCount < maxInbound /\ Unused # {}
    /\ peers' = [peers EXCEPT ![p] = NewContext]
    /\ inboundCount' = inboundCount + 1
    /\ Changes(NewContext, SetupAnswerer([NoContext EXCEPT !.mem = "live", !.role = "in", !.peer = p]))
    /\ UNCHANGED <<options, joined, unsent>>

(* JsRtcPc_SetRemoteAnswer begins setRemoteDescription; its promise resolves  *)
(* in RemoteDescriptionSet.  A connection that awaits no answer rejects it.   *)
SetRemoteAnswerAtOnceMutant(p) ==
    LET c == peers[p] IN
    /\ joined = "joined" /\ remoteId # None /\ c # None
    /\ ctx[c].entry /\ ctx[c].role = "out" /\ ctx[c].local /\ ~ctx[c].offered
    /\ Changes(c, [ctx[c] EXCEPT !.offered = TRUE, !.pending = {}, !.applied = @ \cup ctx[c].pending])
    /\ Others

SetRemoteAnswer(p) ==
    LET c == peers[p] IN
    /\ joined = "joined" /\ remoteId # None /\ c # None
    /\ ctx[c].entry /\ ctx[c].role = "out" /\ ctx[c].local /\ ~ctx[c].offered
    /\ Changes(c, [ctx[c] EXCEPT !.offered = TRUE])
    /\ Others

(* A candidate without a context, or whose connection was closed, is dropped. *)
AddIceCandidate(p, i) ==
    LET c == peers[p] IN
    /\ joined = "joined" /\ <<p, i>> \in unsent
    /\ unsent' = unsent \ {<<p, i>>}
    /\ IF c = None \/ ~ctx[c].entry
       THEN UNCHANGED ctx
       ELSE Changes(c, IF ctx[c].descSet
                       THEN [ctx[c] EXCEPT !.accepted = @ \cup {i}, !.applied = @ \cup {i}]
                       ELSE [ctx[c] EXCEPT !.accepted = @ \cup {i}, !.pending = @ \cup {i}])
    /\ UNCHANGED <<options, joined, peers, inboundCount>>

(* OnLeft: the signaling connection is lost, of which the acceptor is told.   *)
(* Nothing comes or goes through it any more; the links stay as they are.     *)
OnLeft ==
    /\ joined = "joined" /\ joined' = "lost"
    /\ UNCHANGED <<options, peers, inboundCount, ctx, unsent>>

(* ~JsRtcTransport: State goes, with its map and the signaling user. *)
DestroyTransport ==
    /\ StateAlive /\ joined' = "gone"
    /\ peers' = [p \in Peers |-> None] /\ inboundCount' = 0
    /\ UNCHANGED <<options, ctx, unsent>>

-----------------------------------------------------------------------------
(* Ends of a context *)

(* JsRtcPc_Close: the entry goes and the connection is closed, which queues   *)
(* the close event of a channel that is not closed yet.                       *)
Closed(rec) ==
    IF rec.entry
    THEN [rec EXCEPT !.entry = FALSE, !.dc = IF @ = "none" THEN @ ELSE "closed",
                     !.closeEvent = @ \/ rec.dc \in {"connecting", "open"}]
    ELSE rec

(* onGone, from the destructor of the link. *)
GoneKeepsEntryMutant(c) ==
    /\ peers' = peers
    /\ inboundCount' = IF ctx[c].role = "in" /\ inboundCount > 0 THEN inboundCount - 1 ELSE inboundCount

Gone(c) ==
    /\ peers' = [peers EXCEPT ![ctx[c].peer] = None]
    /\ inboundCount' = IF ctx[c].role = "in" /\ inboundCount > 0 THEN inboundCount - 1 ELSE inboundCount

HasLink(c) == ctx[c].mem = "linked"

(* ~JsRtcLink: the application let go of the link. *)
DestroyLink(c) ==
    /\ HasLink(c)
    /\ Changes(c, [Closed(ctx[c]) EXCEPT !.mem = "freed"])
    /\ IF StateAlive THEN Gone(c) ELSE UNCHANGED <<peers, inboundCount>>
    /\ UNCHANGED <<options, joined, unsent>>

(* JsRtcLink::Disconnect *)
DisconnectOpenMutant(c) ==
    /\ HasLink(c) /\ ~ctx[c].disconnectRequested
    /\ Changes(c, [ctx[c] EXCEPT !.disconnectRequested = TRUE])
    /\ Others

Disconnect(c) ==
    /\ HasLink(c) /\ ~ctx[c].disconnectRequested
    /\ Changes(c, [Closed(ctx[c]) EXCEPT !.disconnectRequested = TRUE])
    /\ Others

-----------------------------------------------------------------------------
(* The browser's events *)

(* setRemoteDescription resolves: the flag, then the buffered candidates.     *)
RemoteDescriptionSet(c) ==
    /\ ctx[c].entry /\ ctx[c].offered /\ ~ctx[c].descSet
    /\ Changes(c, [ctx[c] EXCEPT !.descSet = TRUE, !.pending = {},
                                 !.applied = @ \cup ctx[c].pending])
    /\ Others

(* setLocalDescription resolves: the description and the local candidates are *)
(* sent while the signaling user is joined.                                   *)
OnLocalDescription(c) ==
    /\ ctx[c].entry /\ ~ctx[c].local /\ joined = "joined"
    /\ ctx[c].role = "in" => ctx[c].descSet
    /\ Changes(c, [ctx[c] EXCEPT !.local = TRUE])
    /\ Others

(* pc.ondatachannel of an answerer. *)
OnDataChannel(c) ==
    /\ ctx[c].entry /\ ctx[c].dc = "none" /\ ctx[c].local
    /\ Changes(c, [ctx[c] EXCEPT !.dc = "connecting"])
    /\ Others

(* dc.onopen: the link takes the context and goes to the acceptor, whose      *)
(* handler is bound at once.  With State gone the context is deleted.         *)
OnDataChannelOpen(c) ==
    /\ ctx[c].mem = "live" /\ ctx[c].entry /\ ctx[c].dc = "connecting"
    /\ ctx[c].local /\ ctx[c].descSet
    /\ Changes(c, IF StateAlive
                  THEN [ctx[c] EXCEPT !.mem = "linked", !.dc = "open"]
                  ELSE [Closed([ctx[c] EXCEPT !.dc = "open"]) EXCEPT !.mem = "freed"])
    /\ Others

(* The remote side or the network closes the channel. *)
ChannelCloses(c) ==
    /\ ctx[c].entry /\ ctx[c].dc \in {"connecting", "open"}
    /\ Changes(c, [ctx[c] EXCEPT !.dc = "closed", !.closeEvent = TRUE])
    /\ Others

(* dc.onclose: with a link it is told, once.  The closure does not look its   *)
(* context up: that of a deleted one reads freed memory, with either result.  *)
OnClose(rec) ==
    CASE rec.mem = "linked" -> {1}
      [] rec.mem = "freed"  -> {rec.told, 1}
      [] OTHER              -> {rec.told}

OnDataChannelClose(c) ==
    /\ ctx[c].closeEvent
    /\ \E told \in OnClose(ctx[c]) : Changes(c, [ctx[c] EXCEPT !.closeEvent = FALSE, !.told = told])
    /\ Others

-----------------------------------------------------------------------------
Signaling ==
    \E p \in Peers : HandleOffer(p) \/ SetRemoteAnswer(p) \/ \E i \in Cands : AddIceCandidate(p, i)

Browser(c) ==
    \/ RemoteDescriptionSet(c) \/ OnLocalDescription(c) \/ OnDataChannel(c)
    \/ OnDataChannelOpen(c) \/ ChannelCloses(c) \/ OnDataChannelClose(c)

Next ==
    \/ JoinFails \/ Joined \/ Signaling \/ OnLeft \/ DestroyTransport
    \/ \E c \in Contexts : Browser(c) \/ DestroyLink(c) \/ Disconnect(c)

(* The browser runs the tasks it has queued. *)
Fairness == \A c \in Contexts : WF_vars(OnDataChannelClose(c)) /\ WF_vars(RemoteDescriptionSet(c))

Spec == Init /\ [][Next]_vars /\ Fairness

-----------------------------------------------------------------------------
(* Properties *)

(* State::peers holds raw pointers that OnMessage dereferences through the    *)
(* script's map.  Whatever the order of offers that replace an entry, links   *)
(* that are destroyed and channels that open late, every pointer in the map   *)
(* is to a context of that peer that has not been deleted.                    *)
PeersLive ==
    \A p \in Peers : peers[p] # None => ctx[peers[p]].mem \in {"live", "linked"} /\ ctx[peers[p]].peer = p

(* maxInboundConnections bounds the inbound contexts that exist: HandleOffer  *)
(* counts one in, and only onGone, from ~JsRtcLink, counts one out, so that    *)
(* inboundCount is the number of those not deleted and never above the limit.  *)
(* More of them exist than there are connections: a context whose entry was    *)
(* replaced, or whose channel closed under a link the application keeps, is    *)
(* counted, and one whose channel never opens is for ever, since the code has  *)
(* no error path that deletes it.                                              *)
InboundExact ==
    StateAlive =>
        /\ inboundCount = Cardinality({c \in Contexts : ctx[c].role = "in" /\ ctx[c].mem # "freed"})
        /\ inboundCount <= maxInbound

(* No candidate reaches a connection before the promise of its remote         *)
(* description resolved, and while the connection is open an accepted         *)
(* candidate is either buffered for that promise or applied.                  *)
CandidatesKept ==
    \A c \in Contexts :
        /\ ctx[c].applied # {} => ctx[c].descSet
        /\ ctx[c].accepted = ctx[c].pending \cup ctx[c].applied
        /\ ctx[c].descSet => ctx[c].pending = {}

(* Disconnect() is answered by onDisconnected from the close event, unless    *)
(* the application destroys the link first.                                   *)
DisconnectCompletes ==
    \A c \in Contexts : (HasLink(c) /\ ctx[c].disconnectRequested) ~> (ctx[c].told = 1 \/ ctx[c].mem = "freed")
=============================================================================
