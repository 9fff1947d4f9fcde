------------------------------- MODULE DcRtc -------------------------------
(***************************************************************************)
(* DcRtcTransport and DcRtcLink: WebRTC links over libdatachannel.         *)
(*                                                                         *)
(* One transport has joined signaling.  Its peers send offers, answers and *)
(* candidates in any order; OnMessage runs on the signaling threads (the   *)
(* thread that replays the backlog in SetHandler and the one that delivers *)
(* may run it together) and every lock it takes is a step of its own.  The *)
(* threads of libdatachannel open channels, report connection states and   *)
(* deliver data.  The application holds, disconnects and drops links.      *)
(***************************************************************************)
EXTENDS Naturals, FiniteSets

CONSTANTS Peers,        \* remote peers
          Remotes,      \* Options::remoteId: a peer for an offerer, None for an answerer
          Cands,        \* ICE candidates a peer trickles
          Links,        \* DcRtcLink objects (bounds how many are made)
          Threads,      \* signaling threads
          None,
          MaxInbound,   \* bound on maxInbound
          MaxEvents     \* bound on what the peers, the network and the application start

ASSUME DcRtcAssumption ==
    /\ Links # {} /\ Threads # {} /\ IsFiniteSet(Threads)
    /\ MaxInbound \in Nat /\ MaxEvents \in Nat
    /\ Remotes \subseteq Peers \cup {None} /\ None \notin Peers \cup Links

VARIABLES
    remoteId,     \* the peer to offer to, None for an answerer
    maxInbound,   \* Options::maxInboundConnections
    owner,        \* DcRtcTransport holds its State
    joined,       \* "no", "joined" or "failed": the signaling join
    peers,        \* State::peers
    inboundCount, \* State::inboundCount
    link,         \* the links
    thr,          \* the OnMessage calls in progress
    reported,     \* the acceptor was given an error
    unsent,       \* candidates that may still arrive
    events,       \* events that may still start
    counted,      \* history: inbound links counted for which onGone has not run
    again,        \* history: onGone ran a second time for a link
    overlapped    \* history: an offer was tested while another was still uncounted

countVars == <<inboundCount, counted, again, overlapped>>
vars == <<remoteId, maxInbound, owner, joined, peers, countVars, link, thr, reported, unsent, events>>
configVars == <<remoteId, maxInbound, owner, joined, unsent>>

(* The state of one DcRtcLink and of its rtc::PeerConnection. *)
NoLink == [role |-> "none", peer |-> None, phase |-> "made", pc |-> "new", closing |-> FALSE, remote |-> FALSE, 
           remoteDescSet |-> FALSE, pending |-> {}, applied |-> {}, accepted |-> {},
           disconnectRequested |-> FALSE, closedFired |-> FALSE, told |-> 0, held |-> FALSE]

Idle == [at |-> "idle", from |-> None, link |-> None, cands |-> {}]

Terminal == {"disconnected", "failed", "closed"}

Init ==
    /\ remoteId \in Remotes /\ maxInbound \in 0 .. MaxInbound
    /\ owner = TRUE /\ joined = "no"
    /\ peers = [p \in Peers |-> None] /\ inboundCount = 0
    /\ link = [l \in Links |-> NoLink]
    /\ thr = [t \in Threads |-> Idle]
    /\ reported = FALSE
    /\ unsent = Peers \X Cands /\ events = MaxEvents
    /\ counted = {} /\ again = FALSE /\ overlapped = FALSE

Event == events > 0 /\ events' = events - 1

-----------------------------------------------------------------------------
(* Ownership.  State lives as long as the transport or a running OnMessage  *)
(* holds it; a link as long as the map of a living State, the application, *)
(* a running OnMessage or its own opening callback holds it.               *)
StateAlive == owner \/ \E t \in Threads : thr[t].at # "idle"

HeldElsewhere(l) ==
    \/ link[l].held
    \/ link[l].phase \in {"opening", "given"}
    \/ \E t \in Threads : thr[t].link = l

Alive(l) == HeldElsewhere(l) \/ (StateAlive /\ \E p \in Peers : peers[p] = l)

Unused == {l \in Links : link[l].role = "none"}
NewLink == CHOOSE l \in Unused : TRUE
Made(role, p) == [NoLink EXCEPT !.role = role, !.peer = p]

-----------------------------------------------------------------------------
(* DcRtcTransport *)

(* Open: the join answers with a user or an error; an offerer makes its     *)
(* link and its data channel inside the callback.                          *)
JoinFails ==
    /\ joined = "no" /\ owner
    /\ joined' = "failed" /\ reported' = TRUE
    /\ UNCHANGED <<remoteId, maxInbound, owner, unsent, peers, countVars, link, thr, events>>

OpenOfferer ==
    /\ peers' = [peers EXCEPT ![remoteId] = NewLink]
    /\ link' = [link EXCEPT ![NewLink] = Made("out", remoteId)]

Joined ==
    /\ joined = "no" /\ owner
    /\ joined' = "joined"
    /\ IF remoteId # None THEN OpenOfferer ELSE UNCHANGED <<peers, link>>
    /\ UNCHANGED <<remoteId, maxInbound, owner, unsent, countVars, thr, reported, events>>

(* OnMessage, one call per thread.  A message that is dropped at once        *)
(* (malformed, of an unknown type, an offer beyond the limit) changes nothing. *)
(* The limit is tested in a critical section of its own.                     *)
Calls(t, at, from, l, cands) == thr' = [thr EXCEPT ![t] = [at |-> at, from |-> from, link |-> l, cands |-> cands]]

OnMessageEnabled(t) == thr[t].at = "idle" /\ joined = "joined" /\ StateAlive

Overlaps == \E u \in Threads : thr[u].at = "offer"

OnOfferNoLimitMutant(t, p) ==
    /\ Event /\ OnMessageEnabled(t)
    /\ Calls(t, "offer", p, None, {})
    /\ overlapped' = (overlapped \/ Overlaps)
    /\ UNCHANGED <<configVars, peers, inboundCount, counted, again, link, reported>>

OnOffer(t, p) ==
    /\ Event /\ OnMessageEnabled(t) /\ inboundCount < maxInbound
    /\ Calls(t, "offer", p, None, {})
    /\ overlapped' = (overlapped \/ Overlaps)
    /\ UNCHANGED <<configVars, peers, inboundCount, counted, again, link, reported>>

(* HandleOffer: the new link enters the map and is counted ... *)
HandleOffer(t) ==
    /\ thr[t].at = "offer" /\ Unused # {}
    /\ peers' = [peers EXCEPT ![thr[t].from] = NewLink]
    /\ inboundCount' = inboundCount + 1 /\ counted' = counted \cup {NewLink}
    /\ link' = [link EXCEPT ![NewLink] = Made("in", thr[t].from)]
    /\ Calls(t, "describe", thr[t].from, NewLink, {})
    /\ UNCHANGED <<configVars, again, overlapped, reported, events>>

(* An answer to our offer goes to the link in remoteId's entry, which may be *)
(* another one than the link that offered.                                  *)
OnAnswer(t) ==
    /\ Event /\ OnMessageEnabled(t) /\ remoteId # None
    /\ peers[remoteId] # None
    /\ Calls(t, "answer", remoteId, peers[remoteId], {})
    /\ UNCHANGED <<configVars, peers, countVars, link, reported>>

(* A candidate goes to the link of its sender, and nowhere if there is none. *)
OnCandidate(t, p, c) ==
    /\ Event /\ OnMessageEnabled(t) /\ <<p, c>> \in unsent
    /\ unsent' = unsent \ {<<p, c>>}
    /\ IF peers[p] = None THEN UNCHANGED thr ELSE Calls(t, "candidate", p, peers[p], {c})
    /\ UNCHANGED <<remoteId, maxInbound, owner, joined, peers, countVars, link, reported>>

(* DcRtcLink::SetRemoteDescription: the connection is given the description *)
(* first; then, under the link's mutex, the flag is set and the buffer      *)
(* taken; the buffered candidates are applied outside of it.  A connection  *)
(* that awaits no answer throws, which ends the call.                       *)
SetRemoteDescription(t) ==
    LET l == thr[t].link
        taken == thr[t].at = "describe" \/ (link[l].role = "out" /\ ~link[l].remote)
    IN  /\ thr[t].at \in {"describe", "answer"}
        /\ link' = IF taken THEN [link EXCEPT ![l].remote = TRUE] ELSE link
        /\ thr' = [thr EXCEPT ![t] = IF taken THEN [@ EXCEPT !.at = "flag"] ELSE Idle]
        /\ UNCHANGED <<configVars, peers, countVars, reported, events>>

TakePending(t) ==
    LET l == thr[t].link IN
    /\ thr[t].at = "flag"
    /\ link' = [link EXCEPT ![l].remoteDescSet = TRUE, ![l].pending = {}]
    /\ Calls(t, "apply", thr[t].from, l, link[l].pending)
    /\ UNCHANGED <<configVars, peers, countVars, reported, events>>

AddRemoteCandidateDirectMutant(t) ==
    LET l == thr[t].link IN
    /\ thr[t].at = "candidate"
    /\ link' = [link EXCEPT ![l].accepted = @ \cup thr[t].cands]
    /\ thr' = [thr EXCEPT ![t].at = "apply"]
    /\ UNCHANGED <<configVars, peers, countVars, reported, events>>

(* DcRtcLink::AddRemoteCandidate: buffered until the flag is set. *)
AddRemoteCandidate(t) ==
    LET l == thr[t].link IN
    /\ thr[t].at = "candidate"
    /\ IF link[l].remoteDescSet
       THEN /\ link' = [link EXCEPT ![l].accepted = @ \cup thr[t].cands]
            /\ thr' = [thr EXCEPT ![t].at = "apply"]
       ELSE /\ link' = [link EXCEPT ![l].accepted = @ \cup thr[t].cands,
                                    ![l].pending = @ \cup thr[t].cands]
            /\ thr' = [thr EXCEPT ![t] = Idle]
    /\ UNCHANGED <<configVars, peers, countVars, reported, events>>

Apply(t) ==
    /\ thr[t].at = "apply"
    /\ link' = [link EXCEPT ![thr[t].link].applied = @ \cup thr[t].cands]
    /\ thr' = [thr EXCEPT ![t] = Idle]
    /\ UNCHANGED <<configVars, peers, countVars, reported, events>>

(* OnLeft with an error is reported as a closed transport. *)
OnLeft ==
    /\ Event /\ joined = "joined" /\ StateAlive
    /\ reported' = TRUE
    /\ UNCHANGED <<configVars, peers, countVars, link, thr>>

(* ~DcRtcTransport *)
DestroyTransport ==
    /\ Event /\ owner
    /\ owner' = FALSE
    /\ UNCHANGED <<remoteId, maxInbound, joined, unsent, peers, countVars, link, thr, reported>>

-----------------------------------------------------------------------------
(* libdatachannel, per connection. *)
Changes(l, rec) == link' = [link EXCEPT ![l] = rec]
NothingElse == UNCHANGED <<configVars, peers, countVars, thr, reported, events>>

(* dc->onOpen or pc.onDataChannel, once the connection is made: the callback *)
(* locks the link; Attach replaces the state callback and OnLink gives the   *)
(* link to the application; SetHandler binds what OnLink returned.           *)
ChannelOpens(l) ==
    /\ link[l].phase = "made" /\ link[l].pc = "new" /\ link[l].remote /\ Alive(l)
    /\ link[l].role = "out" => StateAlive
    /\ Changes(l, [link[l] EXCEPT !.phase = "opening", !.pc = "connected"])
    /\ NothingElse

AttachAndOnLink(l) ==
    /\ link[l].phase = "opening"
    /\ Changes(l, [link[l] EXCEPT !.phase = "given", !.held = TRUE])
    /\ NothingElse

SetHandler(l) ==
    /\ link[l].phase = "given"
    /\ Changes(l, [link[l] EXCEPT !.phase = "ready"])
    /\ NothingElse

(* The callbacks given to Attach.  Both erase the entry of the peer, whatever *)
(* link it holds; the answerer's also counts the peer out.                   *)
Gone(l) ==
    IF StateAlive
    THEN /\ peers' = [peers EXCEPT ![link[l].peer] = None]
         /\ inboundCount' = IF link[l].role = "in" /\ inboundCount > 0
                            THEN inboundCount - 1 ELSE inboundCount
         /\ counted' = counted \ {l}
         /\ again' = (again \/ (link[l].role = "in" /\ l \notin counted))
         /\ UNCHANGED overlapped
    ELSE UNCHANGED <<peers, countVars>>

Attached(l) == link[l].phase \in {"given", "ready"}

Follows(a, b) ==
    \/ a \in {"new", "connected"} /\ b \in Terminal
    \/ a = "disconnected" /\ b \in {"failed", "closed"}
    \/ a = "failed" /\ b = "closed"

FireAlwaysMutant(l, st) ==
    [link[l] EXCEPT !.pc = st, !.told = IF link[l].phase = "ready" THEN @ + 1 ELSE @]

(* _closedFired: the handler hears of the first final state, if it is bound. *)
FireOnce(l, st) ==
    IF link[l].closedFired THEN [link[l] EXCEPT !.pc = st]
    ELSE [link[l] EXCEPT !.pc = st, !.closedFired = TRUE,
                         !.told = IF link[l].phase = "ready" THEN @ + 1 ELSE @]

(* pc.onStateChange with a final state.  Before Attach it is only logged.     *)
(* After it every such state runs onClosed or onFailed; the handler is told   *)
(* afterwards, when the link outlives the loss of its entry.                  *)
StateChange(l, st) ==
    /\ link[l].role # "none" /\ Follows(link[l].pc, st)
    /\ IF Attached(l)
       THEN /\ Gone(l)
            /\ Changes(l, IF HeldElsewhere(l) THEN FireOnce(l, st) ELSE [link[l] EXCEPT !.pc = st])
            /\ reported' = (reported \/ (st = "failed" /\ link[l].role = "out"))
       ELSE /\ Changes(l, [link[l] EXCEPT !.pc = st])
            /\ UNCHANGED <<peers, countVars, reported>>
    /\ UNCHANGED <<configVars, thr>>

(* The network or the remote peer ends a connection; one that was closed, or *)
(* whose link was destroyed, ends by itself.                                 *)
Breaks(l) == Event /\ \E st \in Terminal : StateChange(l, st)

Closes(l) ==
    /\ link[l].closing \/ (link[l].role # "none" /\ ~Alive(l))
    /\ StateChange(l, "closed")
    /\ UNCHANGED events

-----------------------------------------------------------------------------
(* The application *)

(* DcRtcLink::Disconnect: once; the channel and the connection are closed.  *)
DisconnectChannelOnlyMutant(l) ==
    /\ Event /\ link[l].held /\ ~link[l].disconnectRequested
    /\ Changes(l, [link[l] EXCEPT !.disconnectRequested = TRUE])
    /\ UNCHANGED <<configVars, peers, countVars, thr, reported>>

Disconnect(l) ==
    /\ Event /\ link[l].held /\ ~link[l].disconnectRequested
    /\ Changes(l, [link[l] EXCEPT !.disconnectRequested = TRUE, !.closing = TRUE])
    /\ UNCHANGED <<configVars, peers, countVars, thr, reported>>

Drop(l) ==
    /\ Event /\ link[l].held
    /\ Changes(l, [link[l] EXCEPT !.held = FALSE])
    /\ UNCHANGED <<configVars, peers, countVars, thr, reported>>

-----------------------------------------------------------------------------
OnMessage(t) ==
    \/ \E p \in Peers : OnOffer(t, p) \/ \E c \in Cands : OnCandidate(t, p, c)
    \/ OnAnswer(t)

Handling(t) ==
    HandleOffer(t) \/ SetRemoteDescription(t) \/ TakePending(t) \/ AddRemoteCandidate(t) \/ Apply(t)

Opening(l) == AttachAndOnLink(l) \/ SetHandler(l)

Next ==
    \/ JoinFails \/ Joined \/ OnLeft \/ DestroyTransport
    \/ \E t \in Threads : OnMessage(t) \/ Handling(t)
    \/ \E l \in Links : \/ ChannelOpens(l) \/ Opening(l) \/ Breaks(l) \/ Closes(l)
                        \/ Disconnect(l) \/ Drop(l)

(* A call that began goes on, and a closed connection reports it. *)
Fairness ==
    /\ \A t \in Threads : WF_vars(Handling(t))
    /\ \A l \in Links : WF_vars(Opening(l)) /\ WF_vars(Closes(l))

Spec == Init /\ [][Next]_vars /\ Fairness

-----------------------------------------------------------------------------
(* Properties *)

(* maxInboundConnections bounds the inbound connections that have not ended: *)
(* all of them are counted, and the count is within the limit.  Two things   *)
(* in the code break that, and the formula leaves both out: Attach's state   *)
(* callback runs onGone again at each later final state (Disconnected, then  *)
(* Closed), which counts a link out twice (again); and the limit is tested   *)
(* in one critical section of OnMessage, the link counted in another of      *)
(* HandleOffer, so that offers on several threads pass together              *)
(* (overlapped), by no more than one each.                                   *)
WithinLimit ==
    LET connected == {l \in Links : link[l].role = "in" /\ link[l].pc \notin Terminal}
        excess == IF overlapped THEN Cardinality(Threads) - 1 ELSE 0
    IN  ~again => /\ connected \subseteq counted /\ Cardinality(counted) = inboundCount
                  /\ inboundCount <= maxInbound + excess

(* SetRemoteDescription and AddRemoteCandidate race: no connection is given *)
(* a candidate before its remote description, and every candidate accepted  *)
(* for a link is in exactly one place: its buffer, a thread about to apply  *)
(* it, or applied.  None is left in the buffer once the flag is set.        *)
CandidatesKept ==
    \A l \in Links :
        LET flying(t) == IF thr[t].at = "apply" /\ thr[t].link = l THEN thr[t].cands ELSE {}
            inFlight == UNION {flying(t) : t \in Threads}
        IN  /\ link[l].accepted = link[l].pending \cup link[l].applied \cup inFlight
            /\ link[l].applied # {} => link[l].remote
            /\ link[l].pending \cap (link[l].applied \cup inFlight) = {}
            /\ link[l].applied \cap inFlight = {}
            /\ link[l].pending # {} => ~link[l].remoteDescSet

(* A connection passes through several final states (Disconnected, Failed,  *)
(* Closed), each of which runs the callback; onDisconnected runs once at     *)
(* most, and only for a link the acceptor was given.                         *)
ToldOnce == \A l \in Links : link[l].told <= 1 /\ (link[l].told = 1 => link[l].phase = "ready")

(* Disconnect() of a link whose handler is bound, before its connection      *)
(* ended, is always answered by onDisconnected, unless the application let   *)
(* go of the link; and its entry leaves the map of a living State.           *)
DisconnectCompletes ==
    \A l \in Links :
        (link[l].disconnectRequested /\ link[l].phase = "ready" /\ link[l].pc \notin Terminal)
            ~> /\ link[l].told = 1 \/ ~link[l].held
               /\ StateAlive => \A p \in Peers : peers[p] # l
=============================================================================
