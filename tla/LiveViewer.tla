----------------------------- MODULE LiveViewer -----------------------------
(***************************************************************************)
(* The live view of the browser: use-live-viewer.ts asks the device for a   *)
(* session and follows its answers, webrtc-provider.tsx turns an SDP offer  *)
(* into a peer connection across three awaits.  Nothing is looked at again  *)
(* after an await, so that a stop, a second offer or an old answer in       *)
(* between takes effect on whatever is current by then.  The device is      *)
(* external: it acknowledges or refuses, offers, and stops in its own time. *)
(***************************************************************************)
EXTENDS Integers, Sequences, FiniteSets, SequencesExt

CONSTANTS
  Asks,     \* request ids; a session bears the id of the request that started it
  NoAsk     \* null

ASSUME LvAssumption == Asks \cap {NoAsk, "none", "start"} = {}

VARIABLES
  viewerState,       \* "idle", "starting", "streaming"
  activeRequestId, pendingSessionId,   \* the refs of the hook
  currentSessionId,  \* state of the provider
  pcRef,             \* the current peer; 0 is null
  peers,             \* the RTCPeerConnections: session and state
  fetching,          \* sessions whose offer waits for the ICE configuration
  disconnectTimer,   \* the peer the timer was armed for, or 0
  use,               \* what each request was: "none", "start", or the session it updates
  call,              \* its promise: "none", "waiting", "over"
  offers,            \* the device: "none", "due", "sent", per session
  inbox,             \* packets to the browser, in order
  races              \* history: the races that have happened

lvVars == <<viewerState, activeRequestId, pendingSessionId, currentSessionId, pcRef, peers,
            fetching, disconnectTimer, use, call, offers, inbox, races>>
refs == <<activeRequestId, pendingSessionId>>
provider == <<currentSessionId, pcRef, peers, fetching, disconnectTimer>>
remote == <<use, call, offers, inbox>>

LvInit ==
  /\ viewerState = "idle"
  /\ activeRequestId = NoAsk /\ pendingSessionId = NoAsk /\ currentSessionId = NoAsk
  /\ pcRef = 0 /\ peers = <<>> /\ fetching = {} /\ disconnectTimer = 0
  /\ use = [r \in Asks |-> "none"] /\ call = [r \in Asks |-> "none"]
  /\ offers = [r \in Asks |-> "none"]
  /\ inbox = <<>>
  /\ races = {}

\* An offer is between its awaits: its answer has not been sent.
Underway == fetching # {} \/ \E p \in 1..Len(peers) : peers[p].state = "describing"

\* A race of the given name, if it is one.
Race(name, happens) == races' = IF happens THEN races \cup {name} ELSE races

-----------------------------------------------------------------------------
(* webrtc-provider.tsx                                                      *)

\* Mutant: the reference is dropped, the connection is left open.
LeavesPeerOpen == peers

\* The peers once the current one is closed; one that is still being described
\* will find out at its next step.
ClosedPeers ==
  IF pcRef = 0 THEN peers
  ELSE [peers EXCEPT ![pcRef].state = IF @ = "describing" THEN "aborted" ELSE "closed"]

cleanupPeer ==
  /\ disconnectTimer' = 0
  /\ pcRef' = 0
  /\ peers' = ClosedPeers

closePeer == cleanupPeer /\ currentSessionId' = NoAsk

\* The end of a session, from the peer or from an error: everything is reset,
\* whichever session is current.
PeerClosed ==
  /\ disconnectTimer' = 0 /\ pcRef' = 0 /\ currentSessionId' = NoAsk
  /\ viewerState' = "idle"
  /\ activeRequestId' = NoAsk /\ pendingSessionId' = NoAsk

\* An offer for this viewer: the old peer goes, the ICE configuration is fetched.
handleSdpOffer(s) ==
  IF currentSessionId = s /\ pcRef # 0
  THEN UNCHANGED <<viewerState, refs, provider, races>>
  ELSE /\ viewerState' = "starting"
       /\ pendingSessionId' = s
       /\ cleanupPeer
       /\ currentSessionId' = s
       /\ fetching' = fetching \cup {s}
       /\ Race("overlap", Underway)
       /\ UNCHANGED activeRequestId

\* The configuration is there: the new peer is current, whatever was before.
IceConfigArrives(s) ==
  /\ s \in fetching
  /\ fetching' = fetching \ {s}
  /\ peers' = Append(peers, [session |-> s, state |-> "describing"])
  /\ pcRef' = Len(peers) + 1
  /\ UNCHANGED <<viewerState, refs, currentSessionId, disconnectTimer, remote, races>>

IceConfigFails(s) ==
  /\ s \in fetching
  /\ fetching' = fetching \ {s}
  /\ PeerClosed /\ peers' = ClosedPeers
  /\ UNCHANGED <<remote, races>>

\* Descriptions set and the answer sent.
Answer(p) ==
  /\ peers[p].state = "describing"
  /\ peers' = [peers EXCEPT ![p].state = "answered"]
  /\ UNCHANGED <<viewerState, refs, currentSessionId, pcRef, fetching, disconnectTimer, remote, races>>

\* A description fails, as it does on a peer closed in the meantime.  The
\* error closes the current peer, which may be another one.
AnswerFails(p) ==
  /\ peers[p].state \in {"describing", "aborted"}
  /\ PeerClosed
  /\ peers' = [ClosedPeers EXCEPT ![p].state = IF p = pcRef \/ peers[p].state = "aborted"
                                               THEN "closed" ELSE "orphaned"]
  /\ UNCHANGED <<fetching, remote, races>>

\* onconnectionstatechange; a peer that is not current is not listened to.
PeerConnects(p) ==
  /\ peers[p].state \in {"answered", "shaky"}
  /\ peers' = [peers EXCEPT ![p].state = "connected"]
  /\ viewerState' = IF pcRef = p THEN "streaming" ELSE viewerState
  /\ disconnectTimer' = IF pcRef = p THEN 0 ELSE disconnectTimer
  /\ UNCHANGED <<refs, currentSessionId, pcRef, fetching, remote, races>>

PeerDisconnects(p) ==
  /\ peers[p].state = "connected"
  /\ peers' = [peers EXCEPT ![p].state = "shaky"]
  /\ disconnectTimer' = IF pcRef = p THEN p ELSE disconnectTimer
  /\ UNCHANGED <<viewerState, refs, currentSessionId, pcRef, fetching, remote, races>>

PeerFails(p) ==
  /\ peers[p].state \in {"answered", "connected", "shaky"} /\ pcRef = p
  /\ PeerClosed /\ peers' = ClosedPeers
  /\ UNCHANGED <<fetching, remote, races>>

DisconnectTimeout ==
  /\ disconnectTimer # 0
  /\ IF pcRef = disconnectTimer THEN PeerClosed /\ peers' = ClosedPeers
     ELSE disconnectTimer' = 0 /\ UNCHANGED <<viewerState, refs, currentSessionId, pcRef, peers>>
  /\ UNCHANGED <<fetching, remote, races>>

-----------------------------------------------------------------------------
(* use-live-viewer.ts                                                       *)

\* startLive, the session before it being stopped.
startLive(r) ==
  /\ use[r] = "none"
  /\ IF <<currentSessionId, pendingSessionId, activeRequestId>> # <<NoAsk, NoAsk, NoAsk>>
     THEN closePeer ELSE UNCHANGED <<currentSessionId, pcRef, peers, disconnectTimer>>
  /\ activeRequestId' = r /\ pendingSessionId' = NoAsk
  /\ viewerState' = "starting"
  /\ use' = [use EXCEPT ![r] = "start"]
  /\ call' = [call EXCEPT ![r] = "waiting"]
  /\ Race("overlap", Underway)
  /\ UNCHANGED <<fetching, offers, inbox>>

\* updateLiveLayout of a running session; without one it is startLive.
updateLiveLayout(r) ==
  LET s == IF currentSessionId # NoAsk THEN currentSessionId ELSE pendingSessionId IN
  /\ use[r] = "none" /\ s # NoAsk
  /\ activeRequestId' = r
  /\ use' = [use EXCEPT ![r] = s]
  /\ call' = [call EXCEPT ![r] = "waiting"]
  /\ Race("relabelled", currentSessionId = NoAsk)
  /\ UNCHANGED <<viewerState, pendingSessionId, provider, offers, inbox>>

\* The user stops the stream.  (The same call on pagehide and on unmounting is left out: the
\* page, and with it the state the property is about, is gone.)
stopLive ==
  /\ <<currentSessionId, pendingSessionId, activeRequestId, viewerState>> # <<NoAsk, NoAsk, NoAsk, "idle">>
  /\ closePeer
  /\ activeRequestId' = NoAsk /\ pendingSessionId' = NoAsk
  /\ viewerState' = "idle"
  /\ Race("overlap", Underway)
  /\ UNCHANGED <<fetching, remote>>

\* start-live is refused, times out or is reset with the transport.
StartFails(r) ==
  /\ use[r] = "start" /\ call[r] = "waiting"
  /\ call' = [call EXCEPT ![r] = "over"]
  /\ viewerState' = "idle"
  /\ closePeer
  /\ Race("late answer", r # activeRequestId)
  /\ UNCHANGED <<refs, fetching, use, offers, inbox>>

UpdateFails(r) ==
  /\ use[r] \in Asks /\ call[r] = "waiting"
  /\ call' = [call EXCEPT ![r] = "over"]
  /\ UNCHANGED <<viewerState, refs, provider, use, offers, inbox, races>>

\* start-live-ack, for a promise that still waits.
StartAcknowledged(r) ==
  IF call[r] # "waiting" THEN UNCHANGED <<viewerState, refs, call, races>>
  ELSE /\ call' = [call EXCEPT ![r] = "over"]
       /\ pendingSessionId' = r /\ activeRequestId' = r
       /\ viewerState' = "starting"
       /\ Race("late answer", r # activeRequestId)

UpdateAcknowledged(r) ==
  IF call[r] # "waiting" THEN UNCHANGED <<viewerState, refs, call, races>>
  ELSE /\ call' = [call EXCEPT ![r] = "over"]
       /\ pendingSessionId' = use[r] /\ activeRequestId' = r
       /\ Race("late answer", r # activeRequestId)
       /\ UNCHANGED viewerState

\* Whether an offer is for this viewer.
AcceptsOffer(s) ==
  LET expected == IF pendingSessionId # NoAsk THEN pendingSessionId ELSE currentSessionId IN
  activeRequestId \in {NoAsk, s} /\ expected \in {NoAsk, s}

Receive ==
  /\ inbox # <<>>
  /\ inbox' = Tail(inbox)
  /\ LET packet == Head(inbox) IN
     \/ /\ packet[1] = "start-live-ack"
        /\ StartAcknowledged(packet[2])
        /\ UNCHANGED provider
     \/ /\ packet[1] = "live-layout-ack"
        /\ UpdateAcknowledged(packet[2])
        /\ UNCHANGED provider
     \/ /\ packet[1] = "sdp-offer"
        /\ IF AcceptsOffer(packet[2]) THEN handleSdpOffer(packet[2])
           ELSE UNCHANGED <<viewerState, refs, provider, races>>
        /\ UNCHANGED call
  /\ UNCHANGED <<use, offers>>

-----------------------------------------------------------------------------
(* The device                                                               *)

DeviceAcknowledges(r) ==
  /\ use[r] # "none" /\ offers[r] = "none"
  /\ offers' = [offers EXCEPT ![r] = IF use[r] = "start" THEN "due" ELSE "sent"]
  /\ inbox' = Append(inbox, <<IF use[r] = "start" THEN "start-live-ack" ELSE "live-layout-ack", r>>)
  /\ UNCHANGED <<viewerState, refs, provider, use, call, races>>

DeviceOffers(r) ==
  /\ offers[r] = "due"
  /\ offers' = [offers EXCEPT ![r] = "sent"]
  /\ inbox' = Append(inbox, <<"sdp-offer", r>>)
  /\ UNCHANGED <<viewerState, refs, provider, use, call, races>>

LvNext ==
  \/ \E r \in Asks :
       \/ startLive(r) \/ updateLiveLayout(r) \/ StartFails(r) \/ UpdateFails(r)
       \/ IceConfigArrives(r) \/ IceConfigFails(r)
       \/ DeviceAcknowledges(r) \/ DeviceOffers(r)
  \/ \E p \in 1..Len(peers) :
       \/ Answer(p) \/ AnswerFails(p)
       \/ PeerConnects(p) \/ PeerDisconnects(p) \/ PeerFails(p)
  \/ stopLive \/ DisconnectTimeout \/ Receive

LvSpec == LvInit /\ [][LvNext]_lvVars

-----------------------------------------------------------------------------

\* The shape of the state.
LvTypeOK ==
  /\ viewerState \in {"idle", "starting", "streaming"}
  /\ {activeRequestId, pendingSessionId, currentSessionId} \cup fetching \subseteq Asks \cup {NoAsk}
  /\ peers \in Seq([session : Asks, state : {"describing", "answered", "connected", "shaky", "aborted",
                                             "closed", "orphaned"}])
  /\ pcRef \in 0..Len(peers) /\ disconnectTimer \in 0..Len(peers)
  /\ races \subseteq {"overlap", "late answer", "relabelled"}

OfferIsComing(s) == offers[s] \in {"none", "due"} \/ <<"sdp-offer", s>> \in Range(inbox)

\* Apart from three races - a stop, start or offer between the awaits of an
\* earlier offer; the answer of a request that is no longer the active one; a
\* change of layout between the acknowledgement and the offer - the viewer and
\* the peer agree: the one open peer is that of the current session, nothing
\* is left when idle, streaming is what the peer does, and starting is always
\* on its way somewhere.
ViewerFollowsPeer ==
  races = {} =>
    /\ pcRef # 0 => peers[pcRef].session = currentSessionId
    /\ \A p \in 1..Len(peers) : peers[p].state \notin {"closed", "aborted"} <=> p = pcRef
    /\ disconnectTimer \in {0, pcRef}
    /\ viewerState = "idle" => pcRef = 0 /\ currentSessionId = NoAsk /\ fetching = {}
    /\ viewerState = "streaming" => pcRef # 0 /\ peers[pcRef].state \in {"connected", "shaky"}
    /\ viewerState = "starting" =>
         \/ pcRef # 0 \/ fetching # {}
         \/ activeRequestId # NoAsk /\ (call[activeRequestId] = "waiting" \/ OfferIsComing(activeRequestId))
=============================================================================
