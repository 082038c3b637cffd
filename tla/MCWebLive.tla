----------------------------- MODULE MCWebLive -----------------------------
(***************************************************************************)
(* The parts between a browser and a device: the gateway, the live           *)
(* transport, and the pages built on it.  They share no state, each talks to  *)
(* the next through messages its own module makes of the environment; one run   *)
(* checks them side by side, the initial state says which is at work.            *)
(***************************************************************************)
EXTENDS LiveGateway, GatewayRateLimit, LiveTransport, LiveViewer, LiveLayout, PtzController,
        RuntimeManagerPanel, ServiceContracts, DevicePanels, RoiConfigurator, RoiCanvas, TLC

CONSTANTS w1, w2, w3, r1, r2, c1   \* model values

\* The parameters that are functions or sets of records.
MCBrowserOf == (w1 :> "a") @@ (w2 :> "a") @@ (w3 :> "b")
MCTabOf == (r1 :> "a") @@ (r2 :> "b")
MCCapacity == ("single" :> 1) @@ ("grid-4" :> 4) @@ ("focus-8" :> 8) @@ ("grid-9" :> 9)
            @@ ("grid-16" :> 16)
MCReports == {<<>>, [activeCamera |-> c1, configured |-> {c1}]}
MCDocuments == {{}, {Item(1, 1, 0, 1), Item(1, 1, 2, 2), Item(2, 3, 0, 3)}}
MCContainers == {<<4, 4>>, <<4, 2>>}
MCAspects == {<<1, 1>>, <<2, 1>>}

VARIABLE part   \* the component at work: it does not change

Parts == {"gateway", "limits", "transport", "viewer", "wall", "ptz",
          "runtime", "contracts", "panels", "roi", "canvas"}

\* A component that is not at work holds no state.
GwOff ==
    /\ sock = 0 /\ setup = 0 /\ clients = 0 /\ mayUse = 0
    /\ subscriptionRefs = 0 /\ wire = 0 /\ subscribed = 0 /\ requestOwners = 0
    /\ sessionOwners = 0 /\ clientRequests = 0 /\ clientSessions = 0 /\ limiters = 0
    /\ lastKnownStatuses = 0 /\ lastUser = 0 /\ shared = 0
    /\ failed = 0
GlOff ==
    /\ rateLimit = 0 /\ nowMs = 0 /\ messageTimestamps = 0 /\ commandTimestamps = 0
    /\ limited = 0 /\ accepted = 0
LtOff ==
    /\ device = 0 /\ activeDevice = 0 /\ mounted = 0 /\ client = 0
    /\ made = 0 /\ lc = 0 /\ socket = 0 /\ transportState = 0
    /\ view = 0 /\ pendingRequests = 0 /\ timeouts = 0 /\ promise = 0
    /\ carrier = 0 /\ sent = 0 /\ dropped = 0 /\ rerun = 0
LvOff ==
    /\ viewerState = 0 /\ activeRequestId = 0 /\ pendingSessionId = 0 /\ currentSessionId = 0
    /\ pcRef = 0 /\ peers = 0 /\ fetching = 0 /\ disconnectTimer = 0
    /\ use = 0 /\ call = 0 /\ offers = 0 /\ inbox = 0
    /\ races = 0
LlOff ==
    /\ enabledCameras = 0 /\ layoutMode = 0 /\ layoutStartIndex = 0 /\ selectedCamera = 0
PtzOff ==
    /\ ptzCamera = 0 /\ online = 0 /\ reported = 0 /\ ptzState = 0
    /\ activeDirection = 0 /\ statusKey = 0 /\ refreshKey = 0 /\ held = 0
    /\ command = 0 /\ queries = 0 /\ ptzTurns = 0 /\ driving = 0
    /\ strayed = 0
RmOff ==
    /\ definitionServiceName = 0 /\ definitionCache = 0 /\ definitionDraft = 0 /\ mutation = 0
    /\ reachable = 0 /\ rmTurns = 0 /\ installed = 0 /\ unseen = 0
ScOff ==
    /\ calls = 0 /\ handled = 0 /\ air = 0 /\ answered = 0
    /\ heard = 0
DpOff ==
    /\ panel = 0 /\ panelOnline = 0 /\ drafts = 0 /\ sending = 0
    /\ jobsMade = 0 /\ acked = 0 /\ picked = 0 /\ filter = 0
    /\ jobsRefreshKey = 0 /\ cache = 0 /\ panelTurns = 0
RoiOff ==
    /\ stored = 0 /\ document = 0 /\ roiBusy = 0 /\ cameraInput = 0
    /\ baseInput = 0 /\ roiInput = 0 /\ boxDrawn = 0 /\ ops = 0
    /\ edits = 0 /\ savedEdits = 0 /\ undone = 0 /\ raced = 0
    /\ roiTurns = 0
RcvOff ==
    /\ container = 0 /\ aspect = 0 /\ drawActive = 0 /\ dragStart = 0
    /\ draftBox = 0 /\ reframed = 0

Init ==
    /\ part \in Parts
    /\ IF part = "gateway" THEN GwInit ELSE GwOff
    /\ IF part = "limits" THEN GlInit ELSE GlOff
    /\ IF part = "transport" THEN LtInit ELSE LtOff
    /\ IF part = "viewer" THEN LvInit ELSE LvOff
    /\ IF part = "wall" THEN LlInit ELSE LlOff
    /\ IF part = "ptz" THEN PtzInit ELSE PtzOff
    /\ IF part = "runtime" THEN RmInit ELSE RmOff
    /\ IF part = "contracts" THEN ScInit ELSE ScOff
    /\ IF part = "panels" THEN DpInit ELSE DpOff
    /\ IF part = "roi" THEN RoiInit ELSE RoiOff
    /\ IF part = "canvas" THEN RcvInit ELSE RcvOff

OthersOff(p) ==
    /\ UNCHANGED part
    /\ IF p = "gateway" THEN TRUE ELSE UNCHANGED gwVars
    /\ IF p = "limits" THEN TRUE ELSE UNCHANGED glVars
    /\ IF p = "transport" THEN TRUE ELSE UNCHANGED ltVars
    /\ IF p = "viewer" THEN TRUE ELSE UNCHANGED lvVars
    /\ IF p = "wall" THEN TRUE ELSE UNCHANGED llVars
    /\ IF p = "ptz" THEN TRUE ELSE UNCHANGED ptzVars
    /\ IF p = "runtime" THEN TRUE ELSE UNCHANGED rmVars
    /\ IF p = "contracts" THEN TRUE ELSE UNCHANGED scVars
    /\ IF p = "panels" THEN TRUE ELSE UNCHANGED dpVars
    /\ IF p = "roi" THEN TRUE ELSE UNCHANGED roiVars
    /\ IF p = "canvas" THEN TRUE ELSE UNCHANGED rcvVars

GwStep == part = "gateway" /\ GwNext /\ OthersOff("gateway")
GlStep == part = "limits" /\ GlNext /\ OthersOff("limits")
LtStep == part = "transport" /\ LtNext /\ OthersOff("transport")
LvStep == part = "viewer" /\ LvNext /\ OthersOff("viewer")
LlStep == part = "wall" /\ LlNext /\ OthersOff("wall")
PtzStep == part = "ptz" /\ PtzNext /\ OthersOff("ptz")
RmStep == part = "runtime" /\ RmNext /\ OthersOff("runtime")
ScStep == part = "contracts" /\ ScNext /\ OthersOff("contracts")
DpStep == part = "panels" /\ DpNext /\ OthersOff("panels")
RoiStep == part = "roi" /\ RoiNext /\ OthersOff("roi")
RcvStep == part = "canvas" /\ RcvNext /\ OthersOff("canvas")

Next ==
    \/ GwStep
    \/ GlStep
    \/ LtStep
    \/ LvStep
    \/ LlStep
    \/ PtzStep
    \/ RmStep
    \/ ScStep
    \/ DpStep
    \/ RoiStep
    \/ RcvStep

vars == <<part, gwVars, glVars, ltVars, lvVars, llVars, ptzVars, rmVars, scVars, dpVars, roiVars,
          rcvVars>>

Spec == Init /\ [][Next]_vars

\* The devices a page may be switched to are alike.
LiveSymmetry == Permutations(Targets)

\* Each component's variables have their types (the state hooks, maps and refs of the modules
\* named above).
WebLiveTypeOK ==
    /\ part = "gateway" => GwTypeOK
    /\ part = "limits" => GlTypeOK
    /\ part = "transport" => LtTypeOK
    /\ part = "viewer" => LvTypeOK
    /\ part = "wall" => LlTypeOK
    /\ part = "ptz" => PtzTypeOK
    /\ part = "runtime" => RmTypeOK
    /\ part = "contracts" => ScTypeOK
    /\ part = "panels" => DpTypeOK
    /\ part = "roi" => RoiTypeOK
    /\ part = "canvas" => RcvTypeOK

\* The gateway keeps its tables to its clients: a device's MQTT subscription is counted once
\* for every entry in clients and lasts as long as there is one, a packet or a session is aimed
\* at sockets that are clients, an ended socket keeps no route, no limiter and nothing it owns,
\* and no client gets more messages through in a window than the configured rate, its commands
\* counted among them (ws-handler.ts, gateway-rate-limit.ts).  The exceptions are those of the
\* code: after a failed SUBSCRIBE the count of the device is not vouched for, a socket that
\* closed before its handlers were installed keeps its entry and its reference, and the answers
\* to a request whose socket is gone, or whose id an earlier socket of the tab took along, go to
\* every client of the device.
GatewayServesItsClients ==
    /\ part = "gateway" => CountsItsClients /\ RoutesToClients /\ EndedLeavesNothing
    /\ part = "limits" => RateIsBounded

\* What a live page holds is accounted for: a request is answered, timed out or failed and never
\* forgotten, whatever becomes of its socket; a client has one socket; a page shows the device
\* it is mounted for; a call ends with the answer to that very call; the video shown is that of
\* the current session's peer; the camera wall shows the camera selected (live-transport-
\* provider.tsx, live-client.ts, use-typed-device-service.ts, use-live-viewer.ts, live-
\* layout.ts).  It is not said of a client whose effect ran again (rerun: it may keep two
\* sockets), nor of a viewer once one of three races has happened (an overlap with the awaits of
\* an offer, the answer of a request that is no longer active, a session relabelled by a change
\* of layout), nor of a call that cloud-comm refused: that waits for its timer.
LivePagesKeepTrack ==
    /\ part = "transport" => RequestsAccounted /\ OneSocketPerClient /\ ShowsOwnDevice
    /\ part = "contracts" => CallerGetsItsAnswer
    /\ part = "viewer" => ViewerFollowsPeer
    /\ part = "wall" => WallShowsSelection

\* A device's pages keep to the device's own state through lost, late, failed and repeated
\* answers: a camera that moves has a stop on its way or is still at hand, the runtime manager
\* shows the definition installed once a change was acknowledged, a job acknowledged is in the
\* list shown next, an ROI edit saved is not undone by an older answer, and a box drawn lies
\* inside the frame (use-ptz-controller.ts, use-runtime-manager.ts, the audio-manager and cloud-
\* transfer panels, use-roi-config.ts, roi-video-editor.tsx).  It is not said of a camera that
\* was deselected before its start was answered, whose commands a broken connection took, or
\* that moved on after a command failed while the page knew of no move (strayed); of a definition
\* changed elsewhere, by a request that failed here, or while the answer to its first load was
\* under way (unseen); nor of ROI edits once a refresh and a save overlapped, a save timed out
\* and was carried out, or the page saved before it had a document (raced).
DevicePagesShowTheDevice ==
    /\ part = "ptz" => NoCameraRunsOn
    /\ part = "runtime" => ShowsWhatIsInstalled
    /\ part = "panels" => QueuedJobIsShown
    /\ part = "roi" => SavedEditsStay
    /\ part = "canvas" => DrawnBoxIsInFrame
=============================================================================
