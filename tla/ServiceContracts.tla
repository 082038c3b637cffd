-------------------------- MODULE ServiceContracts --------------------------
(***************************************************************************)
(* core/trakrai-live-transport: the generated service contracts and the       *)
(* typed client built on them.  A contract says which messages may answer a    *)
(* method; the client waits for those types on their subtopics, tells an       *)
(* error from an answer by the name of the type, and hears events by their     *)
(* output.  On the device each service answers as its handler does (ServedBy),  *)
(* cloud-comm refuses what it cannot route, packets travel in any order or get   *)
(* lost.                                                                       *)
(* Of a payload only the parts a caller reads are kept.                        *)
(***************************************************************************)
EXTENDS Naturals, FiniteSets

CONSTANTS CallIds     \* request ids, each used once

ASSUME ScAssumption == CallIds \subseteq Nat \ {0}

VARIABLES calls,      \* id -> [service, method, state, got]
          handled,    \* requests the device has taken
          air,        \* packets on their way to the browser
          answered,   \* history: ids for which an answer of the service has arrived
          heard       \* history: <<event subscribed to, packet its handler got>>

scVars == <<calls, handled, air, answered, heard>>

---------------------------------------------------------------------------
\* service-contract-runtime.ts and the generated contracts.

\* A table of one row, and two tables as one (TLC's :> and @@, which the prover cannot expand).
k ** v == [x \in {k} |-> v]
f ++ g == [x \in DOMAIN f \cup DOMAIN g |-> IF x \in DOMAIN f THEN f[x] ELSE g[x]]

defineServiceContractOutput(kind, type, sub) == [kind |-> kind, messageType |-> type, subtopic |-> sub]
defineServiceContractMethod(ok, bad) ==
    {defineServiceContractOutput("success", ok, "response"), defineServiceContractOutput("error", bad, "response")}
Only(ok) == {defineServiceContractOutput("success", ok, "response")}
Methods(M, ok, bad) == [m \in M |-> defineServiceContractMethod(ok, bad)]

audio_managerContract ==
    "play-audio" ** (defineServiceContractMethod("audio-manager-job", "audio-manager-error")
                      \cup {defineServiceContractOutput("event", "audio-manager-result", "response")})
    ++ "get-job" ** defineServiceContractMethod("audio-manager-job", "audio-manager-error")
    ++ "list-jobs" ** Only("audio-manager-list") ++ "get-status" ** Only("audio-manager-status")

cloud_transferQueueing ==
    Methods({"enqueue-upload", "enqueue-download", "get-transfer"}, "cloud-transfer-transfer", "cloud-transfer-error")
cloud_transferContract ==
    cloud_transferQueueing
    ++ "list-transfers" ** defineServiceContractMethod("cloud-transfer-list", "cloud-transfer-error")
    ++ "get-stats" ** defineServiceContractMethod("cloud-transfer-stats", "cloud-transfer-error")
    ++ "get-status" ** defineServiceContractMethod("cloud-transfer-status", "cloud-transfer-error")

live_feedContract ==
    "start-live" ** (Only("start-live-ack") \cup {defineServiceContractOutput("event", "sdp-offer", "webrtc/offer"),
                                                  defineServiceContractOutput("event", "ice-candidate", "webrtc/ice")})
    ++ "update-live-layout" ** Only("live-layout-updated")
    ++ [m \in {"stop-live", "sdp-answer", "ice-candidate"} |-> {}]

ptz_controlReads ==
    "get-status" ** defineServiceContractMethod("ptz-status", "ptz-error")
    ++ "get-position" ** defineServiceContractMethod("ptz-position", "ptz-error")
ptz_controlMoves == Methods({"start-move", "stop-move"}, "ptz-command-ack", "ptz-error")
ptz_controlContract ==
    ptz_controlReads ++ ptz_controlMoves ++ Methods({"set-zoom", "set-position", "go-home"}, "ptz-command-ack", "ptz-error")

roi_configContract ==
    "get-status" ** defineServiceContractMethod("roi-config-status", "roi-config-error")
    ++ Methods({"get-config", "save-config"}, "roi-config-document", "roi-config-error")

runtime_managerReads ==
    "get-status" ** defineServiceContractMethod("runtime-manager-status", "runtime-manager-error")
    ++ "get-config" ** defineServiceContractMethod("runtime-manager-config", "runtime-manager-error")
    ++ "list-configs" ** defineServiceContractMethod("runtime-manager-config-list", "runtime-manager-error")
runtime_managerInspects ==
    "get-service-definition" ** defineServiceContractMethod("runtime-manager-service-definition", "runtime-manager-error")
    ++ "get-service-log" ** defineServiceContractMethod("runtime-manager-log", "runtime-manager-error")
runtime_managerPuts ==
    "put-config" ** defineServiceContractMethod("runtime-manager-config", "runtime-manager-error")
    ++ "put-runtime-file" ** defineServiceContractMethod("runtime-manager-file", "runtime-manager-error")
runtime_managerActions ==
    Methods({"remove-service", "restart-service", "start-service"}, "runtime-manager-service-action", "runtime-manager-error")
runtime_managerChanges ==
    Methods({"stop-service", "upsert-service"}, "runtime-manager-service-action", "runtime-manager-error")
    ++ "update-service" ** defineServiceContractMethod("runtime-manager-update", "runtime-manager-error")
runtime_managerContract ==
    runtime_managerReads ++ runtime_managerInspects ++ runtime_managerPuts ++ runtime_managerActions ++ runtime_managerChanges

video_recorderJobs == Methods({"record-clip", "get-job"}, "video-recorder-job", "video-recorder-error")
video_recorderQueries ==
    "list-jobs" ** defineServiceContractMethod("video-recorder-list", "video-recorder-error")
    ++ "get-status" ** defineServiceContractMethod("video-recorder-status", "video-recorder-error")
video_recorderContract ==
    video_recorderJobs ++ video_recorderQueries
    ++ "capture-photo" ** defineServiceContractMethod("video-recorder-photo", "video-recorder-error")

workflow_engineContract ==
    "enqueue-detection" ** defineServiceContractMethod("workflow-engine-result", "workflow-engine-error")
    ++ "get-status" ** Only("workflow-engine-status")

Contracts ==
    "audio-manager" ** audio_managerContract ++ "cloud-transfer" ** cloud_transferContract
    ++ "live-feed" ** live_feedContract ++ "ptz-control" ** ptz_controlContract
    ++ "roi-config" ** roi_configContract ++ "runtime-manager" ** runtime_managerContract
    ++ "video-recorder" ** video_recorderContract ++ "workflow-engine" ** workflow_engineContract

\* What the payload of each message carries.
audio_managerPayloads ==
    [t \in {"audio-manager-job", "audio-manager-result"} |-> {"requestId", "job"}]
    ++ "audio-manager-list" ** {"requestId", "jobs"} ++ "audio-manager-status" ** {"requestId", "stats"}
    ++ "audio-manager-error" ** {"requestId", "error"}
cloud_transferPayloads ==
    "cloud-transfer-transfer" ** {"requestId", "transfer"} ++ "cloud-transfer-list" ** {"requestId", "items"}
    ++ "cloud-transfer-stats" ** {"requestId", "stats"} ++ "cloud-transfer-status" ** {"requestId", "stats", "sharedDir"}
    ++ "cloud-transfer-error" ** {"requestId", "error"}
live_feedPayloads ==
    "start-live-ack" ** {"requestId", "ok", "sessionId"} ++ "live-layout-updated" ** {"requestId", "sessionId", "layout"}
    ++ "sdp-offer" ** {"requestId", "sessionId", "sdp"} ++ "ice-candidate" ** {"requestId", "sessionId", "candidate"}
ptz_controlPayloads ==
    "ptz-status" ** {"requestId", "cameras", "position"} ++ "ptz-position" ** {"requestId", "position"}
    ++ "ptz-command-ack" ** {"requestId", "ok", "position"} ++ "ptz-error" ** {"requestId", "error"}
roi_configPayloads ==
    "roi-config-status" ** {"requestId", "counts"} ++ "roi-config-document" ** {"requestId", "document"}
    ++ "roi-config-error" ** {"requestId", "error"}
RuntimeSystemSnapshot == {"cpu", "disks", "gpu", "load", "memory", "network"}
runtime_managerStatus == "runtime-manager-status" ** ({"requestId", "services"} \cup RuntimeSystemSnapshot)
runtime_managerPayloads ==
    runtime_managerStatus
    ++ [t \in {"runtime-manager-service-action", "runtime-manager-update"} |-> {"requestId", "serviceName", "service"}]
    ++ "runtime-manager-service-definition" ** {"requestId", "serviceName", "definition"}
    ++ "runtime-manager-log" ** {"requestId", "serviceName", "lines"}
    ++ "runtime-manager-config-list" ** {"requestId", "configs"} ++ "runtime-manager-config" ** {"requestId", "config"}
    ++ "runtime-manager-file" ** {"requestId", "path"} ++ "runtime-manager-error" ** {"requestId", "error"}
video_recorderPayloads ==
    "video-recorder-job" ** {"requestId", "job"} ++ "video-recorder-photo" ** {"requestId", "photo"}
    ++ "video-recorder-list" ** {"requestId", "items"} ++ "video-recorder-status" ** {"requestId", "stats", "cameras"}
    ++ "video-recorder-error" ** {"requestId", "error"}
workflow_enginePayloads ==
    "workflow-engine-result" ** {"requestId", "run"} ++ "workflow-engine-status" ** {"requestId", "queue", "stats"}
    ++ "workflow-engine-error" ** {"requestId", "error"}
Payloads ==
    audio_managerPayloads ++ cloud_transferPayloads ++ live_feedPayloads ++ ptz_controlPayloads ++ roi_configPayloads
    ++ runtime_managerPayloads ++ video_recorderPayloads ++ workflow_enginePayloads

\* Mutant: the answers of a method are its successes.
OnlySuccesses(s, m) == {o \in Contracts[s][m] : o.subtopic = "response" /\ o.kind = "success"}

getServiceContractResponseOutputs(s, m) == {o \in Contracts[s][m] : o.subtopic = "response"}

ResponseMethods(s) ==
    {m \in DOMAIN Contracts[s] : \E o \in getServiceContractResponseOutputs(s, m) : o.kind = "success"}
SuccessTypes(s, m) == {o.messageType : o \in {x \in Contracts[s][m] : x.kind = "success" /\ x.subtopic = "response"}}

EventOutputs(s) == {o \in UNION {Contracts[s][m] : m \in DOMAIN Contracts[s]} : o.kind = "event"}

\* The first output of that event: one of them, when there are several.
getServiceContractEventOutput(s, t) == {o \in EventOutputs(s) : o.messageType = t}

---------------------------------------------------------------------------
\* The typed client.

Idle == [service |-> "", method |-> "", state |-> "none", got |-> <<>>]

ScInit ==
    /\ calls = [c \in CallIds |-> Idle]
    /\ handled = {} /\ air = {} /\ answered = {} /\ heard = {}

\* request: the id goes into the payload, over whatever id the input had.
request(c, s, m) ==
    /\ calls[c].state = "none" /\ \A d \in CallIds : d < c => calls[d].state # "none"
    /\ calls' = [calls EXCEPT ![c] = [service |-> s, method |-> m, state |-> "waiting", got |-> <<>>]]
    /\ UNCHANGED <<handled, air, answered, heard>>

Packet(s, t, sub, c, parts) == [service |-> s, type |-> t, subtopic |-> sub, id |-> c, parts |-> parts]
Reply(s, t, c) == Packet(s, t, "response", c, Payloads[t])

ErrorTypes(s, m) == {o.messageType : o \in {x \in Contracts[s][m] : x.kind = "error"}}

\* _handle_play_audio: the job is answered while the worker may already have
\* finished it, or failed; or it is refused.
PlayAudioServed(s, m, c) ==
    LET ok == {Reply(s, t, c) : t \in SuccessTypes(s, m)}
        bad == Reply(s, "audio-manager-error", c)
    IN  {ok, ok \cup {Reply(s, "audio-manager-result", c)}, ok \cup {bad}, {bad}}

\* HandleStartLive: an acknowledgement, then the offer of a session; nothing for
\* a payload that makes no layout.
StartLiveServed(s, m, c) ==
    LET ok == {Reply(s, t, c) : t \in SuccessTypes(s, m)} IN
    {{}, ok, ok \cup {Packet(s, "sdp-offer", "webrtc/offer", c, Payloads["sdp-offer"]),
                      Packet(s, "ice-candidate", "webrtc/ice", c, Payloads["ice-candidate"])}}

\* HandleUpdateLiveLayout: a failure is not answered at all.
UpdateLayoutServed(s, m, c) == {{Reply(s, t, c) : t \in SuccessTypes(s, m)}, {}}

\* A payload that roi-config and ptz-control cannot decode is refused without its
\* request id (0).
UndecodedServed(s, m) ==
    IF s \in {"roi-config", "ptz-control"} THEN {{Reply(s, t, 0)} : t \in ErrorTypes(s, m)} ELSE {}

\* The other methods are answered or refused.
ServedBy(s, m, c) ==
    CASE m = "play-audio" -> PlayAudioServed(s, m, c)
      [] m = "start-live" -> StartLiveServed(s, m, c)
      [] m = "update-live-layout" -> UpdateLayoutServed(s, m, c)
      [] OTHER -> {{Reply(s, t, c) : t \in SuccessTypes(s, m)}}
                  \cup {{Reply(s, t, c)} : t \in ErrorTypes(s, m)} \cup UndecodedServed(s, m)

DeviceHandles(c) ==
    /\ calls[c].state # "none" /\ c \notin handled
    /\ handled' = handled \cup {c}
    /\ \E A \in ServedBy(calls[c].service, calls[c].method, c) : air' = air \cup A
    /\ UNCHANGED <<calls, answered, heard>>

Unavailable == "service-unavailable"

\* The service is not registered, or its connection fails: cloud-comm answers in its place.
RefusesCommand(c) ==
    /\ calls[c].state # "none" /\ c \notin handled
    /\ handled' = handled \cup {c}
    /\ air' = air \cup {Packet(calls[c].service, Unavailable, "response", c, {"requestId", "error"})}
    /\ UNCHANGED <<calls, answered, heard>>

\* The suffixes that TLA+ strings cannot be asked for.
ErrorSuffixed == {t \in DOMAIN Payloads : "error" \in Payloads[t]}

\* Mutant: only the bare names are errors.
BareNames(t) == t \in {"service-unavailable", "error"}

isErrorResponseType(t) == t \in {"service-unavailable", "error"} \/ t \in ErrorSuffixed

\* useDeviceService.subscribe with the output of the event.
Hears(p) == {<<t, p>> : t \in {o.messageType : o \in {x \in EventOutputs(p.service) :
                                 \E y \in getServiceContractEventOutput(p.service, x.messageType) :
                                    p.type = x.messageType /\ p.subtopic = y.subtopic}}}

\* dispatchPacket: handlers first, then the request it answers, if it is still
\* waiting and expects that type on that subtopic.
Arrives(p) ==
    /\ p \in air
    /\ air' = air \ {p}
    /\ heard' = heard \cup Hears(p)
    /\ LET c == p.id
           waits == c # 0 /\ calls[c].state = "waiting" /\ "requestId" \in p.parts /\ calls[c].service = p.service
           mine == waits /\ \E o \in getServiceContractResponseOutputs(calls[c].service, calls[c].method) :
                               o.messageType = p.type /\ o.subtopic = p.subtopic
       IN  /\ calls' = IF mine
                       THEN [calls EXCEPT ![c].state = IF isErrorResponseType(p.type) THEN "rejected" ELSE "resolved",
                                          ![c].got = <<p>>]
                       ELSE calls
           /\ answered' = IF c # 0 /\ p.subtopic = "response" /\ p.type # Unavailable THEN answered \cup {c} ELSE answered
    /\ UNCHANGED handled

Lost(p) ==
    /\ p \in air
    /\ air' = air \ {p}
    /\ UNCHANGED <<calls, handled, answered, heard>>

TimesOut(c) ==
    /\ calls[c].state = "waiting"
    /\ calls' = [calls EXCEPT ![c].state = "timed out"]
    /\ UNCHANGED <<handled, air, answered, heard>>

ScNext ==
    \/ \E c \in CallIds, s \in DOMAIN Contracts : \E m \in ResponseMethods(s) : request(c, s, m)
    \/ \E c \in CallIds : DeviceHandles(c) \/ RefusesCommand(c) \/ TimesOut(c)
    \/ \E p \in air : Arrives(p) \/ Lost(p)

ScSpec == ScInit /\ [][ScNext]_scVars

---------------------------------------------------------------------------
ScTypeOK ==
    /\ \A c \in CallIds : calls[c].state \in {"none", "waiting", "resolved", "rejected", "timed out"}
    /\ handled \cup answered \subseteq CallIds
    /\ \A p \in air : p.service \in DOMAIN Contracts /\ p.id \in CallIds \cup {0}

\* Every answer a service sends is recognised, and for what it is: a call is
\* resolved only with the payload its method promises, and rejected only by an
\* error of its own service; no call goes on waiting once the service has answered
\* it, whatever other answers and events are about; and a handler of an event is
\* given that event only, every time it arrives.  The refusal of cloud-comm is no
\* answer of the service: no contract names service-unavailable, so the typed client
\* passes it by (use-typed-device-service.ts, dispatchPacket) and the call waits for
\* its timer.
CallerGetsItsAnswer ==
    /\ \A c \in CallIds :
         /\ calls[c].state = "resolved" =>
              /\ calls[c].got[1].id = c
              /\ \A t \in SuccessTypes(calls[c].service, calls[c].method) : calls[c].got[1].parts = Payloads[t]
         /\ calls[c].state = "rejected" =>
              calls[c].got[1].id = c /\ calls[c].got[1].type \in ErrorTypes(calls[c].service, calls[c].method)
         /\ c \in answered => calls[c].state # "waiting"
    /\ \A h \in heard : h[1] = h[2].type
    /\ \A s \in DOMAIN Contracts : \A o \in EventOutputs(s) :
         Cardinality(getServiceContractEventOutput(s, o.messageType)) = 1
=============================================================================
