---------------------------- MODULE PtzController ----------------------------
(***************************************************************************)
(* trakrai-ptz-controller: the camera drive of the device page.  The hook   *)
(* (use-ptz-controller.ts) turns a button held and released into start-move *)
(* and stop-move requests, and its cleanup effect sends one more stop when  *)
(* what it depends on changes.  Commands reach the device in the order they *)
(* were sent; answers settle in any order, late, as errors, or never (the   *)
(* request then times out).  The device's side, ptzcontrol/service.go, is   *)
(* the one action DeviceTakes: a failed command may have reached the camera *)
(* or not.  Positions and ranges, which disable the button towards a limit, *)
(* are left out: any direction may be one that can be pressed.              *)
(***************************************************************************)
EXTENDS Integers, Sequences, FiniteSets, SequencesExt

CONSTANTS
  PtzCameras,
  Reports,         \* what a device status may say of ptz-control; <<>>: it is not there
  MaxCommands, MaxQueries,   \* bounds on what is under way at once
  MaxPtzTurns,        \* bound on what the page and the transport do besides the drive buttons
  NoCamera         \* '', null

\* A status names cameras of the device, or none.
ASSUME PtzAssumption ==
  /\ MaxCommands \in Nat
  /\ NoCamera \notin PtzCameras
  /\ <<>> \in Reports
  /\ \A report \in Reports \ {<<>>} :
       report.activeCamera \in PtzCameras \cup {NoCamera} /\ report.configured \subseteq PtzCameras

VARIABLES
  ptzCamera,       \* selectedCameraName
  online,          \* transportState === 'connected'
  reported,        \* reportedPtzState: what the last device status says of ptz-control, <<>> nothing
  ptzState,        \* activeCamera, configuredCameras; loaded: not null
  activeDirection,
  statusKey, refreshKey,  \* lastStatusRequestKeyRef and lastAutoRefreshKeyRef: the camera of each
  held,            \* the direction button the pointer is down on
  command,         \* the commands not settled, in the order sent: kind, camera, direction, and where each is
  queries,         \* get-status and get-position requests not settled
  ptzTurns,           \* bound: what the page and the transport did so far
  driving,         \* the cameras that move
  strayed          \* history: cameras the selection left, or whose command was lost or failed,
                   \*   while their move was not known here

ptzVars == <<ptzCamera, online, reported, ptzState, activeDirection, statusKey, refreshKey, held,
             command, queries, ptzTurns, driving, strayed>>

PtzDirections == {"left", "right"}

PtzInit ==
  /\ ptzCamera = NoCamera /\ online = FALSE /\ reported = <<>>
  /\ ptzState = [activeCamera |-> NoCamera, configured |-> {}, loaded |-> FALSE]
  /\ activeDirection = "none" /\ statusKey = "none" /\ refreshKey = "none"
  /\ held = "none"
  /\ command = <<>> /\ queries = {} /\ ptzTurns = 0
  /\ driving = {} /\ strayed = {}

-----------------------------------------------------------------------------
(* What is derived on every render                                          *)

ReportedCamera == IF reported = <<>> THEN NoCamera ELSE reported.activeCamera

cameraName ==
  IF ptzCamera # NoCamera THEN ptzCamera
  ELSE IF ptzState.activeCamera # NoCamera THEN ptzState.activeCamera ELSE ReportedCamera

ptzConfiguredCameras ==
  IF ptzState.loaded THEN ptzState.configured
  ELSE IF reported # <<>> THEN reported.configured ELSE {}

controlsEnabled ==
  /\ reported # <<>> /\ cameraName # NoCamera
  /\ ptzConfiguredCameras = {} \/ cameraName \in ptzConfiguredCameras

-----------------------------------------------------------------------------
(* Effects of a render                                                      *)

Command(kind, camera, direction) ==
  [kind |-> kind, camera |-> camera, direction |-> direction, at |-> "sent"]

\* Mutant: the cleanup stops the camera that is selected now.
StopsNewCamera(renewed) ==
  IF /\ activeDirection # "none" /\ cameraName # NoCamera
     /\ renewed \/ cameraName' # cameraName \/ activeDirection' # activeDirection
  THEN <<Command("stop-notify", cameraName', "none")>> ELSE <<>>

\* The cleanup of the movement effect: its dependencies changed, and it knows of a move.
CleanupStop(renewed) ==
  IF /\ activeDirection # "none" /\ cameraName # NoCamera
     /\ renewed \/ cameraName' # cameraName \/ activeDirection' # activeDirection
  THEN <<Command("stop-notify", cameraName, "none")>> ELSE <<>>

\* The refresh effect: a status for every camera and connection, a position for every camera.
RefreshEffect(open) ==
  LET camera == cameraName' IN
  IF online'
  THEN /\ statusKey' = camera
       /\ refreshKey' = IF camera = NoCamera THEN "none" ELSE camera
       /\ queries' = (open
            \cup (IF statusKey # camera THEN {<<"get-status", camera>>} ELSE {})
            \cup (IF camera \notin {NoCamera, refreshKey} THEN {<<"get-position", camera>>} ELSE {}))
  ELSE /\ statusKey' = "none"
       /\ refreshKey' = IF camera = NoCamera THEN "none" ELSE refreshKey
       /\ queries' = open

PtzTurn == ptzTurns < MaxPtzTurns /\ ptzTurns' = ptzTurns + 1

\* A commit: both effects, after the commands the handler sent itself.
Commit(sends, renewed) ==
  /\ command' = sends \o CleanupStop(renewed)
  /\ Len(command') <= MaxCommands
  /\ RefreshEffect(queries) /\ Cardinality(queries') <= MaxQueries

\* The cameras a selection leaves while the answer to their start-move is still out.
LeftBehind ==
  IF cameraName' # cameraName /\ cameraName # NoCamera /\ activeDirection = "none"
  THEN {cameraName} \cap {command[i].camera : i \in {j \in 1..Len(command) : command[j].kind = "start"}}
  ELSE {}

-----------------------------------------------------------------------------
(* The page and the transport                                               *)

SelectCamera(camera) ==
  /\ PtzTurn
  /\ camera # ptzCamera
  /\ ptzCamera' = camera
  /\ UNCHANGED <<online, reported, ptzState, activeDirection, held, driving>>
  /\ Commit(command, FALSE)
  /\ strayed' = strayed \cup LeftBehind

\* The socket goes: what was under way on it is lost, the requests are left to time out.  None
\* of these is on its way any more, so their order no longer counts.
Disconnects ==
  LET lost == {i \in 1..Len(command) : command[i].at = "sent"}
      awaited == {i \in 1..Len(command) : command[i].at # "sent" \/ command[i].kind # "stop-notify"}
      kept == [n \in 1..Cardinality(awaited) |-> command[SetToSeq(awaited)[n]]]
  IN
  /\ PtzTurn
  /\ online
  /\ online' = FALSE
  /\ UNCHANGED <<ptzCamera, reported, ptzState, activeDirection, held, driving>>
  /\ Commit([i \in 1..Cardinality(awaited) |-> IF kept[i].at = "sent" THEN [kept[i] EXCEPT !.at = "lost"] ELSE kept[i]],
            TRUE)
  /\ strayed' = strayed \cup {command[i].camera : i \in lost}

Connects ==
  /\ PtzTurn
  /\ ~online
  /\ online' = TRUE
  /\ UNCHANGED <<ptzCamera, reported, ptzState, activeDirection, held, driving, strayed>>
  /\ Commit(command, TRUE)

\* Every status, log line and heartbeat tick makes a new context value, hence a new ptzService.
ContextRenews(status) ==
  /\ PtzTurn
  /\ status # reported \/ activeDirection # "none"
  /\ reported' = status
  /\ UNCHANGED <<ptzCamera, online, ptzState, activeDirection, held, driving>>
  /\ Commit(command, TRUE)
  /\ strayed' = strayed \cup LeftBehind

-----------------------------------------------------------------------------
(* The panel: a pointer goes down on a direction, and up (or away)          *)

beginMove(direction) ==
  /\ held = "none" /\ controlsEnabled
  /\ held' = direction
  /\ UNCHANGED <<ptzTurns, ptzCamera, online, reported, ptzState, activeDirection, driving, strayed>>
  /\ Commit(Append(command, Command("start", cameraName, direction)), FALSE)

endMove ==
  /\ held # "none"
  /\ held' = "none"
  /\ UNCHANGED <<ptzTurns, ptzCamera, online, reported, ptzState, activeDirection, driving, strayed>>
  /\ Commit(IF cameraName = NoCamera THEN command
            ELSE Append(command, Command("stop", cameraName, "none")), FALSE)

\* setPosition, setZoom and goHome.
SendTarget ==
  /\ PtzTurn
  /\ cameraName # NoCamera
  /\ UNCHANGED <<ptzCamera, online, reported, ptzState, activeDirection, held, driving, strayed>>
  /\ Commit(Append(command, Command("target", cameraName, "none")), FALSE)

refreshPosition ==
  /\ PtzTurn
  /\ cameraName # NoCamera
  /\ queries' = queries \cup {<<"get-position", cameraName>>}
  /\ Cardinality(queries') <= MaxQueries
  /\ UNCHANGED <<ptzCamera, online, reported, ptzState, activeDirection, statusKey, refreshKey,
                 held, command, driving, strayed>>

-----------------------------------------------------------------------------
(* The device, which takes the commands in order                            *)

IsNextCommand(i) == command[i].at = "sent" /\ \A j \in 1..(i - 1) : command[j].at # "sent"

\* HandleStartMove and HandleStopMove (the others leave the drive alone).  An error is answered
\* before the camera was reached or after: a start fails once the camera moves when reading its
\* capabilities does, a stop once it rests when reading its position does.
DeviceTakes(i, answer) ==
  LET k == command[i]
      done == IF k.kind = "start" THEN driving \cup {k.camera}
              ELSE IF k.kind = "target" THEN driving ELSE driving \ {k.camera}
      known == cameraName = k.camera /\ activeDirection # "none"
  IN
  /\ online /\ IsNextCommand(i)
  /\ command' = IF k.kind = "stop-notify" THEN RemoveAt(command, i)
                ELSE [command EXCEPT ![i].at = answer]
  /\ driving' \in IF answer = "ack" THEN {done} ELSE {done, driving}
  /\ strayed' = IF answer = "error" /\ k.camera \in driving' /\ ~known
                THEN strayed \cup {k.camera} ELSE strayed
  /\ UNCHANGED <<ptzTurns, ptzCamera, online, reported, ptzState, activeDirection, statusKey, refreshKey,
                 held, queries>>

\* A continuous move is sent with a time limit of its own, which ends it at the camera.
MoveEnds(camera) ==
  /\ camera \in driving
  /\ driving' = driving \ {camera}
  /\ UNCHANGED <<ptzTurns, ptzCamera, online, reported, ptzState, activeDirection, statusKey, refreshKey,
                 held, command, queries, strayed>>

-----------------------------------------------------------------------------
(* Answers                                                                  *)

applyCommandAckPayload(k) == ptzState' = [ptzState EXCEPT !.activeCamera = k.camera, !.loaded = TRUE]

handlePtzError(camera) ==
  ptzState' = [ptzState EXCEPT !.activeCamera = IF camera = NoCamera THEN @ ELSE camera, !.loaded = TRUE]

\* A command is acknowledged, fails, or times out (lost): then and catch of its promise.
CommandSettles(i) ==
  LET k == command[i] IN
  /\ k.at \in {"ack", "error", "lost"} /\ k.kind # "stop-notify"
  /\ IF k.at = "ack" THEN applyCommandAckPayload(k)
                     ELSE handlePtzError(IF k.at = "error" THEN k.camera ELSE NoCamera)
  /\ activeDirection' = IF k.kind = "target" THEN activeDirection
                        ELSE IF k.kind = "start" /\ k.at = "ack" THEN k.direction ELSE "none"
  /\ UNCHANGED <<ptzTurns, ptzCamera, online, reported, held, driving>>
  /\ Commit(RemoveAt(command, i), TRUE)
  /\ strayed' = strayed \cup LeftBehind

applyStatusPayload(active, configured) ==
  ptzState' = [ptzState EXCEPT
    !.activeCamera = IF active = NoCamera THEN @ ELSE active,
    !.configured = IF configured = {} THEN @ ELSE configured,
    !.loaded = TRUE]

applyPositionPayload(camera) == ptzState' = [ptzState EXCEPT !.activeCamera = camera, !.loaded = TRUE]

QuerySettles(q) ==
  /\ q \in queries
  /\ \/ /\ q[1] = "get-status"
        /\ \E status \in Reports \ {<<>>} : applyStatusPayload(status.activeCamera, status.configured)
     \/ q[1] = "get-position" /\ applyPositionPayload(q[2])
     \/ handlePtzError(q[2])
  /\ UNCHANGED <<ptzTurns, ptzCamera, online, reported, activeDirection, held, driving>>
  /\ command' = command \o CleanupStop(TRUE) /\ Len(command') <= MaxCommands
  /\ RefreshEffect(queries \ {q}) /\ Cardinality(queries') <= MaxQueries
  /\ strayed' = strayed \cup LeftBehind

PtzNext ==
  \/ \E camera \in PtzCameras : SelectCamera(camera)
  \/ Disconnects \/ Connects
  \/ \E status \in Reports : ContextRenews(status)
  \/ \E direction \in PtzDirections : beginMove(direction)
  \/ endMove \/ SendTarget \/ refreshPosition
  \/ \E i \in 1..Len(command), answer \in {"ack", "error"} : DeviceTakes(i, answer)
  \/ \E camera \in PtzCameras : MoveEnds(camera)
  \/ \E i \in 1..Len(command) : CommandSettles(i)
  \/ \E q \in queries : QuerySettles(q)

PtzSpec == PtzInit /\ [][PtzNext]_ptzVars

-----------------------------------------------------------------------------

\* The shape of the state.
PtzTypeOK ==
  /\ ptzCamera \in PtzCameras \cup {NoCamera}
  /\ online \in BOOLEAN /\ reported \in Reports
  /\ ptzState.activeCamera \in PtzCameras \cup {NoCamera}
  /\ activeDirection \in PtzDirections \cup {"none"} /\ held \in PtzDirections \cup {"none"}
  /\ Len(command) <= MaxCommands
  /\ driving \subseteq PtzCameras /\ strayed \subseteq PtzCameras

StopsOf(camera) ==
  {i \in 1..Len(command) : command[i].camera = camera /\ command[i].kind \in {"stop", "stop-notify"}
                           /\ command[i].at = "sent"}
StartsOf(camera) ==
  {i \in 1..Len(command) : command[i].camera = camera /\ command[i].kind = "start" /\ command[i].at = "sent"}

\* A camera left moving is one this page still knows of: whenever a camera
\* moves, or is about to, a stop for it is already on its way behind the last
\* start, or the button is still held with this camera selected, or the move is
\* the active one and the effect's cleanup will stop it: also after a stop
\* failed, when the catch that forgets the direction makes the cleanup send one
\* more.  Out of this reach (strayed) are the cameras deselected before their
\* start-move was answered, those whose commands a broken connection took, and
\* those that moved on after a command failed while the page knew of no move:
\* the second stop failing too, or a start that failed after it had moved the
\* camera.  Those move until the time limit of the move.
NoCameraRunsOn ==
  \A camera \in (driving \cup {command[i].camera : i \in {j \in 1..Len(command) : command[j].at = "sent" /\ command[j].kind = "start"}}) \ strayed :
    \/ \E i \in StopsOf(camera) : \A j \in StartsOf(camera) : j < i
    \/ held # "none" /\ cameraName = camera
    \/ activeDirection # "none" /\ cameraName = camera

\* The panel says "Hold a direction to drive the selected camera. Release to
\* stop.": while the button of an acknowledged move is held on the same camera,
\* nothing stops that camera.
HoldKeepsDriving ==
  held # "none" /\ activeDirection = held /\ online /\ cameraName \notin strayed
    => \A i \in StopsOf(cameraName) : \E j \in i..Len(command) : command[j].kind = "start"
=============================================================================
