---------------------------- MODULE LiveTransport ----------------------------
(***************************************************************************)
(* core/trakrai-live-transport: the browser's end of the live gateway.      *)
(* LiveTransportClient owns a WebSocket, its reconnect timer and a bounded  *)
(* queue of frames; the provider keeps one client per URL, the table of     *)
(* pending requests and what is shown of the device.  Sockets open, close   *)
(* and answer in any order; React re-runs the provider's effects when the   *)
(* device or the URL changes.  The gateway is external (see LiveGateway).   *)
(***************************************************************************)
EXTENDS Integers, Sequences, FiniteSets, SequencesExt

CONSTANTS
  Targets,       \* device ids the provider may be given
  Calls,         \* requests, each made once; ids are unique
  Typed,         \* the requests made through useTypedDeviceService
  MaxClients, MaxSockets,   \* bounds
  MaxQueueSize,  \* MAX_QUEUE_SIZE
  None           \* null, ''

ASSUME LtAssumption ==
  MaxClients \in Nat /\ MaxSockets \in Nat /\ MaxQueueSize \in Nat \ {0} /\ IsFiniteSet(Calls)

VARIABLES
  device,          \* deviceId of the provider; None: no valid configuration
  activeDevice,    \* activeDeviceIdRef
  mounted,
  client,          \* transportClient: 0 is null
  made,            \* LiveTransportClients made so far
  lc,              \* the clients: ws, shouldReconnect, retrying (reconnectAttempt > 0),
                   \*   timers (armed reconnect timers), queue, handlers, device
  socket,          \* the WebSockets: the client that made each, and its readyState
  transportState,
  view,            \* deviceViewState: the device it is of, and whose status it holds
  pendingRequests, \* pendingRequestsRef
  timeouts,        \* requests whose timer is armed
  promise,         \* what became of each request
  carrier,         \* history: the client each request was handed to
  sent,            \* history: the requests whose frame went out on a socket
  dropped,         \* history: frames pushed out of a full queue
  rerun            \* history: clients whose effect ran more than once

ltVars == <<device, activeDevice, mounted, client, made, lc, socket, transportState, view,
            pendingRequests, timeouts, promise, carrier, sent, dropped, rerun>>
ltHistory == <<carrier, sent, dropped, rerun>>
ltShown == <<device, activeDevice, mounted, client, made>>

LtClients == 1..MaxClients
NewClient == [ws |-> 0, shouldReconnect |-> TRUE, retrying |-> FALSE, timers |-> 0,
              queue |-> <<>>, handlers |-> FALSE, device |-> None]

LtInit ==
  /\ device = None /\ activeDevice = None /\ mounted = TRUE
  /\ client = 0 /\ made = 0
  /\ lc = [c \in LtClients |-> NewClient]
  /\ socket = <<>>
  /\ transportState = "disconnected"
  /\ view = [device |-> None, status |-> None]
  /\ pendingRequests = {} /\ timeouts = {}
  /\ promise = [r \in Calls |-> "none"]
  /\ carrier = [r \in Calls |-> 0]
  /\ sent = {} /\ dropped = {} /\ rerun = {}

IsLive(s) == s # 0 /\ socket[s].state \in {"connecting", "open"}
IsOpen(s) == s # 0 /\ socket[s].state = "open"

-----------------------------------------------------------------------------
(* live-client.ts                                                           *)

\* Mutant: nothing makes room for the new frame.
NeverDrops(queue, frame) == Append(queue, frame)

\* The queue after one more frame: at its limit the oldest goes.
Pushed(queue, frame) == Append(IF Len(queue) >= MaxQueueSize THEN Tail(queue) ELSE queue, frame)
Displaced(queue) == IF Len(queue) >= MaxQueueSize THEN {Head(queue)} ELSE {}

\* sendPacket and setDevice: on the open socket, or into the queue.
sendPacket(c, frame) ==
  IF IsOpen(lc[c].ws)
  THEN sent' = sent \cup {frame} /\ UNCHANGED <<lc, dropped>>
  ELSE /\ lc' = [lc EXCEPT ![c].queue = Pushed(@, frame)]
       /\ dropped' = dropped \cup Displaced(lc[c].queue)
       /\ UNCHANGED sent

\* disconnect(): only the newest timer can be cleared, only the current socket closed.
disconnect(k) ==
  [k EXCEPT !.shouldReconnect = FALSE, !.retrying = FALSE, !.timers = IF @ > 0 THEN @ - 1 ELSE 0,
            !.ws = 0, !.queue = <<>>, !.handlers = FALSE]

Closing(s) == IF IsLive(s) THEN [socket EXCEPT ![s].state = "closing"] ELSE socket

\* connect() from the reconnect timer, unless the current socket is alive.
ReconnectTimer(c) ==
  /\ lc[c].timers > 0
  /\ IsLive(lc[c].ws) \/ Len(socket) < MaxSockets
  /\ LET opens == ~IsLive(lc[c].ws) IN
     /\ socket' = IF opens THEN Append(socket, [client |-> c, state |-> "connecting"]) ELSE socket
     /\ lc' = [lc EXCEPT ![c].timers = @ - 1, ![c].shouldReconnect = TRUE,
                         ![c].ws = IF opens THEN Len(socket) + 1 ELSE @]
     /\ transportState' = IF opens /\ lc[c].handlers
                          THEN (IF lc[c].retrying THEN "reconnecting" ELSE "connecting")
                          ELSE transportState
  /\ UNCHANGED <<ltShown, view, pendingRequests, timeouts, promise, ltHistory>>

\* onopen: the queue is flushed onto the client's current socket, whichever
\* socket opened; a provider that shows "connected" anew asks for the status.
SocketOpens(s) ==
  LET c == socket[s].client
      flushes == lc[c].ws # 0 /\ (lc[c].ws = s \/ IsOpen(lc[c].ws))
      asks == lc[c].handlers /\ transportState # "connected" /\ ~flushes
  IN
  /\ socket[s].state = "connecting"
  /\ socket' = [socket EXCEPT ![s].state = "open"]
  /\ lc' = [lc EXCEPT ![c].retrying = FALSE,
                      ![c].queue = IF flushes THEN <<>> ELSE IF asks THEN Pushed(@, "get-status") ELSE @]
  /\ sent' = IF flushes THEN sent \cup Range(lc[c].queue) ELSE sent
  /\ dropped' = IF asks THEN dropped \cup Displaced(lc[c].queue) ELSE dropped
  /\ transportState' = IF lc[c].handlers THEN "connected" ELSE transportState
  /\ UNCHANGED <<ltShown, view, pendingRequests, timeouts, promise, carrier, rerun>>

\* Mutant: a closed socket schedules nothing.
StaysDown(s) ==
  LET c == socket[s].client IN
  /\ socket[s].state # "closed"
  /\ socket' = [socket EXCEPT ![s].state = "closed"]
  /\ lc' = [lc EXCEPT ![c].ws = 0]
  /\ UNCHANGED <<transportState, ltShown, view, pendingRequests, timeouts, promise, ltHistory>>

\* onclose: the client forgets its current socket, whichever socket closed.
SocketCloses(s) ==
  LET c == socket[s].client IN
  /\ socket[s].state # "closed"
  /\ socket' = [socket EXCEPT ![s].state = "closed"]
  /\ lc' = [lc EXCEPT ![c].ws = 0, ![c].retrying = @ \/ lc[c].shouldReconnect,
                      ![c].timers = IF lc[c].shouldReconnect THEN @ + 1 ELSE @]
  /\ transportState' = IF lc[c].handlers THEN "reconnecting" ELSE transportState
  /\ UNCHANGED <<ltShown, view, pendingRequests, timeouts, promise, ltHistory>>

-----------------------------------------------------------------------------
(* live-transport-provider.tsx                                              *)

\* Mutant: the state of another device is passed on as it is.
Unscoped(state, d) == [state EXCEPT !.device = d]

getScopedDeviceViewState(state, d) ==
  IF state.device = d THEN state ELSE [device |-> d, status |-> None]

\* Mutant: the table is emptied, the promises are left alone.
DropsPending(reason) == promise

clearPendingRequests(reason) ==
  [r \in Calls |-> IF r \in pendingRequests THEN reason ELSE promise[r]]

\* The provider gets another device or another URL.  React first runs every
\* cleanup (disconnect, clear the table), then the effects of the children,
\* whose requests R go to the new client while transportState is still the
\* old one's, then the provider's own effects: connect, and, for another
\* device than before, clear the table again, with what the children put there.
\* The session is taken to be for the client's device.  (A gateway refuses a set-device for
\* another device than it opened the session for: then its statuses are of that device.)
Switch(d, same, R) ==
  LET old == client
      new == IF d = None THEN 0 ELSE IF same THEN old ELSE made + 1
      down == IF old = 0 THEN lc ELSE [lc EXCEPT ![old] = disconnect(@)]
      closing == IF old = 0 THEN socket ELSE Closing(lc[old].ws)
      another == activeDevice \notin {None, d}
      early == SetToSeq(R)
      frames == IF Len(early) >= MaxQueueSize THEN SubSeq(early, 2, Len(early)) ELSE early
      outcome == IF d = None THEN "misconfigured" ELSE IF another THEN "switched" ELSE "waiting"
  IN
  /\ mounted
  /\ IF same THEN old # 0 /\ d \notin {None, device} ELSE d # None => made < MaxClients
  /\ d = None => device # None
  /\ R \subseteq {r \in Calls : promise[r] = "none"} /\ Len(early) <= MaxQueueSize
  /\ device' = d
  /\ client' = new
  /\ made' = IF new > made THEN new ELSE made
  /\ activeDevice' = IF new = 0 THEN activeDevice ELSE d
  /\ IF new = 0
     THEN /\ lc' = down
          /\ socket' = closing
          /\ UNCHANGED <<transportState, dropped>>
     ELSE /\ Len(socket) < MaxSockets
          /\ socket' = Append(closing, [client |-> new, state |-> "connecting"])
          /\ lc' = [down EXCEPT ![new].ws = Len(socket) + 1, ![new].shouldReconnect = TRUE,
                                ![new].handlers = TRUE, ![new].device = d,
                                ![new].queue = frames \o <<"set-device">>]
          /\ transportState' = "connecting"
          /\ dropped' = dropped \cup (R \ Range(frames))
  /\ promise' = [r \in Calls |-> IF r \in R THEN outcome ELSE clearPendingRequests("reset")[r]]
  /\ pendingRequests' = IF outcome = "waiting" THEN R ELSE {}
  /\ timeouts' = IF outcome = "waiting" THEN R ELSE {}
  /\ carrier' = [r \in Calls |-> IF r \in R THEN new ELSE carrier[r]]
  /\ rerun' = IF same THEN rerun \cup {new} ELSE rerun
  /\ view' = getScopedDeviceViewState(view, d)
  /\ UNCHANGED <<mounted, sent>>

Unmount ==
  /\ mounted
  /\ mounted' = FALSE
  /\ IF client = 0 THEN UNCHANGED <<lc, socket>>
     ELSE /\ lc' = [lc EXCEPT ![client] = disconnect(@)]
          /\ socket' = Closing(lc[client].ws)
  /\ promise' = clearPendingRequests("reset")
  /\ pendingRequests' = {} /\ timeouts' = {}
  /\ UNCHANGED <<device, activeDevice, client, made, transportState, view, ltHistory>>

\* request(): by code that holds client c, which may be an earlier one after
\* an await, and may run after the provider is gone.
Request(r, c) ==
  /\ promise[r] = "none" /\ c \in 1..made
  /\ promise' = [promise EXCEPT ![r] = "waiting"]
  /\ pendingRequests' = pendingRequests \cup {r}
  /\ timeouts' = timeouts \cup {r}
  /\ carrier' = [carrier EXCEPT ![r] = c]
  /\ sendPacket(c, r)
  /\ UNCHANGED <<ltShown, socket, transportState, view, rerun>>

\* request() while there is no valid configuration.
RequestRefused(r) ==
  /\ promise[r] = "none" /\ client = 0
  /\ promise' = [promise EXCEPT ![r] = "misconfigured"]
  /\ UNCHANGED <<ltShown, lc, socket, transportState, view, pendingRequests, timeouts, ltHistory>>

\* dispatchPacket, the answer of a request: on some open socket the provider
\* listens to.  The contract of a typed request has no "service-unavailable".
dispatchPacket(r, s, kind) ==
  /\ r \in sent
  /\ IsOpen(s) /\ lc[socket[s].client].handlers
  /\ r \in pendingRequests
  /\ kind = "service-unavailable" => r \notin Typed
  /\ pendingRequests' = pendingRequests \ {r}
  /\ timeouts' = timeouts \ {r}
  /\ promise' = [promise EXCEPT ![r] = IF kind = "success" THEN "resolved" ELSE "rejected"]
  /\ UNCHANGED <<ltShown, lc, socket, transportState, view, ltHistory>>

rejectTimedOutRequest(r) ==
  /\ r \in timeouts
  /\ timeouts' = timeouts \ {r}
  /\ pendingRequests' = pendingRequests \ {r}
  /\ promise' = [promise EXCEPT ![r] = IF @ = "waiting" THEN "timed out" ELSE @]
  /\ UNCHANGED <<ltShown, lc, socket, transportState, view, ltHistory>>

\* dispatchPacket, a status: of the device the client's session is for.
DeviceStatus(s) ==
  /\ IsOpen(s) /\ lc[socket[s].client].handlers
  /\ view' = [getScopedDeviceViewState(view, device) EXCEPT !.status = lc[socket[s].client].device]
  /\ UNCHANGED <<ltShown, lc, socket, transportState, pendingRequests, timeouts, promise, ltHistory>>

LtNext ==
  \/ \E c \in LtClients : ReconnectTimer(c)
  \/ \E s \in 1..Len(socket) : SocketOpens(s) \/ SocketCloses(s) \/ DeviceStatus(s)
  \/ \E d \in Targets \cup {None}, same \in BOOLEAN, R \in SUBSET Calls : Switch(d, same, R)
  \/ Unmount
  \/ \E r \in Calls : RequestRefused(r) \/ rejectTimedOutRequest(r)
  \/ \E r \in Calls, c \in LtClients : Request(r, c)
  \/ \E r \in Calls, s \in 1..Len(socket), kind \in {"success", "error", "service-unavailable"} :
       dispatchPacket(r, s, kind)

LtSpec == LtInit /\ [][LtNext]_ltVars

-----------------------------------------------------------------------------
(* Properties                                                               *)

\* The shape of the state.
LtTypeOK ==
  /\ device \in Targets \cup {None} /\ activeDevice \in Targets \cup {None}
  /\ client \in 0..made /\ made \in 0..MaxClients
  /\ \A c \in LtClients :
       /\ lc[c].ws \in 0..Len(socket) /\ lc[c].timers \in 0..MaxSockets
       /\ lc[c].queue \in Seq(Calls \cup {"set-device", "get-status"})
       /\ Len(lc[c].queue) <= MaxQueueSize
  /\ \A s \in 1..Len(socket) :
       socket[s].client \in LtClients /\ socket[s].state \in {"connecting", "open", "closing", "closed"}
  /\ transportState \in {"disconnected", "connecting", "connected", "reconnecting"}
  /\ pendingRequests \cup timeouts \subseteq Calls

\* A promise is open exactly as long as its request is in the table with its
\* timer armed, so that every request is settled, whatever is switched, reset,
\* answered late or unmounted; and while it is open its frame is out, waits in
\* the queue of the client it was handed to, was pushed out of a full queue,
\* or that client has been given up.
RequestsAccounted ==
  /\ pendingRequests = timeouts
  /\ \A r \in Calls :
       /\ promise[r] = "waiting" <=> r \in pendingRequests
       /\ promise[r] = "waiting" /\ carrier[r] = client /\ mounted /\ client \notin rerun =>
            r \in sent \cup dropped \cup Range(lc[client].queue)

LiveSocketsOf(c) == {s \in 1..Len(socket) : socket[s].client = c /\ IsLive(s)}

\* A client whose effect ran once has one live socket at most, the one it sends
\* on; when it has none it will try again, unless it has been given up; and
\* "connected" is shown exactly while the client in use can send.
OneSocketPerClient ==
  /\ \A c \in 1..made \ rerun :
       /\ LiveSocketsOf(c) \subseteq {lc[c].ws}
       /\ lc[c].timers <= 1 /\ (lc[c].timers = 1 => LiveSocketsOf(c) = {})
       /\ lc[c].shouldReconnect => lc[c].timers = 1 \/ LiveSocketsOf(c) # {}
       /\ c # client => LiveSocketsOf(c) = {} /\ lc[c].timers = 0
  /\ client \in 1..made \ rerun /\ mounted =>
       (transportState = "connected" <=> IsOpen(lc[client].ws))

\* What is shown of a device is that device's, through every switch.
ShowsOwnDevice == view.device = device /\ view.status \in {None, device}
=============================================================================
