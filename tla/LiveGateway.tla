----------------------------- MODULE LiveGateway -----------------------------
(***************************************************************************)
(* apps/live-gateway: the bridge between browser WebSockets and the MQTT    *)
(* topics of the devices.  A socket is set up across two awaits (the token, *)
(* the SUBSCRIBE), its handlers are installed only after them, packets of a *)
(* device are routed by request id and session id, and the SUBSCRIBE of a   *)
(* device is shared by its sockets through a reference count.  The device   *)
(* is external: it answers a request any number of times, at any time.      *)
(***************************************************************************)
EXTENDS Integers, Sequences, FiniteSets, SequencesExt

CONSTANTS
  Sockets,     \* WebSockets, each opened once
  BrowserOf,   \* the browser tab behind each socket
  Devices,
  Requests,    \* request ids; the session a request starts bears its name
  TabOf,       \* the browser tab that made up each request id
  Nil          \* undefined, null

Unsubscribe == "unsubscribe"

\* The null value is no value, sockets are finitely many, and a packet on the wire is a
\* socket's SUBSCRIBE or an UNSUBSCRIBE.
ASSUME GwAssumption ==
  /\ IsFiniteSet(Sockets)
  /\ Nil \notin Sockets \cup Devices \cup Requests
  /\ Unsubscribe \notin Sockets

VARIABLES
  sock,            \* the socket: "none", "open", "closing" (by the gateway), "closed"
  setup,           \* "none", "verifying", "subscribing", "ready", "refused", "ended" (handlers ran)
  clients,         \* clients: the device of each socket's context, or Nil
  mayUse,          \* allowedServiceNames has the service the requests go to
  subscriptionRefs,\* reference count of each device; 0 is no entry
  wire,            \* SUBSCRIBE (by a socket) and UNSUBSCRIBE packets under way
  subscribed,      \* the broker's side
  requestOwners, sessionOwners,     \* request, session -> socket or Nil
  clientRequests, clientSessions,   \* socket -> requests, sessions
  limiters,        \* inboundRateLimits: the sockets with an entry
  lastKnownStatuses,\* the devices with a cached status
  lastUser,        \* history: the socket that last published a request
  shared,          \* history: requests published by more than one socket
  failed           \* history: the devices of which a SUBSCRIBE has failed

gwVars == <<sock, setup, clients, mayUse, subscriptionRefs, wire, subscribed, requestOwners,
            sessionOwners, clientRequests, clientSessions, limiters, lastKnownStatuses,
            lastUser, shared, failed>>
routes == <<requestOwners, sessionOwners, clientRequests, clientSessions>>
history == <<lastUser, shared, failed>>
link == <<subscriptionRefs, wire, subscribed>>

GwInit ==
  /\ sock = [w \in Sockets |-> "none"]
  /\ setup = [w \in Sockets |-> "none"]
  /\ clients = [w \in Sockets |-> Nil]
  /\ mayUse = [w \in Sockets |-> FALSE]
  /\ subscriptionRefs = [d \in Devices |-> 0]
  /\ wire = [d \in Devices |-> <<>>]
  /\ subscribed = [d \in Devices |-> FALSE]
  /\ requestOwners = [r \in Requests |-> Nil]
  /\ sessionOwners = [r \in Requests |-> Nil]
  /\ clientRequests = [w \in Sockets |-> {}]
  /\ clientSessions = [w \in Sockets |-> {}]
  /\ limiters = {}
  /\ lastKnownStatuses = {}
  /\ lastUser = [r \in Requests |-> Nil]
  /\ shared = {}
  /\ failed = {}

-----------------------------------------------------------------------------
(* mqtt-client.ts                                                           *)

\* The first reference sends the SUBSCRIBE; later ones resolve at once, though
\* the first may not have been answered yet.
subscribeToDevice(w, d) ==
  /\ subscriptionRefs' = [subscriptionRefs EXCEPT ![d] = @ + 1]
  /\ wire' = IF subscriptionRefs[d] = 0 THEN [wire EXCEPT ![d] = Append(@, w)] ELSE wire
  /\ UNCHANGED subscribed

\* Mutant: the entry is dropped with the first reference given back.
DropsCount(d) ==
  /\ subscriptionRefs' = [subscriptionRefs EXCEPT ![d] = 0]
  /\ wire' = IF subscriptionRefs[d] > 0 THEN [wire EXCEPT ![d] = Append(@, Unsubscribe)] ELSE wire
  /\ UNCHANGED subscribed

\* Nothing without an entry; the last reference sends the UNSUBSCRIBE.
unsubscribeFromDevice(d) ==
  /\ subscriptionRefs' = [subscriptionRefs EXCEPT ![d] = IF @ > 0 THEN @ - 1 ELSE 0]
  /\ wire' = IF subscriptionRefs[d] = 1 THEN [wire EXCEPT ![d] = Append(@, Unsubscribe)] ELSE wire
  /\ UNCHANGED subscribed

-----------------------------------------------------------------------------
(* The tables                                                               *)

registerRequestOwner(w, r) ==
  /\ requestOwners' = [requestOwners EXCEPT ![r] = w]
  /\ clientRequests' = [clientRequests EXCEPT ![w] = @ \cup {r}]
  /\ lastUser' = [lastUser EXCEPT ![r] = w]
  /\ shared' = IF lastUser[r] \in {Nil, w} THEN shared ELSE shared \cup {r}

\* Mutant: the sets of a socket are dropped, the owners are not.
KeepsOwners(w) ==
  /\ clientRequests' = [clientRequests EXCEPT ![w] = {}]
  /\ clientSessions' = [clientSessions EXCEPT ![w] = {}]
  /\ UNCHANGED <<requestOwners, sessionOwners>>

\* Entries go by id, whoever owns them by now.
clearClientRoutes(w) ==
  /\ requestOwners' = [r \in Requests |-> IF r \in clientRequests[w] THEN Nil ELSE requestOwners[r]]
  /\ sessionOwners' = [r \in Requests |-> IF r \in clientSessions[w] THEN Nil ELSE sessionOwners[r]]
  /\ clientRequests' = [clientRequests EXCEPT ![w] = {}]
  /\ clientSessions' = [clientSessions EXCEPT ![w] = {}]

\* Mutant: the limiter of a socket is forgotten.
KeepsLimiter(w) ==
  /\ IF clients[w] # Nil THEN unsubscribeFromDevice(clients[w]) ELSE UNCHANGED link
  /\ clearClientRoutes(w)
  /\ clients' = [clients EXCEPT ![w] = Nil]
  /\ UNCHANGED limiters

cleanupClient(w) ==
  /\ IF clients[w] # Nil THEN unsubscribeFromDevice(clients[w]) ELSE UNCHANGED link
  /\ clearClientRoutes(w)
  /\ clients' = [clients EXCEPT ![w] = Nil]
  /\ limiters' = limiters \ {w}

\* Whom a packet is for, with the binding of its session on the way; Nil is
\* everybody on the device.
packetTarget(req, ses) ==
  IF req # Nil /\ requestOwners[req] # Nil THEN requestOwners[req]
  ELSE IF ses # Nil THEN sessionOwners[ses] ELSE Nil

bindSessionOwner(req, ses) ==
  IF req # Nil /\ ses # Nil /\ requestOwners[req] # Nil
  THEN /\ sessionOwners' = [sessionOwners EXCEPT ![ses] = requestOwners[req]]
       /\ clientSessions' = [clientSessions EXCEPT ![requestOwners[req]] = @ \cup {ses}]
  ELSE UNCHANGED <<sessionOwners, clientSessions>>

clientOwnsSession(w, ses) == ses = Nil \/ sessionOwners[ses] \in {Nil, w}

-----------------------------------------------------------------------------
(* A socket: connection, messages, close                                    *)

Connect(w) ==
  /\ sock[w] = "none"
  /\ sock' = [sock EXCEPT ![w] = "open"]
  /\ setup' = [setup EXCEPT ![w] = "verifying"]
  /\ UNCHANGED <<clients, mayUse, link, routes, limiters, lastKnownStatuses, history>>

\* No token, a token that does not verify, or one for another device.
Refuse(w) ==
  /\ setup[w] = "verifying"
  /\ sock' = [sock EXCEPT ![w] = "closed"]
  /\ setup' = [setup EXCEPT ![w] = "refused"]
  /\ UNCHANGED <<clients, mayUse, link, routes, limiters, lastKnownStatuses, history>>

\* The token is good, for device d.  When the device has a subscription the
\* setup runs to its end without another event in between.
Verified(w, d, allowed) ==
  /\ setup[w] = "verifying"
  /\ clients' = [clients EXCEPT ![w] = d]
  /\ mayUse' = [mayUse EXCEPT ![w] = allowed]
  /\ subscribeToDevice(w, d)
  /\ setup' = [setup EXCEPT ![w] = IF subscriptionRefs[d] = 0 THEN "subscribing" ELSE "ready"]
  /\ UNCHANGED <<sock, routes, limiters, lastKnownStatuses, history>>

\* The broker takes the next SUBSCRIBE or UNSUBSCRIBE.  The handlers of the
\* socket that waited for it are installed either way; a failure deletes the
\* entry, whatever it counts by then.
BrokerTakes(d, ok) ==
  LET op == Head(wire[d]) IN
  /\ wire[d] # <<>>
  /\ wire' = [wire EXCEPT ![d] = Tail(@)]
  /\ subscribed' = [subscribed EXCEPT ![d] = op # Unsubscribe /\ ok]
  /\ IF op = Unsubscribe
     THEN ok /\ UNCHANGED <<setup, subscriptionRefs, failed>>
     ELSE /\ setup' = [setup EXCEPT ![op] = "ready"]
          /\ subscriptionRefs' = IF ok THEN subscriptionRefs ELSE [subscriptionRefs EXCEPT ![d] = 0]
          /\ failed' = IF ok THEN failed ELSE failed \cup {d}
  /\ UNCHANGED <<sock, clients, mayUse, routes, limiters, lastKnownStatuses, lastUser, shared>>

\* The socket ends.  Before its handlers are installed nobody hears of it.
SocketEnds(w) ==
  /\ sock[w] \in {"open", "closing"}
  /\ sock' = [sock EXCEPT ![w] = "closed"]
  /\ IF setup[w] = "ready"
     THEN cleanupClient(w) /\ setup' = [setup EXCEPT ![w] = "ended"]
     ELSE UNCHANGED <<clients, link, routes, limiters, setup>>
  /\ UNCHANGED <<mayUse, lastKnownStatuses, history>>

\* A frame with request id r, on behalf of the tab that made r up: start-live,
\* stop-live, an answer or a candidate with its session.  It passes the rate
\* limits, the ownership of the session and the selectors of the token, or it
\* is dropped; after a cleanup it only makes a limiter.
Frame(w, r, ses) ==
  /\ setup[w] = "ready" /\ sock[w] \in {"open", "closing"}
  /\ TabOf[r] = BrowserOf[w]
  /\ limiters' = limiters \cup {w}
  /\ IF clients[w] # Nil /\ clientOwnsSession(w, ses) /\ mayUse[w]
     THEN registerRequestOwner(w, r)
     ELSE UNCHANGED <<requestOwners, clientRequests, lastUser, shared>>
  /\ UNCHANGED <<sock, setup, clients, mayUse, link, sessionOwners, clientSessions,
                 lastKnownStatuses, failed>>

\* Any other frame: no JSON, no packet, or set-device, which only repeats the
\* session info and the cached status or refuses another device.
OtherFrame(w) ==
  /\ setup[w] = "ready" /\ sock[w] \in {"open", "closing"}
  /\ limiters' = limiters \cup {w}
  /\ UNCHANGED <<sock, setup, clients, mayUse, link, routes, lastKnownStatuses, history>>

\* A message over one of the limits (GatewayRateLimit): the client is cleaned
\* up at once, and again when the close has been completed.
closeForRateLimit(w) ==
  /\ setup[w] = "ready" /\ sock[w] \in {"open", "closing"}
  /\ cleanupClient(w)
  /\ sock' = [sock EXCEPT ![w] = "closing"]
  /\ UNCHANGED <<setup, mayUse, lastKnownStatuses, history>>

-----------------------------------------------------------------------------
(* onMqttMessage                                                            *)

\* filterPacketForClient, for a packet of the service.
filterPacketForClient(w, d) == clients[w] = d /\ mayUse[w]

\* Whom the packet is sent to.
Receivers(d, req, ses) ==
  {w \in Sockets : /\ sock[w] = "open" /\ filterPacketForClient(w, d)
                   /\ packetTarget(req, ses) \in {Nil, w}}

\* A packet of request req or of session ses from the device that was asked.
DevicePacket(d, req, ses) ==
  LET r == IF req # Nil THEN req ELSE ses IN
  /\ subscribed[d]
  /\ r # Nil /\ lastUser[r] # Nil
  /\ bindSessionOwner(req, ses)
  /\ UNCHANGED <<sock, setup, clients, mayUse, link, requestOwners, clientRequests, limiters,
                 lastKnownStatuses, lastUser, shared, failed>>

\* A status of the device: cached, and sent to all its clients.
DeviceStatusPacket(d) ==
  /\ subscribed[d]
  /\ lastKnownStatuses' = lastKnownStatuses \cup {d}
  /\ UNCHANGED <<sock, setup, clients, mayUse, link, routes, limiters, history>>

-----------------------------------------------------------------------------

GwNext ==
  \/ \E w \in Sockets : Connect(w) \/ Refuse(w) \/ SocketEnds(w) \/ closeForRateLimit(w)
  \/ \E w \in Sockets : OtherFrame(w)
  \/ \E w \in Sockets, d \in Devices, allowed \in BOOLEAN : Verified(w, d, allowed)
  \/ \E d \in Devices, ok \in BOOLEAN : BrokerTakes(d, ok)
  \/ \E w \in Sockets, r \in Requests : Frame(w, r, Nil) \/ Frame(w, r, r)
  \/ \E d \in Devices, r \in Requests :
       DevicePacket(d, r, Nil) \/ DevicePacket(d, r, r) \/ DevicePacket(d, Nil, r)
  \/ \E d \in Devices : DeviceStatusPacket(d)

GwSpec == GwInit /\ [][GwNext]_gwVars

-----------------------------------------------------------------------------
(* Properties                                                               *)

\* The shape of the state.
GwTypeOK ==
  /\ sock \in [Sockets -> {"none", "open", "closing", "closed"}]
  /\ setup \in [Sockets -> {"none", "verifying", "subscribing", "ready", "refused", "ended"}]
  /\ clients \in [Sockets -> Devices \cup {Nil}]
  /\ mayUse \in [Sockets -> BOOLEAN]
  /\ subscriptionRefs \in [Devices -> 0..Cardinality(Sockets)]
  /\ wire \in [Devices -> Seq(Sockets \cup {Unsubscribe})]
  /\ subscribed \in [Devices -> BOOLEAN]
  /\ {requestOwners, sessionOwners, lastUser} \subseteq [Requests -> Sockets \cup {Nil}]
  /\ {clientRequests, clientSessions} \subseteq [Sockets -> SUBSET Requests]
  /\ limiters \subseteq Sockets
  /\ lastKnownStatuses \cup failed \subseteq Devices
  /\ shared \subseteq Requests

ClientsOf(d) == {w \in Sockets : clients[w] = d}

\* The subscription a device will have once the broker has taken what is under way.
WillBeSubscribed(d) == IF wire[d] = <<>> THEN subscribed[d] ELSE Last(wire[d]) # Unsubscribe

\* While no SUBSCRIBE has failed, the count of a device is the number of its
\* entries in clients, and the device stays subscribed exactly as long as it has
\* one, in whatever order sockets come, go or are closed for their rate.  An entry
\* outlives its socket only when that ended unseen (EndedLeavesNothing).
CountsItsClients ==
  \A d \in Devices \ failed :
    /\ subscriptionRefs[d] = Cardinality(ClientsOf(d))
    /\ WillBeSubscribed(d) <=> ClientsOf(d) # {}

\* Packets are only ever aimed at a socket that is a client: at another one
\* they would reach nobody.  And as long as the last socket to use a request id is
\* a client it owns the id, and the answers reach no other, unless an earlier
\* socket of its tab used the id too and took it along.  Once the owner is gone
\* they go to every client of the device, where docs/README.md says that packets
\* are forwarded to the owning browser session only.
RoutesToClients ==
  \A r \in Requests :
    /\ requestOwners[r] # Nil => clients[requestOwners[r]] # Nil /\ r \in clientRequests[requestOwners[r]]
    /\ sessionOwners[r] # Nil => clients[sessionOwners[r]] # Nil
    /\ LET w == lastUser[r] IN
       w # Nil /\ r \notin shared =>
         /\ clients[w] # Nil <=> requestOwners[r] = w
         /\ clients[w] # Nil => \A d \in Devices, ses \in {Nil, r} : Receivers(d, r, ses) \subseteq {w}

\* A socket that has ended leaves no limiter, no route and nothing it owns, even
\* if frames arrived after the gateway closed it, and none that had its handlers
\* leaves its entry in clients.  One that ended before they were installed, during
\* the awaits of the token and the SUBSCRIBE, keeps that entry and its reference
\* for good: nobody heard it close.
EndedLeavesNothing ==
  \A w \in Sockets :
    sock[w] = "closed" =>
      /\ w \notin limiters
      /\ clientRequests[w] = {} /\ clientSessions[w] = {}
      /\ w \notin {requestOwners[r] : r \in Requests} \cup {sessionOwners[r] : r \in Requests}
      /\ setup[w] = "ended" => clients[w] = Nil
=============================================================================
