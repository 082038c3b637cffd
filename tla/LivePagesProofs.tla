--------------------------- MODULE LivePagesProofs ---------------------------
(***************************************************************************)
(* Proofs about the gateway and the live pages, for any sockets, devices,     *)
(* requests, cameras, layouts and bounds: the gateway counts its clients and   *)
(* bounds their rate, the transport accounts for every request and keeps one     *)
(* socket per client, the viewer follows its peer, the camera wall shows the      *)
(* camera selected, and a call of a service gets the answer to that call.          *)
(***************************************************************************)
EXTENDS DevicePagesProofs

-----------------------------------------------------------------------------
(* Routes and sockets                                                       *)

\* Where a socket stands.  A client has passed its token; a socket that is no client has no
\* routes; a limiter belongs to a socket with handlers that has not ended; the SUBSCRIBEs under
\* way are those of sockets that have asked for one.
SocketShape ==
  /\ \A w \in Sockets :
       /\ sock[w] = "none" => setup[w] = "none"
       /\ clients[w] # Nil => setup[w] \in {"subscribing", "ready"}
       /\ clients[w] = Nil \/ setup[w] # "ready" \/ sock[w] = "closed"
            => clientRequests[w] = {} /\ clientSessions[w] = {}
       /\ w \in limiters => setup[w] = "ready" /\ sock[w] \in {"open", "closing"}
  /\ \A d \in Devices : \A i \in DOMAIN wire[d] :
       wire[d][i] # Unsubscribe => setup[wire[d][i]] \in {"subscribing", "ready", "ended"}

\* The two sides of the routing tables agree, and an id that one socket alone has used is in
\* that socket's hands.
RouteShape ==
  \A r \in Requests :
    /\ requestOwners[r] # Nil => r \in clientRequests[requestOwners[r]]
    /\ sessionOwners[r] # Nil => r \in clientSessions[sessionOwners[r]]
    /\ lastUser[r] # Nil => setup[lastUser[r]] \in {"ready", "ended"}
    /\ r \notin shared => \A w \in Sockets : r \in clientRequests[w] => lastUser[r] = w
    /\ r \notin shared /\ lastUser[r] # Nil /\ clients[lastUser[r]] # Nil
         => requestOwners[r] = lastUser[r]

\* A failed SUBSCRIBE only ever loses references.
CountShape == \A d \in Devices : subscriptionRefs[d] <= Cardinality(ClientsOf(d))

GwInv == GwTypeOK /\ SocketShape /\ RouteShape /\ CountShape /\ CountsItsClients

\* The types one by one, as the steps below need them.
GwTypes ==
  /\ sock \in [Sockets -> {"none", "open", "closing", "closed"}]
  /\ setup \in [Sockets -> {"none", "verifying", "subscribing", "ready", "refused", "ended"}]
  /\ clients \in [Sockets -> Devices \cup {Nil}]
  /\ mayUse \in [Sockets -> BOOLEAN]
  /\ subscriptionRefs \in [Devices -> Nat]
  /\ wire \in [Devices -> Seq(Sockets \cup {Unsubscribe})]
  /\ subscribed \in [Devices -> BOOLEAN]
  /\ requestOwners \in [Requests -> Sockets \cup {Nil}]
  /\ sessionOwners \in [Requests -> Sockets \cup {Nil}]
  /\ lastUser \in [Requests -> Sockets \cup {Nil}]
  /\ clientRequests \in [Sockets -> SUBSET Requests]
  /\ clientSessions \in [Sockets -> SUBSET Requests]
  /\ limiters \subseteq Sockets
  /\ lastKnownStatuses \subseteq Devices
  /\ failed \subseteq Devices
  /\ shared \subseteq Requests

\* The clients of a device are finitely many, at most all sockets.
LEMMA ClientsFinite ==
  ASSUME NEW d
  PROVE  /\ IsFiniteSet(ClientsOf(d)) /\ IsFiniteSet(ClientsOf(d)')
         /\ Cardinality(ClientsOf(d)) \in Nat /\ Cardinality(ClientsOf(d)') \in Nat
         /\ Cardinality(ClientsOf(d)') <= Cardinality(Sockets)
         /\ Cardinality(Sockets) \in Nat
         /\ ClientsOf(d) = {} <=> Cardinality(ClientsOf(d)) = 0
         /\ ClientsOf(d)' = {} <=> Cardinality(ClientsOf(d)') = 0
<1>1. IsFiniteSet(Sockets) /\ ClientsOf(d) \in SUBSET Sockets /\ ClientsOf(d)' \in SUBSET Sockets
  BY GwAssumption DEF ClientsOf
<1> QED  BY <1>1, FS_Subset, FS_CardinalityType, FS_EmptySet

\* The type invariant says what GwTypes says.
LEMMA GwTypesHold == GwTypeOK => GwTypes
<1>1. 0..Cardinality(Sockets) \subseteq Nat
  BY GwAssumption, FS_CardinalityType
<1> QED  BY <1>1 DEF GwTypeOK, GwTypes

\* The converse, once references are bounded by clients.
LEMMA GwTypeOKHolds == GwTypes' /\ CountShape' => GwTypeOK'
<1> SUFFICES ASSUME GwTypes', CountShape'
             PROVE  GwTypeOK'
  OBVIOUS
<1>1. ASSUME NEW d \in Devices PROVE subscriptionRefs'[d] \in 0..Cardinality(Sockets)
  BY ClientsFinite DEF GwTypes, CountShape
<1>2. subscriptionRefs' \in [Devices -> 0..Cardinality(Sockets)]
  BY <1>1 DEF GwTypes
<1> QED  BY <1>2 DEF GwTypes, GwTypeOK

LEMMA GwInitially == GwInit => GwInv
<1> SUFFICES ASSUME GwInit PROVE GwInv
  OBVIOUS
<1>1. \A d \in Devices : ClientsOf(d) = {}
  BY GwAssumption DEF GwInit, ClientsOf
<1>2. Cardinality({}) = 0 /\ 0 \in 0..Cardinality(Sockets)
  BY FS_EmptySet, FS_CardinalityType, GwAssumption
<1>3. GwTypeOK
  BY <1>2 DEF GwInit, GwTypeOK
<1>4. SocketShape
  BY GwAssumption DEF GwInit, SocketShape
<1>6. RouteShape
  BY GwAssumption DEF GwInit, RouteShape
<1>5. CountShape /\ CountsItsClients
  <2>1. ASSUME NEW d \in Devices
        PROVE  /\ subscriptionRefs[d] = 0 /\ Cardinality(ClientsOf(d)) = 0
               /\ ClientsOf(d) = {} /\ ~ WillBeSubscribed(d)
    BY <1>1, <1>2 DEF GwInit, WillBeSubscribed
  <2> QED  BY <2>1 DEF CountShape, CountsItsClients
<1> QED  BY <1>3, <1>4, <1>5, <1>6 DEF GwInv

-----------------------------------------------------------------------------
(* Counting references                                                      *)

\* The front and the end of a sequence.
LEMMA SeqFacts ==
  ASSUME NEW S, NEW s \in Seq(S), s # <<>>
  PROVE  /\ Len(s) = 1 \/ Len(s) > 1
         /\ Head(s) \in S /\ Tail(s) \in Seq(S)
         /\ Len(s) = 1 => Tail(s) = <<>> /\ Head(s) = Last(s)
         /\ Len(s) > 1 => Tail(s) # <<>> /\ Last(Tail(s)) = Last(s)
         /\ \A i \in DOMAIN Tail(s) : i + 1 \in DOMAIN s /\ Tail(s)[i] = s[i + 1]
         /\ 1 \in DOMAIN s /\ Head(s) = s[1]
<1>1. Len(s) \in Nat \ {0}
  OBVIOUS
<1>2. Len(Tail(s)) = Len(s) - 1 /\ Tail(s) \in Seq(S) /\ Head(s) = s[1] /\ DOMAIN s = 1..Len(s)
  BY <1>1
<1>3. \A i \in 1..(Len(s) - 1) : Tail(s)[i] = s[i + 1]
  BY <1>1
<1>4. DOMAIN Tail(s) = 1..(Len(s) - 1)
  BY <1>2
<1>5. \A q \in Seq(S) : q = <<>> <=> Len(q) = 0
  BY EmptySeq
<1>6. Tail(s) = <<>> <=> Len(s) = 1
  <2>1. Tail(s) = <<>> <=> Len(Tail(s)) = 0
    BY <1>2, <1>5, Zenon
  <2>2. Len(Tail(s)) = 0 <=> Len(s) = 1
    BY <1>1, <1>2
  <2> QED  BY <2>1, <2>2, Zenon
<1>7. Len(s) > 1 => Last(Tail(s)) = Last(s)
  BY <1>1, <1>2, <1>3 DEF Last
<1> QED  BY <1>1, <1>2, <1>3, <1>4, <1>5, <1>6, <1>7 DEF Last

\* What CountsItsClients says of one device.
Counted(d) ==
  /\ subscriptionRefs[d] = Cardinality(ClientsOf(d))
  /\ WillBeSubscribed(d) <=> ClientsOf(d) # {}

Counts == CountShape /\ CountsItsClients

\* Nothing that the count depends on has changed.
LEMMA CountKept ==
  ASSUME Counts, UNCHANGED <<clients, subscriptionRefs, wire, subscribed, failed>>
  PROVE  Counts'
BY DEF Counts, CountShape, CountsItsClients, ClientsOf, WillBeSubscribed

\* A new client of device d: its reference is counted, and the first one sends the SUBSCRIBE.
LEMMA SubscribeCounts ==
  ASSUME GwTypes, Counts, UNCHANGED failed,
         NEW w \in Sockets, NEW d \in Devices, clients[w] = Nil,
         clients' = [clients EXCEPT ![w] = d], subscribeToDevice(w, d)
  PROVE  Counts'
<1>1. ClientsOf(d)' = ClientsOf(d) \cup {w} /\ w \notin ClientsOf(d)
  BY GwAssumption DEF GwTypes, ClientsOf
<1>2. ASSUME NEW e \in Devices, e # d
      PROVE  /\ ClientsOf(e)' = ClientsOf(e) /\ subscriptionRefs'[e] = subscriptionRefs[e]
             /\ wire'[e] = wire[e] /\ subscribed'[e] = subscribed[e]
  BY <1>2, GwAssumption DEF GwTypes, ClientsOf, subscribeToDevice
<1>3. /\ Cardinality(ClientsOf(d)') = Cardinality(ClientsOf(d)) + 1
      /\ Cardinality(ClientsOf(d)) \in Nat
  BY <1>1, FS_AddElement, ClientsFinite
<1>4. subscriptionRefs'[d] = subscriptionRefs[d] + 1
  BY DEF subscribeToDevice, GwTypes
<1>5. CountShape'
  <2>1. subscriptionRefs[d] \in Nat /\ subscriptionRefs[d] <= Cardinality(ClientsOf(d))
    BY DEF Counts, CountShape, GwTypes
  <2>2. subscriptionRefs'[d] <= Cardinality(ClientsOf(d)')
    BY <2>1, <1>3, <1>4
  <2> QED  BY <1>2, <2>2 DEF Counts, CountShape
<1>6. ASSUME d \notin failed PROVE Counted(d)'
  <2>1. Counted(d)
    BY <1>6 DEF Counts, CountsItsClients, Counted
  <2>2. CASE subscriptionRefs[d] = 0
    <3>1. wire'[d] = Append(wire[d], w) /\ wire[d] \in Seq(Sockets \cup {Unsubscribe})
      BY <2>2 DEF subscribeToDevice, GwTypes
    <3>2. wire'[d] # <<>> /\ Last(wire'[d]) = w
      BY <3>1 DEF Last
    <3> QED  BY <3>2, <1>1, <1>3, <1>4, <2>1, GwAssumption DEF Counted, WillBeSubscribed
  <2>3. CASE subscriptionRefs[d] # 0
    <3>1. ClientsOf(d) # {}
      BY <2>1, <2>3, ClientsFinite DEF Counted
    <3>2. WillBeSubscribed(d)' = WillBeSubscribed(d)
      BY <2>3 DEF subscribeToDevice, WillBeSubscribed
    <3> QED  BY <3>1, <3>2, <1>1, <1>3, <1>4, <2>1 DEF Counted
  <2> QED  BY <2>2, <2>3
<1>7. CountsItsClients'
  BY <1>2, <1>6 DEF Counts, CountsItsClients, Counted, WillBeSubscribed
<1> QED  BY <1>5, <1>7 DEF Counts

\* A client goes: its reference is given back, and the last one sends the UNSUBSCRIBE.
LEMMA UnsubscribeCounts ==
  ASSUME GwTypes, Counts, UNCHANGED failed,
         NEW w \in Sockets, NEW d \in Devices, clients[w] = d,
         clients' = [clients EXCEPT ![w] = Nil], unsubscribeFromDevice(d)
  PROVE  Counts'
<1>1. ClientsOf(d)' = ClientsOf(d) \ {w} /\ w \in ClientsOf(d)
  BY GwAssumption DEF GwTypes, ClientsOf
<1>2. ASSUME NEW e \in Devices, e # d
      PROVE  /\ ClientsOf(e)' = ClientsOf(e) /\ subscriptionRefs'[e] = subscriptionRefs[e]
             /\ wire'[e] = wire[e] /\ subscribed'[e] = subscribed[e]
  BY <1>2, GwAssumption DEF GwTypes, ClientsOf, unsubscribeFromDevice
<1>3. /\ Cardinality(ClientsOf(d)') = Cardinality(ClientsOf(d)) - 1
      /\ Cardinality(ClientsOf(d)) \in Nat /\ Cardinality(ClientsOf(d)') \in Nat
  BY <1>1, FS_RemoveElement, ClientsFinite
<1>4. subscriptionRefs'[d] = IF subscriptionRefs[d] > 0 THEN subscriptionRefs[d] - 1 ELSE 0
  BY DEF unsubscribeFromDevice, GwTypes
<1>5. CountShape'
  <2>1. subscriptionRefs[d] \in Nat /\ subscriptionRefs[d] <= Cardinality(ClientsOf(d))
    BY DEF Counts, CountShape, GwTypes
  <2>2. subscriptionRefs'[d] <= Cardinality(ClientsOf(d)')
    BY <2>1, <1>3, <1>4
  <2> QED  BY <1>2, <2>2 DEF Counts, CountShape
<1>6. ASSUME d \notin failed PROVE Counted(d)'
  <2>1. Counted(d)
    BY <1>6 DEF Counts, CountsItsClients, Counted
  <2>2. CASE subscriptionRefs[d] = 1
    <3>1. wire'[d] = Append(wire[d], Unsubscribe) /\ wire[d] \in Seq(Sockets \cup {Unsubscribe})
      BY <2>2 DEF unsubscribeFromDevice, GwTypes
    <3>2. wire'[d] # <<>> /\ Last(wire'[d]) = Unsubscribe
      BY <3>1 DEF Last
    <3>3. subscriptionRefs'[d] = 0 /\ Cardinality(ClientsOf(d)') = 0
      <4>1. subscriptionRefs'[d] = 0
        BY <2>2, <1>4
      <4>2. Cardinality(ClientsOf(d)) = 1
        BY <2>1, <2>2 DEF Counted
      <4> QED  BY <4>1, <4>2, <1>3
    <3>4. ClientsOf(d)' = {}
      BY <3>3, ClientsFinite
    <3> QED  BY <3>2, <3>3, <3>4 DEF Counted, WillBeSubscribed
  <2>3. CASE subscriptionRefs[d] # 1
    <3>1. /\ subscriptionRefs'[d] = Cardinality(ClientsOf(d)')
          /\ ClientsOf(d) # {} /\ ClientsOf(d)' # {}
      BY <2>1, <2>3, <1>3, <1>4, ClientsFinite DEF Counted
    <3>2. WillBeSubscribed(d)' = WillBeSubscribed(d)
      BY <2>3 DEF unsubscribeFromDevice, WillBeSubscribed
    <3> QED  BY <3>1, <3>2, <2>1 DEF Counted
  <2> QED  BY <2>2, <2>3
<1>7. CountsItsClients'
  BY <1>2, <1>6 DEF Counts, CountsItsClients, Counted, WillBeSubscribed
<1> QED  BY <1>5, <1>7 DEF Counts

\* cleanupClient, for a socket that is a client or is none.
LEMMA CleanupCounts ==
  ASSUME GwTypes, Counts, UNCHANGED failed, NEW w \in Sockets, cleanupClient(w)
  PROVE  Counts'
<1>1. CASE clients[w] = Nil
  <2>1. clients' = clients
    BY <1>1 DEF cleanupClient, GwTypes
  <2> QED  BY <1>1, <2>1, CountKept DEF cleanupClient, link
<1>2. CASE clients[w] # Nil
  <2> DEFINE d == clients[w]
  <2>1. d \in Devices
    BY <1>2 DEF GwTypes
  <2> QED  BY <1>2, <2>1, UnsubscribeCounts DEF cleanupClient
<1> QED  BY <1>1, <1>2

\* The broker takes a packet: only what it has taken last decides, and a SUBSCRIBE that fails
\* puts its device among the failed ones.
LEMMA BrokerCounts ==
  ASSUME GwTypes, Counts, NEW d \in Devices, NEW ok \in BOOLEAN, BrokerTakes(d, ok)
  PROVE  Counts'
<1>0. wire[d] \in Seq(Sockets \cup {Unsubscribe}) /\ wire[d] # <<>>
  BY DEF BrokerTakes, GwTypes
<1>1. \A e \in Devices : ClientsOf(e)' = ClientsOf(e)
  BY DEF BrokerTakes, ClientsOf
<1>2. ASSUME NEW e \in Devices, e # d
      PROVE  /\ subscriptionRefs'[e] = subscriptionRefs[e] /\ wire'[e] = wire[e]
             /\ subscribed'[e] = subscribed[e] /\ (e \in failed' <=> e \in failed)
  BY <1>2 DEF BrokerTakes, GwTypes
<1>3. subscriptionRefs'[d] \in {0, subscriptionRefs[d]}
  BY DEF BrokerTakes, GwTypes
<1>4. CountShape'
  <2>1. \A e \in Devices : Cardinality(ClientsOf(e)) \in Nat
    BY ClientsFinite
  <2> QED  BY <1>1, <1>2, <1>3, <2>1 DEF Counts, CountShape, GwTypes
<1>5. ASSUME d \notin failed' PROVE Counted(d)'
  <2>1. d \notin failed /\ subscriptionRefs'[d] = subscriptionRefs[d] /\ ok
    BY <1>5 DEF BrokerTakes, GwTypes
  <2>2. Counted(d)
    BY <2>1 DEF Counts, CountsItsClients, Counted
  <2>3. wire'[d] = Tail(wire[d]) /\ subscribed'[d] = (Head(wire[d]) # Unsubscribe)
    BY <2>1 DEF BrokerTakes, GwTypes
  <2>4. WillBeSubscribed(d)' <=> WillBeSubscribed(d)
    <3>1. CASE Len(wire[d]) = 1
      <4>1. Tail(wire[d]) = <<>> /\ Head(wire[d]) = Last(wire[d])
        BY <1>0, <3>1, SeqFacts
      <4> QED  BY <4>1, <1>0, <2>3 DEF WillBeSubscribed
    <3>2. CASE Len(wire[d]) > 1
      <4>1. Tail(wire[d]) # <<>> /\ Last(Tail(wire[d])) = Last(wire[d])
        BY <1>0, <3>2, SeqFacts
      <4> QED  BY <4>1, <1>0, <2>3 DEF WillBeSubscribed
    <3> QED  BY <1>0, <3>1, <3>2, SeqFacts
  <2> QED  BY <1>1, <2>1, <2>2, <2>4 DEF Counted
<1>6. CountsItsClients'
  BY <1>1, <1>2, <1>5 DEF Counts, CountsItsClients, Counted, WillBeSubscribed
<1> QED  BY <1>4, <1>6 DEF Counts

-----------------------------------------------------------------------------
(* The actions                                                              *)

Shapes == GwTypes /\ SocketShape /\ RouteShape

\* A socket opens, and its token is refused.
LEMMA OpenStep ==
  ASSUME Shapes, NEW w \in Sockets, Connect(w) \/ Refuse(w)
  PROVE  Shapes'
<1>1. /\ sock[w] = "none" \/ setup[w] = "verifying"
      /\ \E s \in {"open", "closed"} : sock' = [sock EXCEPT ![w] = s]
      /\ \E s \in {"verifying", "refused"} : setup' = [setup EXCEPT ![w] = s]
      /\ UNCHANGED <<clients, mayUse, subscriptionRefs, wire, subscribed, requestOwners,
                     sessionOwners, clientRequests, clientSessions, limiters,
                     lastKnownStatuses, lastUser, shared, failed>>
  BY DEF Connect, Refuse, link, routes, history
<1>2. setup[w] \in {"none", "verifying"}
  BY <1>1 DEF Shapes, SocketShape
<1>3. GwTypes'
  BY <1>1 DEF Shapes, GwTypes
<1>4. SocketShape'
  <2>1. \A v \in Sockets : v # w => sock'[v] = sock[v] /\ setup'[v] = setup[v]
    BY <1>1 DEF Shapes, GwTypes
  <2>2. sock'[w] # "none"
    BY <1>1 DEF Shapes, GwTypes
  <2>3. w \notin limiters /\ clients[w] = Nil
    BY <1>2 DEF Shapes, SocketShape
  <2>4. \A d \in Devices : \A i \in DOMAIN wire[d] : wire[d][i] # Unsubscribe =>
          /\ wire[d][i] \in Sockets \ {w}
          /\ setup'[wire[d][i]] \in {"subscribing", "ready", "ended"}
    <3> SUFFICES ASSUME NEW d \in Devices, NEW i \in DOMAIN wire[d], wire[d][i] # Unsubscribe
                 PROVE  wire[d][i] \in Sockets \ {w} /\ setup'[wire[d][i]] \in {"subscribing", "ready", "ended"}
      OBVIOUS
    <3>1. wire[d][i] \in Sockets
      BY DEF Shapes, GwTypes
    <3>2. setup[wire[d][i]] \in {"subscribing", "ready", "ended"}
      BY DEF Shapes, SocketShape
    <3> QED  BY <1>2, <2>1, <3>1, <3>2
  <2> QED  BY <1>1, <2>1, <2>2, <2>3, <2>4 DEF Shapes, SocketShape
<1>5. RouteShape'
  <2>1. \A r \in Requests : lastUser[r] # Nil => setup'[lastUser[r]] \in {"ready", "ended"}
    BY <1>1, <1>2 DEF Shapes, RouteShape, GwTypes
  <2> QED  BY <1>1, <2>1 DEF Shapes, RouteShape
<1> QED  BY <1>3, <1>4, <1>5 DEF Shapes

\* The token of a socket is good: it becomes a client.
LEMMA VerifiedStep ==
  ASSUME Shapes, NEW w \in Sockets, NEW d \in Devices, NEW allowed \in BOOLEAN,
         Verified(w, d, allowed)
  PROVE  Shapes' /\ clients[w] = Nil
<1>1. /\ setup[w] = "verifying"
      /\ clients' = [clients EXCEPT ![w] = d]
      /\ mayUse' = [mayUse EXCEPT ![w] = allowed]
      /\ subscriptionRefs' = [subscriptionRefs EXCEPT ![d] = @ + 1]
      /\ wire' = IF subscriptionRefs[d] = 0 THEN [wire EXCEPT ![d] = Append(@, w)] ELSE wire
      /\ setup' = [setup EXCEPT ![w] = IF subscriptionRefs[d] = 0 THEN "subscribing" ELSE "ready"]
      /\ UNCHANGED <<sock, subscribed, requestOwners, sessionOwners, clientRequests, clientSessions,
                     limiters, lastKnownStatuses, lastUser, shared, failed>>
  BY DEF Verified, subscribeToDevice, routes, history
<1>2. clients[w] = Nil /\ w \notin limiters /\ sock[w] # "none"
  BY <1>1 DEF Shapes, SocketShape
<1>3. GwTypes'
  <2>1. wire' \in [Devices -> Seq(Sockets \cup {Unsubscribe})]
    BY <1>1 DEF Shapes, GwTypes
  <2> QED  BY <1>1, <2>1 DEF Shapes, GwTypes
<1>4. setup'[w] \in {"subscribing", "ready"} /\ \A v \in Sockets : v # w => setup'[v] = setup[v]
  BY <1>1 DEF Shapes, GwTypes
<1>5. SocketShape'
  <2>1. \A e \in Devices : \A i \in DOMAIN wire'[e] : wire'[e][i] # Unsubscribe =>
          setup'[wire'[e][i]] \in {"subscribing", "ready", "ended"}
    <3> SUFFICES ASSUME NEW e \in Devices, NEW i \in DOMAIN wire'[e], wire'[e][i] # Unsubscribe
                 PROVE  setup'[wire'[e][i]] \in {"subscribing", "ready", "ended"}
      OBVIOUS
    <3>1. wire[e] \in Seq(Sockets \cup {Unsubscribe}) /\ wire'[e] \in Seq(Sockets \cup {Unsubscribe})
      BY <1>3 DEF Shapes, GwTypes
    <3>2. wire'[e] = wire[e] \/ wire'[e] = Append(wire[e], w)
      BY <1>1 DEF Shapes, GwTypes
    <3>3. wire'[e][i] = w \/ (i \in DOMAIN wire[e] /\ wire'[e][i] = wire[e][i])
      BY <3>1, <3>2
    <3>4. CASE wire'[e][i] = w
      BY <3>4, <1>4
    <3>5. CASE i \in DOMAIN wire[e] /\ wire'[e][i] = wire[e][i]
      BY <3>1, <3>5, <1>4 DEF Shapes, SocketShape
    <3> QED  BY <3>3, <3>4, <3>5
  <2>2. \A v \in Sockets : v # w => clients'[v] = clients[v]
    BY <1>1 DEF Shapes, GwTypes
  <2> QED  BY <1>1, <1>2, <1>4, <2>1, <2>2 DEF Shapes, SocketShape
<1>6. RouteShape'
  <2>1. \A r \in Requests : lastUser[r] # w /\ (lastUser[r] # Nil => lastUser[r] \in Sockets)
    <3> SUFFICES ASSUME NEW r \in Requests
                 PROVE  lastUser[r] # w /\ (lastUser[r] # Nil => lastUser[r] \in Sockets)
      OBVIOUS
    <3>1. lastUser[r] # Nil => setup[lastUser[r]] \in {"ready", "ended"}
      BY DEF Shapes, RouteShape
    <3>2. w # Nil /\ lastUser[r] \in Sockets \cup {Nil}
      BY GwAssumption DEF Shapes, GwTypes
    <3> QED  BY <1>1, <3>1, <3>2
  <2>2. \A v \in Sockets : v # w => clients'[v] = clients[v]
    BY <1>1 DEF Shapes, GwTypes
  <2> QED  BY <1>1, <1>4, <2>1, <2>2 DEF Shapes, RouteShape
<1> QED  BY <1>2, <1>3, <1>5, <1>6 DEF Shapes

\* cleanupClient, with whatever the close does to the socket itself.
LEMMA CleanupStep ==
  ASSUME Shapes, NEW w \in Sockets, setup[w] = "ready", cleanupClient(w),
         NEW s \in {"closing", "closed"}, sock' = [sock EXCEPT ![w] = s],
         NEW u \in {"ready", "ended"}, setup' = [setup EXCEPT ![w] = u],
         UNCHANGED <<mayUse, lastKnownStatuses, lastUser, shared, failed>>
  PROVE  Shapes'
<1>1. /\ clients' = [clients EXCEPT ![w] = Nil]
      /\ limiters' = limiters \ {w}
      /\ requestOwners' = [r \in Requests |-> IF r \in clientRequests[w] THEN Nil ELSE requestOwners[r]]
      /\ sessionOwners' = [r \in Requests |-> IF r \in clientSessions[w] THEN Nil ELSE sessionOwners[r]]
      /\ clientRequests' = [clientRequests EXCEPT ![w] = {}]
      /\ clientSessions' = [clientSessions EXCEPT ![w] = {}]
  BY DEF cleanupClient, clearClientRoutes
<1>2. /\ subscriptionRefs' \in [Devices -> Nat]
      /\ wire' \in [Devices -> Seq(Sockets \cup {Unsubscribe})]
      /\ subscribed' = subscribed
      /\ \A e \in Devices : wire'[e] = wire[e] \/ wire'[e] = Append(wire[e], Unsubscribe)
  <2>1. CASE clients[w] = Nil
    BY <2>1 DEF cleanupClient, link, Shapes, GwTypes
  <2>2. CASE clients[w] # Nil
    <3>1. clients[w] \in Devices /\ unsubscribeFromDevice(clients[w])
      BY <2>2 DEF cleanupClient, Shapes, GwTypes
    <3>2. subscriptionRefs' \in [Devices -> Nat]
      BY <3>1 DEF unsubscribeFromDevice, Shapes, GwTypes
    <3>3. wire' \in [Devices -> Seq(Sockets \cup {Unsubscribe})]
      BY <3>1 DEF unsubscribeFromDevice, Shapes, GwTypes
    <3>4. \A e \in Devices : wire'[e] = wire[e] \/ wire'[e] = Append(wire[e], Unsubscribe)
      BY <3>1 DEF unsubscribeFromDevice, Shapes, GwTypes
    <3> QED  BY <3>1, <3>2, <3>3, <3>4 DEF unsubscribeFromDevice
  <2> QED  BY <2>1, <2>2
<1>3. GwTypes'
  BY <1>1, <1>2 DEF Shapes, GwTypes
<1>4. SocketShape'
  <2>1. \A e \in Devices : \A i \in DOMAIN wire'[e] : wire'[e][i] # Unsubscribe =>
          setup'[wire'[e][i]] \in {"subscribing", "ready", "ended"}
    <3> SUFFICES ASSUME NEW e \in Devices, NEW i \in DOMAIN wire'[e], wire'[e][i] # Unsubscribe
                 PROVE  setup'[wire'[e][i]] \in {"subscribing", "ready", "ended"}
      OBVIOUS
    <3>1. wire[e] \in Seq(Sockets \cup {Unsubscribe})
      BY DEF Shapes, GwTypes
    <3>2. i \in DOMAIN wire[e] /\ wire'[e][i] = wire[e][i]
      <4>1. CASE wire'[e] = wire[e]
        BY <4>1
      <4>2. CASE wire'[e] = Append(wire[e], Unsubscribe)
        <5>1. i \in 1..(Len(wire[e]) + 1) /\ DOMAIN wire[e] = 1..Len(wire[e]) /\ Len(wire[e]) \in Nat
          BY <3>1, <4>2
        <5>2. i # Len(wire[e]) + 1
          BY <3>1, <4>2
        <5> QED  BY <3>1, <4>2, <5>1, <5>2
      <4> QED  BY <1>2, <4>1, <4>2
    <3>3. setup[wire[e][i]] \in {"subscribing", "ready", "ended"} /\ wire[e][i] \in Sockets
      BY <3>1, <3>2 DEF Shapes, SocketShape
    <3> QED  BY <3>2, <3>3 DEF Shapes, GwTypes
  <2>2. \A v \in Sockets : v # w => /\ clients'[v] = clients[v] /\ sock'[v] = sock[v]
                                    /\ clientRequests'[v] = clientRequests[v]
                                    /\ clientSessions'[v] = clientSessions[v]
                                    /\ setup'[v] = setup[v]
    BY <1>1 DEF Shapes, GwTypes
  <2>3. /\ clients'[w] = Nil /\ sock'[w] # "none"
        /\ clientRequests'[w] = {} /\ clientSessions'[w] = {} /\ w \notin limiters'
    BY <1>1 DEF Shapes, GwTypes
  <2> QED  BY <1>1, <2>1, <2>2, <2>3 DEF Shapes, SocketShape
<1>5. RouteShape'
  <2> SUFFICES ASSUME NEW r \in Requests
               PROVE  /\ requestOwners'[r] # Nil => r \in clientRequests'[requestOwners'[r]]
                      /\ sessionOwners'[r] # Nil => r \in clientSessions'[sessionOwners'[r]]
                      /\ lastUser[r] # Nil => setup'[lastUser[r]] \in {"ready", "ended"}
                      /\ r \notin shared =>
                           \A v \in Sockets : r \in clientRequests'[v] => lastUser[r] = v
                      /\ r \notin shared /\ lastUser[r] # Nil /\ clients'[lastUser[r]] # Nil
                           => requestOwners'[r] = lastUser[r]
    BY DEF RouteShape
  <2>1. requestOwners'[r] # Nil => r \in clientRequests'[requestOwners'[r]]
    BY <1>1 DEF Shapes, RouteShape, GwTypes
  <2>2. sessionOwners'[r] # Nil => r \in clientSessions'[sessionOwners'[r]]
    BY <1>1 DEF Shapes, RouteShape, GwTypes
  <2>3. lastUser[r] # Nil => setup'[lastUser[r]] \in {"ready", "ended"}
    BY DEF Shapes, RouteShape, GwTypes
  <2>4. r \notin shared => \A v \in Sockets : r \in clientRequests'[v] => lastUser[r] = v
    BY <1>1 DEF Shapes, RouteShape, GwTypes
  <2>5. ASSUME r \notin shared, lastUser[r] # Nil, clients'[lastUser[r]] # Nil
        PROVE  requestOwners'[r] = lastUser[r]
    <3>0. clients'[w] = Nil
      BY <1>1 DEF Shapes, GwTypes
    <3>1. lastUser[r] \in Sockets /\ lastUser[r] # w
      BY <2>5, <3>0 DEF Shapes, GwTypes
    <3>2. clients[lastUser[r]] # Nil /\ r \notin clientRequests[w]
      BY <2>5, <3>1, <1>1 DEF Shapes, GwTypes, RouteShape
    <3> QED  BY <2>5, <3>2, <1>1 DEF Shapes, RouteShape
  <2> QED  BY <2>1, <2>2, <2>3, <2>4, <2>5
<1> QED  BY <1>3, <1>4, <1>5 DEF Shapes

\* The end of a socket whose handlers are not installed is heard by nobody.
LEMMA UnheardStep ==
  ASSUME Shapes, NEW w \in Sockets, setup[w] # "ready", sock[w] # "none",
         sock' = [sock EXCEPT ![w] = "closed"],
         UNCHANGED <<setup, mayUse, clients, subscriptionRefs, wire, subscribed, requestOwners,
                     sessionOwners, clientRequests, clientSessions, limiters,
                     lastKnownStatuses, lastUser, shared, failed>>
  PROVE  Shapes'
<1>1. GwTypes'
  BY DEF Shapes, GwTypes
<1>2. /\ \A v \in Sockets : v # w => sock'[v] = sock[v]
      /\ sock'[w] = "closed" /\ w \notin limiters
  BY DEF Shapes, GwTypes, SocketShape
<1>3. SocketShape'
  BY <1>2 DEF Shapes, SocketShape
<1>4. RouteShape'
  BY DEF Shapes, RouteShape
<1> QED  BY <1>1, <1>3, <1>4 DEF Shapes

\* The broker takes a packet: the socket that waited for it has its handlers.
LEMMA BrokerStep ==
  ASSUME Shapes, NEW d \in Devices, NEW ok \in BOOLEAN, BrokerTakes(d, ok)
  PROVE  Shapes'
<1> DEFINE op == Head(wire[d])
<1>0. wire[d] \in Seq(Sockets \cup {Unsubscribe}) /\ wire[d] # <<>>
  BY DEF BrokerTakes, Shapes, GwTypes
<1>1. /\ op \in Sockets \cup {Unsubscribe}
      /\ op # Unsubscribe => setup[op] \in {"subscribing", "ready", "ended"}
  BY <1>0, SeqFacts DEF Shapes, SocketShape
<1>2. /\ wire' = [wire EXCEPT ![d] = Tail(@)]
      /\ UNCHANGED <<sock, clients, mayUse, requestOwners, sessionOwners, clientRequests,
                     clientSessions, limiters, lastKnownStatuses, lastUser, shared>>
      /\ subscribed' = [subscribed EXCEPT ![d] = op # Unsubscribe /\ ok]
      /\ subscriptionRefs' \in {subscriptionRefs, [subscriptionRefs EXCEPT ![d] = 0]}
      /\ failed' \in {failed, failed \cup {d}}
  BY DEF BrokerTakes, routes
<1>3. setup' = setup \/ (op \in Sockets /\ setup' = [setup EXCEPT ![op] = "ready"])
  BY <1>1 DEF BrokerTakes
<1>4. \A v \in Sockets :
        setup'[v] = setup[v] \/ (setup'[v] = "ready" /\ setup[v] \in {"subscribing", "ready", "ended"})
  BY <1>1, <1>3, GwAssumption DEF Shapes, GwTypes
<1>5. GwTypes'
  <2>1. wire' \in [Devices -> Seq(Sockets \cup {Unsubscribe})]
    BY <1>0, <1>2, SeqFacts DEF Shapes, GwTypes
  <2>2. setup' \in [Sockets -> {"none", "verifying", "subscribing", "ready", "refused", "ended"}]
    BY <1>3 DEF Shapes, GwTypes
  <2>3. subscriptionRefs' \in [Devices -> Nat]
    <3>1. [subscriptionRefs EXCEPT ![d] = 0] \in [Devices -> Nat]
      BY DEF Shapes, GwTypes
    <3> QED  BY <3>1, <1>2, Zenon DEF Shapes, GwTypes
  <2>4. (op # Unsubscribe /\ ok) \in BOOLEAN
    OBVIOUS
  <2>5. subscribed' \in [Devices -> BOOLEAN]
    BY <1>2, <2>4 DEF Shapes, GwTypes
  <2> QED  BY <1>2, <2>1, <2>2, <2>3, <2>5 DEF Shapes, GwTypes
<1>6. SocketShape'
  <2>1. \A e \in Devices : \A i \in DOMAIN wire'[e] : wire'[e][i] # Unsubscribe =>
          setup'[wire'[e][i]] \in {"subscribing", "ready", "ended"}
    <3> SUFFICES ASSUME NEW e \in Devices, NEW i \in DOMAIN wire'[e], wire'[e][i] # Unsubscribe
                 PROVE  setup'[wire'[e][i]] \in {"subscribing", "ready", "ended"}
      OBVIOUS
    <3>1. \E j \in DOMAIN wire[e] : wire'[e][i] = wire[e][j]
      <4>1. CASE e = d
        <5>1. wire'[e] = Tail(wire[d])
          BY <4>1, <1>2 DEF Shapes, GwTypes
        <5> QED  BY <4>1, <5>1, <1>0, SeqFacts
      <4>2. CASE e # d
        <5>1. wire'[e] = wire[e]
          BY <4>2, <1>2 DEF Shapes, GwTypes
        <5> QED  BY <5>1
      <4> QED  BY <4>1, <4>2
    <3>2. wire'[e][i] \in Sockets
      BY <1>5 DEF GwTypes
    <3>3. setup[wire'[e][i]] \in {"subscribing", "ready", "ended"}
      BY <3>1 DEF Shapes, SocketShape
    <3> QED  BY <3>2, <3>3, <1>4
  <2> QED  BY <1>2, <1>4, <2>1 DEF Shapes, SocketShape
<1>7. RouteShape'
  <2>1. \A r \in Requests : lastUser[r] # Nil => setup'[lastUser[r]] \in {"ready", "ended"}
    BY <1>4 DEF Shapes, RouteShape, GwTypes
  <2> QED  BY <1>2, <2>1 DEF Shapes, RouteShape
<1> QED  BY <1>5, <1>6, <1>7 DEF Shapes

\* A frame: its sender becomes the owner of the request, if it is a client.
LEMMA FrameStep ==
  ASSUME Shapes, NEW w \in Sockets, NEW r \in Requests, NEW ses \in {Nil, r}, Frame(w, r, ses)
  PROVE  Shapes'
<1>1. /\ setup[w] = "ready" /\ sock[w] \in {"open", "closing"}
      /\ limiters' = limiters \cup {w}
      /\ UNCHANGED <<sock, setup, clients, mayUse, subscriptionRefs, wire, subscribed,
                     sessionOwners, clientSessions, lastKnownStatuses, failed>>
  BY DEF Frame, link
<1>2. CASE UNCHANGED <<requestOwners, clientRequests, lastUser, shared>>
  <2>1. GwTypes'
    BY <1>1, <1>2 DEF Shapes, GwTypes
  <2>2. SocketShape'
    BY <1>1, <1>2 DEF Shapes, SocketShape
  <2>3. RouteShape'
    BY <1>1, <1>2 DEF Shapes, RouteShape
  <2> QED  BY <2>1, <2>2, <2>3 DEF Shapes
<1>3. CASE clients[w] # Nil /\ registerRequestOwner(w, r)
  <2>1. /\ requestOwners' = [requestOwners EXCEPT ![r] = w]
        /\ clientRequests' = [clientRequests EXCEPT ![w] = @ \cup {r}]
        /\ lastUser' = [lastUser EXCEPT ![r] = w]
        /\ shared' = IF lastUser[r] \in {Nil, w} THEN shared ELSE shared \cup {r}
    BY <1>3 DEF registerRequestOwner
  <2>2. GwTypes'
    BY <1>1, <2>1 DEF Shapes, GwTypes
  <2>3. SocketShape'
    <3>1. \A v \in Sockets : v # w => clientRequests'[v] = clientRequests[v]
      BY <2>1 DEF Shapes, GwTypes
    <3> QED  BY <1>1, <1>3, <3>1 DEF Shapes, SocketShape
  <2>4. ASSUME NEW q \in Requests, q # r
        PROVE  /\ requestOwners'[q] = requestOwners[q] /\ lastUser'[q] = lastUser[q]
               /\ q \in shared' <=> q \in shared
               /\ \A v \in Sockets : q \in clientRequests'[v] <=> q \in clientRequests[v]
               /\ requestOwners[q] \in Sockets \cup {Nil} /\ lastUser[q] \in Sockets \cup {Nil}
    BY <2>1, <2>4 DEF Shapes, GwTypes
  <2>5. /\ requestOwners'[r] = w /\ lastUser'[r] = w /\ r \in clientRequests'[w]
        /\ r \notin shared' => r \notin shared /\ lastUser[r] \in {Nil, w}
        /\ \A v \in Sockets : v # w => clientRequests'[v] = clientRequests[v]
    BY <2>1 DEF Shapes, GwTypes
  <2>6. RouteShape'
    <3>1. \A q \in Requests : sessionOwners'[q] # Nil => q \in clientSessions'[sessionOwners'[q]]
      BY <1>1 DEF Shapes, RouteShape
    <3>2. \A q \in Requests : requestOwners'[q] # Nil => q \in clientRequests'[requestOwners'[q]]
      BY <2>4, <2>5 DEF Shapes, RouteShape
    <3>3. \A q \in Requests : lastUser'[q] # Nil => setup'[lastUser'[q]] \in {"ready", "ended"}
      BY <1>1, <2>4, <2>5 DEF Shapes, RouteShape
    <3>4. \A q \in Requests : q \notin shared' =>
             \A v \in Sockets : q \in clientRequests'[v] => lastUser'[q] = v
      BY <2>4, <2>5, GwAssumption DEF Shapes, RouteShape
    <3>5. \A q \in Requests : q \notin shared' /\ lastUser'[q] # Nil /\ clients'[lastUser'[q]] # Nil
             => requestOwners'[q] = lastUser'[q]
      BY <1>1, <2>4, <2>5 DEF Shapes, RouteShape
    <3> QED  BY <3>1, <3>2, <3>3, <3>4, <3>5 DEF RouteShape
  <2> QED  BY <2>2, <2>3, <2>6 DEF Shapes
<1> QED  BY <1>2, <1>3 DEF Frame

\* A frame without a route makes a limiter, no more.
LEMMA OtherStep ==
  ASSUME Shapes, NEW w \in Sockets, setup[w] = "ready", sock[w] \in {"open", "closing"},
         limiters' = limiters \cup {w},
         UNCHANGED <<sock, setup, clients, mayUse, subscriptionRefs, wire, subscribed, requestOwners,
                     sessionOwners, clientRequests, clientSessions, lastKnownStatuses, lastUser,
                     shared, failed>>
  PROVE  Shapes'
<1>1. GwTypes'
  BY DEF Shapes, GwTypes
<1>2. SocketShape'
  BY DEF Shapes, SocketShape
<1>3. RouteShape'
  BY DEF Shapes, RouteShape
<1> QED  BY <1>1, <1>2, <1>3 DEF Shapes

\* A status is cached, no more.
LEMMA StatusStep ==
  ASSUME Shapes, NEW d \in Devices, lastKnownStatuses' = lastKnownStatuses \cup {d},
         UNCHANGED <<sock, setup, clients, mayUse, subscriptionRefs, wire, subscribed, requestOwners,
                     sessionOwners, clientRequests, clientSessions, limiters, lastUser, shared, failed>>
  PROVE  Shapes'
<1>1. GwTypes'
  BY DEF Shapes, GwTypes
<1>2. SocketShape' /\ RouteShape'
  BY DEF Shapes, SocketShape, RouteShape
<1> QED  BY <1>1, <1>2 DEF Shapes

\* A packet of the device binds a session to the owner of its request, who is a client.
LEMMA PacketStep ==
  ASSUME Shapes, NEW d \in Devices, NEW r \in Requests, NEW req \in {Nil, r}, NEW ses \in {Nil, r},
         DevicePacket(d, req, ses)
  PROVE  Shapes'
<1>1. UNCHANGED <<sock, setup, clients, mayUse, subscriptionRefs, wire, subscribed, requestOwners,
                  clientRequests, limiters, lastKnownStatuses, lastUser, shared, failed>>
  BY DEF DevicePacket, link
<1>2. CASE UNCHANGED <<sessionOwners, clientSessions>>
  <2>1. GwTypes'
    BY <1>1, <1>2 DEF Shapes, GwTypes
  <2>2. SocketShape'
    BY <1>1, <1>2 DEF Shapes, SocketShape
  <2>3. RouteShape'
    BY <1>1, <1>2 DEF Shapes, RouteShape
  <2> QED  BY <2>1, <2>2, <2>3 DEF Shapes
<1>3. CASE /\ requestOwners[r] # Nil
           /\ sessionOwners' = [sessionOwners EXCEPT ![r] = requestOwners[r]]
           /\ clientSessions' = [clientSessions EXCEPT ![requestOwners[r]] = @ \cup {r}]
  <2> DEFINE w == requestOwners[r]
  <2>1. w \in Sockets /\ clients[w] # Nil /\ setup[w] = "ready" /\ sock[w] # "closed"
    BY <1>3 DEF Shapes, GwTypes, RouteShape, SocketShape
  <2>2. GwTypes'
    BY <1>1, <1>3, <2>1 DEF Shapes, GwTypes
  <2>3. \A v \in Sockets : v # w => clientSessions'[v] = clientSessions[v]
    BY <1>3 DEF Shapes, GwTypes
  <2>4. SocketShape'
    BY <1>1, <2>1, <2>3 DEF Shapes, SocketShape
  <2>5. \A q \in Requests : sessionOwners'[q] # Nil => q \in clientSessions'[sessionOwners'[q]]
    BY <1>3, <2>1 DEF Shapes, RouteShape, GwTypes
  <2>6. RouteShape'
    BY <1>1, <2>5 DEF Shapes, RouteShape
  <2> QED  BY <2>2, <2>4, <2>6 DEF Shapes
<1>4. (req = r /\ ses = r) \/ req = Nil \/ ses = Nil
  OBVIOUS
<1>5. CASE req = Nil \/ ses = Nil
  BY <1>2, <1>5 DEF DevicePacket, bindSessionOwner
<1>6. CASE req = r /\ ses = r
  BY <1>2, <1>3, <1>6 DEF DevicePacket, bindSessionOwner
<1> QED  BY <1>4, <1>5, <1>6

-----------------------------------------------------------------------------

\* Every step of the gateway keeps the invariant.
LEMMA GwStepInv == GwInv /\ [GwNext]_gwVars => GwInv'
<1> SUFFICES ASSUME GwInv, [GwNext]_gwVars PROVE Shapes' /\ Counts'
  BY GwTypeOKHolds DEF GwInv, Shapes, Counts
<1>1. Shapes /\ Counts
  BY GwTypesHold DEF GwInv, Shapes, Counts
<1>2. GwTypes
  BY <1>1 DEF Shapes
<1>3. ASSUME NEW w \in Sockets, Connect(w) \/ Refuse(w) PROVE Shapes' /\ Counts'
  <2>1. UNCHANGED <<clients, subscriptionRefs, wire, subscribed, failed>>
    BY <1>3 DEF Connect, Refuse, link, history
  <2> QED  BY <1>1, <1>3, <2>1, OpenStep, CountKept
<1>4. ASSUME NEW w \in Sockets, SocketEnds(w) PROVE Shapes' /\ Counts'
  <2>1. /\ sock' = [sock EXCEPT ![w] = "closed"] /\ sock[w] # "none"
        /\ UNCHANGED <<mayUse, lastKnownStatuses, lastUser, shared, failed>>
    BY <1>4 DEF SocketEnds, history
  <2>2. CASE setup[w] = "ready"
    <3>1. cleanupClient(w) /\ setup' = [setup EXCEPT ![w] = "ended"]
      BY <1>4, <2>2 DEF SocketEnds
    <3> QED  BY <1>1, <1>2, <2>1, <2>2, <3>1, CleanupStep, CleanupCounts
  <2>3. CASE setup[w] # "ready"
    <3>1. UNCHANGED <<clients, subscriptionRefs, wire, subscribed, requestOwners, sessionOwners,
                      clientRequests, clientSessions, limiters, setup>>
      BY <1>4, <2>3 DEF SocketEnds, link, routes
    <3> QED  BY <1>1, <2>1, <2>3, <3>1, UnheardStep, CountKept
  <2> QED  BY <2>2, <2>3
<1>5. ASSUME NEW w \in Sockets, closeForRateLimit(w) PROVE Shapes' /\ Counts'
  <2>1. /\ sock' = [sock EXCEPT ![w] = "closing"] /\ setup[w] = "ready" /\ cleanupClient(w)
        /\ UNCHANGED <<setup, mayUse, lastKnownStatuses, lastUser, shared, failed>>
    BY <1>5 DEF closeForRateLimit, history
  <2>2. setup' = [setup EXCEPT ![w] = "ready"]
    BY <1>2, <2>1 DEF GwTypes
  <2> QED  BY <1>1, <1>2, <2>1, <2>2, CleanupStep, CleanupCounts
<1>6. ASSUME NEW w \in Sockets, OtherFrame(w) PROVE Shapes' /\ Counts'
  <2>1. UNCHANGED <<clients, subscriptionRefs, wire, subscribed, failed>>
    BY <1>6 DEF OtherFrame, link, history
  <2>2. /\ setup[w] = "ready" /\ sock[w] \in {"open", "closing"} /\ limiters' = limiters \cup {w}
        /\ UNCHANGED <<sock, setup, clients, mayUse, subscriptionRefs, wire, subscribed, requestOwners,
                       sessionOwners, clientRequests, clientSessions, lastKnownStatuses, lastUser,
                       shared, failed>>
    BY <1>6 DEF OtherFrame, link, routes, history
  <2> QED  BY <1>1, <2>1, <2>2, OtherStep, CountKept
<1>7. ASSUME NEW w \in Sockets, NEW d \in Devices, NEW allowed \in BOOLEAN, Verified(w, d, allowed)
      PROVE  Shapes' /\ Counts'
  <2>1. /\ clients' = [clients EXCEPT ![w] = d] /\ subscribeToDevice(w, d) /\ UNCHANGED failed
    BY <1>7 DEF Verified, history
  <2> QED  BY <1>1, <1>2, <1>7, <2>1, VerifiedStep, SubscribeCounts
<1>8. ASSUME NEW d \in Devices, NEW ok \in BOOLEAN, BrokerTakes(d, ok) PROVE Shapes' /\ Counts'
  BY <1>1, <1>2, <1>8, BrokerStep, BrokerCounts
<1>9. ASSUME NEW w \in Sockets, NEW r \in Requests, NEW ses \in {Nil, r}, Frame(w, r, ses)
      PROVE  Shapes' /\ Counts'
  <2>1. UNCHANGED <<clients, subscriptionRefs, wire, subscribed, failed>>
    BY <1>9 DEF Frame, link
  <2> QED  BY <1>1, <1>9, <2>1, FrameStep, CountKept
<1>10. ASSUME NEW d \in Devices, NEW r \in Requests, NEW req \in {Nil, r}, NEW ses \in {Nil, r},
              DevicePacket(d, req, ses)
       PROVE  Shapes' /\ Counts'
  <2>1. UNCHANGED <<clients, subscriptionRefs, wire, subscribed, failed>>
    BY <1>10 DEF DevicePacket, link
  <2> QED  BY <1>1, <1>10, <2>1, PacketStep, CountKept
<1>11. ASSUME NEW d \in Devices, DeviceStatusPacket(d) PROVE Shapes' /\ Counts'
  <2>1. UNCHANGED <<clients, subscriptionRefs, wire, subscribed, failed>>
    BY <1>11 DEF DeviceStatusPacket, link, history
  <2>2. /\ lastKnownStatuses' = lastKnownStatuses \cup {d}
        /\ UNCHANGED <<sock, setup, clients, mayUse, subscriptionRefs, wire, subscribed, requestOwners,
                       sessionOwners, clientRequests, clientSessions, limiters, lastUser, shared, failed>>
    BY <1>11 DEF DeviceStatusPacket, link, routes, history
  <2> QED  BY <1>1, <2>1, <2>2, StatusStep, CountKept
<1>12. ASSUME UNCHANGED gwVars PROVE Shapes' /\ Counts'
  <2>1. Shapes'
    BY <1>1, <1>12 DEF Shapes, GwTypes, SocketShape, RouteShape, gwVars
  <2> QED  BY <1>1, <1>12, <2>1, CountKept DEF gwVars
<1> QED
  BY <1>3, <1>4, <1>5, <1>6, <1>7, <1>8, <1>9, <1>10, <1>11, <1>12 DEF GwNext

\* The invariant says what the property asks of the gateway.
LEMMA GwInvServes == GwInv => CountsItsClients /\ RoutesToClients /\ EndedLeavesNothing
<1> SUFFICES ASSUME GwInv PROVE RoutesToClients /\ EndedLeavesNothing
  BY DEF GwInv
<1>1. GwTypes /\ SocketShape /\ RouteShape
  BY GwTypesHold DEF GwInv
<1>2. RoutesToClients
  <2> SUFFICES ASSUME NEW r \in Requests
               PROVE  /\ requestOwners[r] # Nil =>
                            clients[requestOwners[r]] # Nil /\ r \in clientRequests[requestOwners[r]]
                      /\ sessionOwners[r] # Nil => clients[sessionOwners[r]] # Nil
                      /\ lastUser[r] # Nil /\ r \notin shared =>
                           /\ clients[lastUser[r]] # Nil <=> requestOwners[r] = lastUser[r]
                           /\ clients[lastUser[r]] # Nil =>
                                \A d \in Devices, ses \in {Nil, r} : Receivers(d, r, ses) \subseteq {lastUser[r]}
    BY DEF RoutesToClients
  <2>1. requestOwners[r] # Nil =>
          clients[requestOwners[r]] # Nil /\ r \in clientRequests[requestOwners[r]]
    BY <1>1 DEF RouteShape, SocketShape, GwTypes
  <2>2. sessionOwners[r] # Nil => clients[sessionOwners[r]] # Nil
    BY <1>1 DEF RouteShape, SocketShape, GwTypes
  <2>3. ASSUME lastUser[r] # Nil, r \notin shared
        PROVE  clients[lastUser[r]] # Nil <=> requestOwners[r] = lastUser[r]
    BY <1>1, <2>1, <2>3 DEF RouteShape
  <2>4. ASSUME lastUser[r] # Nil, r \notin shared, clients[lastUser[r]] # Nil,
               NEW d \in Devices, NEW ses \in {Nil, r}
        PROVE  Receivers(d, r, ses) \subseteq {lastUser[r]}
    <3>1. packetTarget(r, ses) = lastUser[r]
      BY <2>3, <2>4, GwAssumption DEF packetTarget
    <3> QED  BY <3>1, <2>4 DEF Receivers
  <2> QED  BY <2>1, <2>2, <2>3, <2>4
<1>3. EndedLeavesNothing
  <2> SUFFICES ASSUME NEW w \in Sockets, sock[w] = "closed"
               PROVE  /\ w \notin limiters
                      /\ setup[w] = "ended" => clients[w] = Nil
                      /\ clientRequests[w] = {} /\ clientSessions[w] = {}
                      /\ \A r \in Requests : requestOwners[r] # w /\ sessionOwners[r] # w
    BY DEF EndedLeavesNothing
  <2>1. /\ w \notin limiters /\ clientRequests[w] = {} /\ clientSessions[w] = {}
        /\ setup[w] = "ended" => clients[w] = Nil
    BY <1>1 DEF SocketShape
  <2>2. \A r \in Requests : requestOwners[r] # w /\ sessionOwners[r] # w
    BY <1>1, <2>1, GwAssumption DEF RouteShape
  <2> QED  BY <2>1, <2>2
<1> QED  BY <1>2, <1>3

-----------------------------------------------------------------------------
(* The rate limit                                                           *)

\* The instants grow and none is in the future.
InOrder(instants, now) ==
  /\ \A i, j \in DOMAIN instants : i <= j => instants[i] <= instants[j]
  /\ \A i \in DOMAIN instants : instants[i] <= now

\* A limiter holds the last of the instants that came through, and what it has
\* dropped is older than the window.
KeepsRecent(timestamps, instants, now) ==
  /\ Len(timestamps) <= Len(instants)
  /\ \A i \in 1..Len(timestamps) : timestamps[i] = instants[Len(instants) - Len(timestamps) + i]
  /\ \A i \in 1..(Len(instants) - Len(timestamps)) : instants[i] < now - WindowMs

\* Every interval as long as the window lets at most n through.
AtMost(instants, n) == \A t \in 0..LastTick : CountIn(instants, t, t + WindowMs) <= n

GlInv ==
  /\ GlTypeOK
  /\ 0 < rateLimit.maxCommandMessages /\ rateLimit.maxCommandMessages <= rateLimit.maxMessages
  /\ InOrder(accepted.messages, nowMs) /\ InOrder(accepted.commands, nowMs)
  /\ limited = "no" => /\ KeepsRecent(messageTimestamps, accepted.messages, nowMs)
                       /\ KeepsRecent(commandTimestamps, accepted.commands, nowMs)
  /\ AtMost(accepted.messages, rateLimit.maxMessages)
  /\ AtMost(accepted.commands, rateLimit.maxCommandMessages)
  /\ limited = "too many websocket messages" =>
       \E t \in 0..nowMs : CountIn(accepted.messages, t - WindowMs, t) = rateLimit.maxMessages
  /\ limited = "too many websocket commands" =>
       \E t \in 0..nowMs : CountIn(accepted.commands, t - WindowMs, t) = rateLimit.maxCommandMessages

Instants == Seq(0..LastTick)

\* How many the numbers from a to b are.
LEMMA IntervalCount ==
  ASSUME NEW a \in Nat, NEW b \in Nat, a <= b + 1
  PROVE  IsFiniteSet(a..b) /\ Cardinality(a..b) = b - a + 1
<1>1. a \in Int /\ b \in Int
  OBVIOUS
<1>2. IsFiniteSet(a..b) /\ Cardinality(a..b) = IF a > b THEN 0 ELSE b - a + 1
  BY <1>1, FS_Interval, Zenon
<1> QED  BY <1>2

\* A set of places in a sequence is finite.
LEMMA CountType ==
  ASSUME NEW all \in Instants, NEW P \in SUBSET (DOMAIN all)
  PROVE  IsFiniteSet(P) /\ Cardinality(P) \in Nat
<1>1. DOMAIN all = 1..Len(all) /\ Len(all) \in Nat
  BY DEF Instants
<1>2. IsFiniteSet(1..Len(all))
  BY <1>1, IntervalCount
<1>3. IsFiniteSet(P)
  BY <1>1, <1>2, FS_Subset
<1> QED  BY <1>3, FS_CardinalityType

\* The expired instants at the front are the first so many.
LEMMA PrefixIsInterval ==
  ASSUME NEW ts \in Instants, NEW c \in Int
  PROVE  /\ Cardinality(ExpiredPrefix(ts, c)) \in 0..Len(ts)
         /\ ExpiredPrefix(ts, c) = 1..Cardinality(ExpiredPrefix(ts, c))
<1> DEFINE P == ExpiredPrefix(ts, c)
<1> DEFINE m == Cardinality(P)
<1>1. DOMAIN ts = 1..Len(ts) /\ Len(ts) \in Nat
  BY DEF Instants
<1>2. P \in SUBSET (1..Len(ts)) /\ IsFiniteSet(P) /\ m \in Nat /\ m <= Len(ts)
  <2>1. P \in SUBSET (1..Len(ts))
    BY <1>1 DEF ExpiredPrefix
  <2>2. IsFiniteSet(1..Len(ts)) /\ Cardinality(1..Len(ts)) = Len(ts)
    BY <1>1, IntervalCount
  <2>3. IsFiniteSet(P) /\ m <= Len(ts)
    BY <2>1, <2>2, FS_Subset
  <2> QED  BY <2>1, <2>3, FS_CardinalityType
<1>3. ASSUME NEW x \in P PROVE x <= m
  <2>1. x \in 1..Len(ts) /\ 1..x \in SUBSET P
    BY <1>1, <1>3 DEF ExpiredPrefix
  <2>2. Cardinality(1..x) = x
    BY <2>1, IntervalCount
  <2> QED  BY <1>2, <2>1, <2>2, FS_Subset
<1>4. P \in SUBSET (1..m)
  BY <1>2, <1>3
<1>5. IsFiniteSet(1..m) /\ Cardinality(1..m) = m
  BY <1>2, IntervalCount
<1>6. P = 1..m
  <2> HIDE DEF P, m
  <2>1. Cardinality(1..m) = Cardinality(P)
    BY <1>5 DEF m
  <2> QED  BY <1>4, <1>5, <2>1, FS_Subset
<1> QED  BY <1>2, <1>6

\* A sequence without its first k elements.
LEMMA SuffixFacts ==
  ASSUME NEW ts \in Instants, NEW k \in 0..Len(ts)
  PROVE  /\ SubSeq(ts, k + 1, Len(ts)) \in Instants
         /\ Len(SubSeq(ts, k + 1, Len(ts))) = Len(ts) - k
         /\ \A i \in 1..(Len(ts) - k) : SubSeq(ts, k + 1, Len(ts))[i] = ts[k + i]
<1>1. /\ Len(ts) \in Nat /\ k \in Nat /\ k <= Len(ts)
      /\ \A i \in (k + 1)..Len(ts) : ts[i] \in 0..LastTick
  <2>1. Len(ts) \in Nat /\ \A i \in 1..Len(ts) : ts[i] \in 0..LastTick
    BY LenProperties DEF Instants
  <2>2. k \in Nat /\ k <= Len(ts)
    BY <2>1
  <2>3. \A i \in (k + 1)..Len(ts) : i \in 1..Len(ts)
    BY <2>1, <2>2
  <2> QED  BY <2>1, <2>2, <2>3
<1> DEFINE m == k + 1
           n == Len(ts)
<1>2. m \in Int /\ n \in Int /\ \A i \in m..n : ts[i] \in 0..LastTick
  BY <1>1
<1>3. n - m + 1 = Len(ts) - k /\ \A i \in 1..(n - m + 1) : m + i - 1 = k + i
  BY <1>1
<1>4. (IF m <= n THEN n - m + 1 ELSE 0) = Len(ts) - k
  BY <1>1
<1> HIDE DEF m, n
<1>5. /\ SubSeq(ts, m, n) \in Seq(0..LastTick)
      /\ Len(SubSeq(ts, m, n)) = IF m <= n THEN n - m + 1 ELSE 0
      /\ \A i \in 1..(n - m + 1) : SubSeq(ts, m, n)[i] = ts[m + i - 1]
  BY <1>2, SubSeqProperties
<1>6. /\ SubSeq(ts, m, n) \in Instants
      /\ Len(SubSeq(ts, m, n)) = Len(ts) - k
      /\ \A i \in 1..(Len(ts) - k) : SubSeq(ts, m, n)[i] = ts[k + i]
  BY <1>3, <1>4, <1>5, Zenon DEF Instants
<1> QED  BY <1>6 DEF m, n

\* Pruning leaves exactly the instants of the window that ends now.
LEMMA PruneKeeps ==
  ASSUME NEW ts \in Instants, NEW all \in Instants, NEW now \in Nat,
         InOrder(all, now), KeepsRecent(ts, all, now)
  PROVE  LET pruned == pruneExpiredTimestamps(ts, now - WindowMs) IN
         /\ pruned \in Instants
         /\ KeepsRecent(pruned, all, now)
         /\ CountIn(all, now - WindowMs, now) = Len(pruned)
<1> DEFINE c == now - WindowMs
           k == Cardinality(ExpiredPrefix(ts, c))
           pruned == pruneExpiredTimestamps(ts, c)
           o == Len(all) - Len(ts)
<1>1. /\ Len(ts) \in Nat /\ DOMAIN ts = 1..Len(ts) /\ Len(all) \in Nat /\ DOMAIN all = 1..Len(all)
      /\ WindowMs \in Nat /\ c \in Int
      /\ \A i \in 1..Len(ts) : ts[i] \in Nat
      /\ \A i \in 1..Len(all) : all[i] \in Nat
  BY LimitsAssumption DEF Instants
<1>2. k \in 0..Len(ts) /\ ExpiredPrefix(ts, c) = 1..k
  BY <1>1, PrefixIsInterval
<1>3. pruned \in Instants /\ Len(pruned) = Len(ts) - k
  BY <1>1, <1>2, SuffixFacts DEF pruneExpiredTimestamps
<1>4. \A i \in 1..Len(pruned) : pruned[i] = ts[k + i]
  BY <1>1, <1>2, <1>3, SuffixFacts DEF pruneExpiredTimestamps
<1>5. o \in Nat /\ \A i \in 1..Len(ts) : ts[i] = all[o + i]
  BY <1>1 DEF KeepsRecent
<1> HIDE DEF c, k, pruned, o
<1>6. \A i \in 1..(o + k) : all[i] < c
  <2> SUFFICES ASSUME NEW i \in 1..(o + k) PROVE all[i] < c
    OBVIOUS
  <2>1. CASE i <= o
    BY <2>1, <1>1, <1>5 DEF KeepsRecent, c, o
  <2>2. CASE i > o
    <3>1. i - o \in 1..k /\ i - o \in ExpiredPrefix(ts, c)
      BY <2>2, <1>2, <1>5
    <3>2. ts[i - o] < c
      BY <3>1 DEF ExpiredPrefix
    <3>3. all[i] = ts[i - o]
      BY <3>1, <1>2, <1>5
    <3> QED  BY <3>2, <3>3
  <2> QED  BY <2>1, <2>2, <1>2, <1>5
<1>7. \A i \in (o + k + 1)..Len(all) : all[i] >= c
  <2> SUFFICES ASSUME NEW i \in (o + k + 1)..Len(all) PROVE all[i] >= c
    OBVIOUS
  <2>1. k + 1 \in 1..Len(ts) /\ k + 1 \notin ExpiredPrefix(ts, c)
    BY <1>1, <1>2, <1>5 DEF o
  <2>2. PICK j \in 1..(k + 1) : ~ (ts[j] < c)
    BY <2>1, <1>1 DEF ExpiredPrefix
  <2>3. j \notin 1..k
    <3> SUFFICES ASSUME j \in 1..k PROVE FALSE
      OBVIOUS
    <3>1. j \in ExpiredPrefix(ts, c)
      BY <1>2
    <3> QED  BY <3>1, <2>2 DEF ExpiredPrefix
  <2>4. j = k + 1
    BY <2>2, <2>3, <1>2
  <2>5. all[o + k + 1] >= c
    BY <2>1, <2>2, <2>4, <1>1, <1>2, <1>5
  <2>6. o + k + 1 \in DOMAIN all /\ i \in DOMAIN all /\ o + k + 1 <= i
    BY <1>1, <1>2, <1>5 DEF o
  <2>7. all[o + k + 1] <= all[i]
    BY <2>6 DEF InOrder
  <2> QED  BY <2>5, <2>6, <2>7, <1>1
<1>8. KeepsRecent(pruned, all, now)
  <2>1. Len(all) - Len(pruned) = o + k /\ Len(pruned) <= Len(all)
    BY <1>1, <1>2, <1>3, <1>5 DEF o
  <2>2. \A i \in 1..Len(pruned) : pruned[i] = all[Len(all) - Len(pruned) + i]
    <3> SUFFICES ASSUME NEW i \in 1..Len(pruned) PROVE pruned[i] = all[o + k + i]
      BY <2>1
    <3>1. pruned[i] = ts[k + i] /\ k + i \in 1..Len(ts)
      BY <1>1, <1>2, <1>3, <1>4
    <3>2. ts[k + i] = all[o + (k + i)] /\ o + (k + i) = o + k + i
      BY <3>1, <1>2, <1>5
    <3> QED  BY <3>1, <3>2
  <2> QED  BY <1>6, <2>1, <2>2 DEF KeepsRecent, c
<1>9. CountIn(all, c, now) = Len(pruned)
  <2>1. {i \in DOMAIN all : all[i] \in c..now} = (o + k + 1)..Len(all)
    <3>1. \A i \in DOMAIN all : all[i] \in c..now <=> i \in (o + k + 1)..Len(all)
      BY <1>1, <1>2, <1>5, <1>6, <1>7 DEF InOrder
    <3>2. (o + k + 1)..Len(all) \subseteq DOMAIN all
      BY <1>1, <1>2, <1>5
    <3> QED  BY <3>1, <3>2
  <2>2. o + k + 1 \in Nat /\ o + k + 1 <= Len(all) + 1 /\ Len(all) - (o + k + 1) + 1 = Len(pruned)
    BY <1>1, <1>2, <1>3, <1>5 DEF o
  <2>3. Cardinality((o + k + 1)..Len(all)) = Len(pruned)
    BY <2>2, <1>1, IntervalCount
  <2> QED  BY <2>1, <2>3 DEF CountIn
<1> QED  BY <1>3, <1>8, <1>9 DEF pruned, c

\* One more instant, when the window that ends now is not full.
LEMMA AppendBounded ==
  ASSUME NEW all \in Instants, NEW n \in Nat, NEW now \in 0..LastTick,
         InOrder(all, now), AtMost(all, n), CountIn(all, now - WindowMs, now) < n
  PROVE  Append(all, now) \in Instants /\ InOrder(Append(all, now), now) /\ AtMost(Append(all, now), n)
<1> DEFINE more == Append(all, now)
<1>1. /\ Len(all) \in Nat /\ DOMAIN all = 1..Len(all) /\ WindowMs \in Nat /\ now \in Nat /\ LastTick \in Nat
      /\ \A i \in 1..Len(all) : all[i] \in Nat
  BY LimitsAssumption DEF Instants
<1>2. /\ more \in Instants /\ DOMAIN more = 1..(Len(all) + 1) /\ more[Len(all) + 1] = now
      /\ \A i \in 1..Len(all) : more[i] = all[i]
  BY <1>1 DEF Instants
<1> HIDE DEF more
<1>3. InOrder(more, now)
  BY <1>1, <1>2 DEF InOrder
<1>4. ASSUME NEW t \in 0..LastTick PROVE CountIn(more, t, t + WindowMs) <= n
  <2> DEFINE A == {i \in DOMAIN all : all[i] \in t..(t + WindowMs)}
             M == {i \in DOMAIN more : more[i] \in t..(t + WindowMs)}
             B == {i \in DOMAIN all : all[i] \in (now - WindowMs)..now}
  <2>1. IsFiniteSet(A) /\ Cardinality(A) \in Nat /\ Cardinality(A) <= n
    BY CountType DEF AtMost, CountIn
  <2>2. IsFiniteSet(B) /\ Cardinality(B) \in Nat /\ Cardinality(B) < n
    BY CountType DEF CountIn
  <2>3. CASE now \notin t..(t + WindowMs)
    <3>1. M = A
      BY <2>3, <1>1, <1>2
    <3> QED  BY <3>1, <2>1 DEF CountIn
  <2>4. CASE now \in t..(t + WindowMs)
    <3>1. M = A \cup {Len(all) + 1} /\ Len(all) + 1 \notin A
      BY <2>4, <1>1, <1>2
    <3>2. A \in SUBSET B
      BY <2>4, <1>1 DEF InOrder
    <3>3. Cardinality(A) <= Cardinality(B)
      BY <3>2, <2>2, FS_Subset
    <3>4. Cardinality(M) = Cardinality(A) + 1
      BY <3>1, <2>1, FS_AddElement
    <3>5. Cardinality(M) <= n
      BY <3>3, <3>4, <2>1, <2>2
    <3> QED  BY <3>5 DEF CountIn
  <2> QED  BY <2>3, <2>4
<1> QED  BY <1>2, <1>3, <1>4 DEF more, AtMost

\* A window with at least as many as the bound has exactly as many.
LEMMA FullWindow ==
  ASSUME NEW all \in Instants, NEW n \in Nat, NEW now \in 0..LastTick,
         AtMost(all, n), CountIn(all, now - WindowMs, now) >= n
  PROVE  CountIn(all, now - WindowMs, now) = n
<1>1. /\ Len(all) \in Nat /\ DOMAIN all = 1..Len(all) /\ WindowMs \in Nat /\ LastTick \in Nat
      /\ \A i \in 1..Len(all) : all[i] \in Nat
  BY LimitsAssumption DEF Instants
<1> DEFINE t == IF now >= WindowMs THEN now - WindowMs ELSE 0
           A == {i \in DOMAIN all : all[i] \in t..(t + WindowMs)}
           B == {i \in DOMAIN all : all[i] \in (now - WindowMs)..now}
<1>2. t \in 0..LastTick
  BY <1>1
<1>3. B \in SUBSET A
  BY <1>1
<1>4. IsFiniteSet(A) /\ Cardinality(A) \in Nat /\ Cardinality(B) \in Nat
  BY CountType
<1>5. Cardinality(B) <= Cardinality(A)
  BY <1>3, <1>4, FS_Subset
<1>6. Cardinality(A) <= n
  BY <1>2 DEF AtMost, CountIn
<1>7. Cardinality(B) >= n
  BY DEF CountIn
<1>8. Cardinality(B) = n
  <2> HIDE DEF A, B
  <2> QED  BY <1>4, <1>5, <1>6, <1>7
<1> QED  BY <1>8 DEF CountIn

\* What came through is kept by the limiter too.
LEMMA AppendKeepsRecent ==
  ASSUME NEW ts \in Instants, NEW all \in Instants, NEW now \in 0..LastTick, KeepsRecent(ts, all, now)
  PROVE  Append(ts, now) \in Instants /\ KeepsRecent(Append(ts, now), Append(all, now), now)
<1>1. Len(ts) \in Nat /\ Len(all) \in Nat
  BY DEF Instants
<1>2. /\ Append(ts, now) \in Instants /\ Len(Append(ts, now)) = Len(ts) + 1
      /\ Len(Append(all, now)) = Len(all) + 1
      /\ Append(ts, now)[Len(ts) + 1] = now /\ Append(all, now)[Len(all) + 1] = now
      /\ \A i \in 1..Len(ts) : Append(ts, now)[i] = ts[i]
      /\ \A i \in 1..Len(all) : Append(all, now)[i] = all[i]
  BY <1>1 DEF Instants
<1>3. \A i \in 1..(Len(ts) + 1) :
         Append(ts, now)[i] = Append(all, now)[(Len(all) + 1) - (Len(ts) + 1) + i]
  <2> SUFFICES ASSUME NEW i \in 1..(Len(ts) + 1)
               PROVE  Append(ts, now)[i] = Append(all, now)[(Len(all) + 1) - (Len(ts) + 1) + i]
    OBVIOUS
  <2>1. CASE i = Len(ts) + 1
    BY <1>1, <1>2, <2>1
  <2>2. CASE i # Len(ts) + 1
    <3>1. i \in 1..Len(ts) /\ Len(all) - Len(ts) + i \in 1..Len(all)
      BY <2>2, <1>1 DEF KeepsRecent
    <3>2. (Len(all) + 1) - (Len(ts) + 1) + i = Len(all) - Len(ts) + i
      BY <1>1
    <3> QED  BY <3>1, <3>2, <1>2 DEF KeepsRecent
  <2> QED  BY <2>1, <2>2
<1>4. \A i \in 1..((Len(all) + 1) - (Len(ts) + 1)) : Append(all, now)[i] < now - WindowMs
  BY <1>1, <1>2 DEF KeepsRecent
<1>5. Len(ts) + 1 <= Len(all) + 1
  BY <1>1 DEF KeepsRecent
<1> QED  BY <1>2, <1>3, <1>4, <1>5, Zenon DEF KeepsRecent

\* The clock goes on: nothing gets younger.
LEMMA LaterKeeps ==
  ASSUME NEW ts \in Instants, NEW all \in Instants, NEW now \in Nat
  PROVE  /\ InOrder(all, now) => InOrder(all, now + 1)
         /\ KeepsRecent(ts, all, now) => KeepsRecent(ts, all, now + 1)
<1>1. /\ Len(all) \in Nat /\ Len(ts) \in Nat /\ DOMAIN all = 1..Len(all) /\ WindowMs \in Nat
      /\ \A i \in 1..Len(all) : all[i] \in Nat
  BY LimitsAssumption DEF Instants
<1>2. InOrder(all, now) => InOrder(all, now + 1)
  BY <1>1 DEF InOrder
<1>3. KeepsRecent(ts, all, now) => KeepsRecent(ts, all, now + 1)
  BY <1>1 DEF KeepsRecent
<1> QED  BY <1>2, <1>3

\* Whatever was configured, the limits are usable and ordered.
LEMMA LimitsUsable ==
  ASSUME NEW messages \in Settings, NEW commands \in Settings
  PROVE  LET limits == normalizeGatewayRateLimit(messages, commands) IN
         /\ limits \in [maxMessages : Nat, maxCommandMessages : Nat]
         /\ 0 < limits.maxCommandMessages /\ limits.maxCommandMessages <= limits.maxMessages
<1> DEFINE limits == normalizeGatewayRateLimit(messages, commands)
<1>1. /\ messages \in Nat /\ commands \in Nat
      /\ DefaultMessages \in Nat \ {0} /\ DefaultCommands \in Nat \ {0}
  BY LimitsAssumption
<1>2. limits.maxMessages = IF messages > 0 THEN messages ELSE DefaultMessages
  BY DEF normalizeGatewayRateLimit
<1>3. limits.maxCommandMessages = IF commands > 0 /\ commands <= limits.maxMessages THEN commands
                                  ELSE IF DefaultCommands < limits.maxMessages THEN DefaultCommands
                                  ELSE limits.maxMessages
  BY DEF normalizeGatewayRateLimit
<1>4. limits = [maxMessages |-> limits.maxMessages, maxCommandMessages |-> limits.maxCommandMessages]
  BY DEF normalizeGatewayRateLimit
<1> HIDE DEF limits
<1>5. limits.maxMessages \in Nat \ {0}
  BY <1>1, <1>2
<1>6. limits.maxCommandMessages \in Nat \ {0} /\ limits.maxCommandMessages <= limits.maxMessages
  BY <1>1, <1>3, <1>5
<1> QED  BY <1>4, <1>5, <1>6 DEF limits

\* No instant has come through yet.
LEMMA NoneYet ==
  ASSUME NEW n \in Nat
  PROVE  <<>> \in Instants /\ InOrder(<<>>, 0) /\ KeepsRecent(<<>>, <<>>, 0) /\ AtMost(<<>>, n)
<1>1. <<>> \in Instants /\ DOMAIN <<>> = {} /\ Len(<<>>) = 0
  BY DEF Instants
<1>2. \A t \in 0..LastTick : CountIn(<<>>, t, t + WindowMs) = 0
  BY <1>1, FS_EmptySet DEF CountIn
<1>3. \A i \in 1..0 : FALSE
  OBVIOUS
<1>4. KeepsRecent(<<>>, <<>>, 0)
  BY <1>1, <1>3 DEF KeepsRecent
<1> QED  BY <1>1, <1>2, <1>4 DEF InOrder, AtMost

LEMMA GlInitially == GlInit => GlInv
<1> SUFFICES ASSUME GlInit PROVE GlInv
  OBVIOUS
<1>1. /\ rateLimit \in [maxMessages : Nat, maxCommandMessages : Nat]
      /\ 0 < rateLimit.maxCommandMessages /\ rateLimit.maxCommandMessages <= rateLimit.maxMessages
  BY LimitsUsable DEF GlInit
<1>2. rateLimit.maxMessages \in Nat /\ rateLimit.maxCommandMessages \in Nat
  BY <1>1
<1>3. GlTypeOK
  BY <1>1, <1>2, NoneYet, LimitsAssumption DEF GlInit, GlTypeOK, Instants
<1> QED  BY <1>1, <1>2, <1>3, NoneYet DEF GlInit, GlInv

\* Every message and every tick keeps the invariant.
LEMMA GlStepInv == GlInv /\ [GlNext]_glVars => GlInv'
<1> SUFFICES ASSUME GlInv, [GlNext]_glVars PROVE GlInv'
  OBVIOUS
<1>1. /\ nowMs \in 0..LastTick /\ nowMs \in Nat
      /\ messageTimestamps \in Instants /\ commandTimestamps \in Instants
      /\ accepted.messages \in Instants /\ accepted.commands \in Instants
      /\ rateLimit.maxMessages \in Nat /\ rateLimit.maxCommandMessages \in Nat
  <2>1. GlTypeOK /\ LastTick \in Nat
    BY LimitsAssumption DEF GlInv
  <2>2. nowMs \in 0..LastTick /\ nowMs \in Nat
    <3>1. nowMs \in 0..LastTick
      BY <2>1, Zenon DEF GlTypeOK
    <3> QED  BY <2>1, <3>1
  <2>3. messageTimestamps \in Instants /\ commandTimestamps \in Instants
    BY <2>1, Zenon DEF GlTypeOK, Instants
  <2>4. accepted.messages \in Instants /\ accepted.commands \in Instants
    BY <2>1 DEF GlTypeOK, Instants
  <2>5. rateLimit.maxMessages \in Nat /\ rateLimit.maxCommandMessages \in Nat
    BY <2>1 DEF GlTypeOK
  <2> QED  BY <2>2, <2>3, <2>4, <2>5
<1>2. ASSUME NEW asCommand \in BOOLEAN, Inbound(asCommand) PROVE GlInv'
  <2> DEFINE messages == pruneExpiredTimestamps(messageTimestamps, nowMs - WindowMs)
             commands == pruneExpiredTimestamps(commandTimestamps, nowMs - WindowMs)
             tooMany == Len(messages) >= rateLimit.maxMessages
             tooManyCommands == asCommand /\ Len(commands) >= rateLimit.maxCommandMessages
  <2>0. UNCHANGED <<rateLimit, nowMs>> /\ limited = "no"
    BY <1>2 DEF Inbound
  <2>1. /\ messages \in Instants /\ KeepsRecent(messages, accepted.messages, nowMs)
        /\ CountIn(accepted.messages, nowMs - WindowMs, nowMs) = Len(messages)
    BY <1>1, <2>0, PruneKeeps DEF GlInv
  <2>2. /\ commands \in Instants /\ KeepsRecent(commands, accepted.commands, nowMs)
        /\ CountIn(accepted.commands, nowMs - WindowMs, nowMs) = Len(commands)
    BY <1>1, <2>0, PruneKeeps DEF GlInv
  <2>3. Len(messages) \in Nat /\ Len(commands) \in Nat /\ <<>> \in Instants
    BY <2>1, <2>2 DEF Instants
  <2>4. limited' = IF tooMany THEN "too many websocket messages"
                   ELSE IF tooManyCommands THEN "too many websocket commands" ELSE "no"
    BY <1>2 DEF Inbound
  <2>5. CASE tooMany \/ tooManyCommands
    <3>1. accepted' = accepted /\ messageTimestamps' = <<>> /\ commandTimestamps' = <<>> /\ limited' # "no"
      BY <1>2, <2>4, <2>5 DEF Inbound
    <3>2. GlTypeOK'
      BY <2>0, <2>3, <2>4, <3>1 DEF GlInv, GlTypeOK, Instants
    <3>3. ASSUME limited' = "too many websocket messages"
          PROVE  CountIn(accepted.messages, nowMs - WindowMs, nowMs) = rateLimit.maxMessages
      <4>1. Len(messages) >= rateLimit.maxMessages
        BY <2>4, <3>3
      <4> QED  BY <1>1, <2>1, <4>1, FullWindow DEF GlInv
    <3>4. ASSUME limited' = "too many websocket commands"
          PROVE  CountIn(accepted.commands, nowMs - WindowMs, nowMs) = rateLimit.maxCommandMessages
      <4>1. Len(commands) >= rateLimit.maxCommandMessages
        BY <2>4, <3>4
      <4> QED  BY <1>1, <2>2, <4>1, FullWindow DEF GlInv
    <3>5. nowMs \in 0..nowMs
      BY <1>1
    <3> QED  BY <2>0, <3>1, <3>2, <3>3, <3>4, <3>5 DEF GlInv
  <2>6. CASE ~ tooMany /\ ~ tooManyCommands
    <3>1. /\ limited' = "no"
          /\ messageTimestamps' = Append(messages, nowMs)
          /\ commandTimestamps' = IF asCommand THEN Append(commands, nowMs) ELSE commandTimestamps
          /\ accepted' = [messages |-> Append(accepted.messages, nowMs),
                          commands |-> IF asCommand THEN Append(accepted.commands, nowMs)
                                       ELSE accepted.commands]
      BY <1>2, <2>4, <2>6 DEF Inbound
    <3>2. accepted'.messages = Append(accepted.messages, nowMs)
      BY <3>1
    <3>3. accepted'.commands = IF asCommand THEN Append(accepted.commands, nowMs) ELSE accepted.commands
      BY <3>1
    <3>4. CountIn(accepted.messages, nowMs - WindowMs, nowMs) < rateLimit.maxMessages
      BY <1>1, <2>1, <2>3, <2>6
    <3>5. /\ accepted'.messages \in Instants /\ InOrder(accepted'.messages, nowMs)
          /\ AtMost(accepted'.messages, rateLimit.maxMessages)
      BY <1>1, <3>2, <3>4, AppendBounded DEF GlInv
    <3>6. messageTimestamps' \in Instants /\ KeepsRecent(messageTimestamps', accepted'.messages, nowMs)
      BY <1>1, <2>1, <3>1, <3>2, AppendKeepsRecent
    <3>7. /\ accepted'.commands \in Instants /\ InOrder(accepted'.commands, nowMs)
          /\ AtMost(accepted'.commands, rateLimit.maxCommandMessages)
          /\ commandTimestamps' \in Instants /\ KeepsRecent(commandTimestamps', accepted'.commands, nowMs)
      <4>1. CASE ~ asCommand
        BY <1>1, <2>0, <3>1, <3>3, <4>1 DEF GlInv
      <4>2. CASE asCommand
        <5>1. CountIn(accepted.commands, nowMs - WindowMs, nowMs) < rateLimit.maxCommandMessages
          BY <1>1, <2>2, <2>3, <2>6, <4>2
        <5>2. /\ accepted'.commands = Append(accepted.commands, nowMs)
              /\ commandTimestamps' = Append(commands, nowMs)
          BY <3>1, <3>3, <4>2
        <5>3. /\ accepted'.commands \in Instants /\ InOrder(accepted'.commands, nowMs)
              /\ AtMost(accepted'.commands, rateLimit.maxCommandMessages)
          BY <1>1, <5>1, <5>2, AppendBounded DEF GlInv
        <5>4. commandTimestamps' \in Instants /\ KeepsRecent(commandTimestamps', accepted'.commands, nowMs)
          BY <1>1, <2>2, <5>2, AppendKeepsRecent
        <5> QED  BY <5>3, <5>4
      <4> QED  BY <4>1, <4>2
    <3>8. accepted' \in [messages : Instants, commands : Instants]
      BY <3>1, <3>2, <3>3, <3>5, <3>7
    <3>9. GlTypeOK'
      BY <2>0, <3>1, <3>6, <3>7, <3>8 DEF GlInv, GlTypeOK, Instants
    <3> QED  BY <2>0, <3>1, <3>5, <3>6, <3>7, <3>9 DEF GlInv
  <2> QED  BY <2>5, <2>6
<1>3. ASSUME ClockTicks PROVE GlInv'
  <2>1. /\ nowMs' = nowMs + 1 /\ nowMs' \in 0..LastTick
        /\ UNCHANGED <<rateLimit, messageTimestamps, commandTimestamps, limited, accepted>>
    BY <1>1, <1>3, LimitsAssumption DEF ClockTicks
  <2>2. GlTypeOK'
    BY <2>1 DEF GlInv, GlTypeOK
  <2>3. \A t \in 0..nowMs : t \in 0..nowMs'
    BY <1>1, <2>1
  <2>4. /\ InOrder(accepted.messages, nowMs') /\ InOrder(accepted.commands, nowMs')
        /\ limited = "no" => /\ KeepsRecent(messageTimestamps, accepted.messages, nowMs')
                             /\ KeepsRecent(commandTimestamps, accepted.commands, nowMs')
    BY <1>1, <2>1, LaterKeeps DEF GlInv
  <2> QED  BY <2>1, <2>2, <2>3, <2>4 DEF GlInv
<1>4. ASSUME UNCHANGED glVars PROVE GlInv'
  BY <1>4 DEF GlInv, GlTypeOK, glVars
<1> QED  BY <1>2, <1>3, <1>4 DEF GlNext

-----------------------------------------------------------------------------
(* The gateway in the composition                                           *)

GatewayInv ==
  /\ part = "gateway" => GwInv
  /\ part = "limits" => GlInv

\* The inductive invariant of the gateway and its rate limit.
THEOREM GatewayInvariance == Spec => []GatewayInv
<1>1. Init => GatewayInv
  BY GwInitially, GlInitially DEF Init, GatewayInv
<1>2. GatewayInv /\ [Next]_vars => GatewayInv'
  <2> SUFFICES ASSUME GatewayInv, [Next]_vars PROVE GatewayInv'
    OBVIOUS
  <2>1. part' = part
    BY DEF Next, vars, OthersOff, GwStep, GlStep, LtStep, LvStep, LlStep, PtzStep, RmStep, ScStep,
           DpStep, RoiStep, RcvStep
  <2>2. part = "gateway" => [GwNext]_gwVars
    BY DEF Next, vars, OthersOff, GwStep, GlStep, LtStep, LvStep, LlStep, PtzStep, RmStep, ScStep,
           DpStep, RoiStep, RcvStep
  <2>3. part = "limits" => [GlNext]_glVars
    BY DEF Next, vars, OthersOff, GwStep, GlStep, LtStep, LvStep, LlStep, PtzStep, RmStep, ScStep,
           DpStep, RoiStep, RcvStep
  <2> QED  BY <2>1, <2>2, <2>3, GwStepInv, GlStepInv DEF GatewayInv
<1> QED  BY <1>1, <1>2, PTL DEF Spec

\* An ended socket leaves no route, limiter or ownership behind, and no entry unless it closed
\* before its handlers were installed; packets go to clients; a device is counted once per entry,
\* unless a SUBSCRIBE of it failed; and no window lets more through than the limits say: for any
\* sockets, devices, requests, settings, window and clock.
THEOREM GatewayServes == Spec => []GatewayServesItsClients
<1>1. GatewayInv => GatewayServesItsClients
  BY GwInvServes DEF GatewayInv, GatewayServesItsClients, GlInv, RateIsBounded, AtMost
<1> QED  BY <1>1, GatewayInvariance, PTL

-----------------------------------------------------------------------------
(* The transport: clients and sockets                                       *)

SocketStates == {"connecting", "open", "closing", "closed"}
SocketRecords == [client : LtClients, state : SocketStates]
Frames == Calls \cup {"set-device", "get-status"}
ClientRecords ==
  [ws : Nat, shouldReconnect : BOOLEAN, retrying : BOOLEAN, timers : Nat, queue : Seq(Frames),
   handlers : BOOLEAN, device : Targets \cup {None}]

LtTypes ==
  /\ device \in Targets \cup {None} /\ activeDevice \in Targets \cup {None}
  /\ mounted \in BOOLEAN
  /\ made \in 0..MaxClients /\ client \in 0..made
  /\ lc \in [LtClients -> ClientRecords]
  /\ socket \in Seq(SocketRecords) /\ Len(socket) <= MaxSockets
  /\ transportState \in {"disconnected", "connecting", "connected", "reconnecting"}
  /\ view \in [device : Targets \cup {None}, status : Targets \cup {None}]
  /\ pendingRequests \subseteq Calls /\ timeouts \subseteq Calls
  /\ promise \in [Calls -> {"none", "waiting", "misconfigured", "switched", "reset", "resolved",
                            "rejected", "timed out"}]
  /\ carrier \in [Calls -> 0..made]
  /\ rerun \subseteq 1..made

LiveStates == {"connecting", "open"}
ClosedOf(c) == {s \in 1..Len(socket) : socket[s].client = c /\ socket[s].state = "closed"}

\* A client: its queue is bounded, its current socket is its own, it has handlers while it is the
\* provider's, every timer it has was armed by a socket of its own that closed, and one not made
\* yet has nothing.
ClientFits(c) ==
  /\ Len(lc[c].queue) <= MaxQueueSize
  /\ lc[c].ws \in 0..Len(socket) /\ (lc[c].ws # 0 => socket[lc[c].ws].client = c)
  /\ lc[c].handlers <=> c = client /\ mounted
  /\ lc[c].timers <= Cardinality(ClosedOf(c))
  /\ c > made => lc[c].ws = 0 /\ lc[c].timers = 0 /\ \A s \in 1..Len(socket) : socket[s].client # c
  /\ c = client => lc[c].device = device

ClientShape == \A c \in LtClients : ClientFits(c)

\* A client whose effect ran once: a socket of it that lives is the current one, with no timer
\* armed; it means to be connected only as the provider's client, and then a timer is armed or the
\* current socket lives; a socket being closed was given up for good.
OnceFits(c) ==
  /\ \A s \in 1..Len(socket) : socket[s].client = c /\ socket[s].state \in LiveStates =>
       s = lc[c].ws /\ lc[c].shouldReconnect /\ lc[c].timers = 0
  /\ \A s \in 1..Len(socket) : socket[s].client = c /\ socket[s].state = "closing" =>
       ~ lc[c].shouldReconnect
  /\ lc[c].timers \in {0, 1} /\ (lc[c].timers = 1 => lc[c].shouldReconnect)
  /\ lc[c].shouldReconnect =>
       /\ c = client /\ mounted
       /\ lc[c].timers = 1 \/ (lc[c].ws # 0 /\ socket[lc[c].ws].state \in LiveStates)

OnceShape == \A c \in (1..made) \ rerun : OnceFits(c)

\* "connected" is shown while the client in use can send.
ShownShape ==
  client \in (1..made) \ rerun /\ mounted =>
    (transportState = "connected" <=> lc[client].ws # 0 /\ socket[lc[client].ws].state = "open")

\* The requests: the table, the timers and the promises agree; a frame is out, queued or displaced.
RequestShape ==
  /\ pendingRequests = timeouts
  /\ \A r \in Calls : promise[r] = "waiting" <=> r \in pendingRequests
  /\ \A r \in Calls : promise[r] = "waiting" => carrier[r] # 0
  /\ \A r \in Calls : promise[r] = "waiting" /\ carrier[r] = client /\ mounted =>
       \/ r \in sent \/ r \in dropped
       \/ \E i \in 1..Len(lc[client].queue) : lc[client].queue[i] = r

LtInv == LtTypes /\ ClientShape /\ OnceShape /\ ShownShape /\ RequestShape /\ ShowsOwnDevice


-----------------------------------------------------------------------------
(* Sockets and frames                                                       *)

LEMMA SocketTypes ==
  ASSUME LtTypes
  PROVE  /\ socket \in Seq(SocketRecords) /\ Len(socket) \in Nat
         /\ \A i \in 1..Len(socket) : /\ socket[i] \in SocketRecords /\ socket[i].client \in LtClients
                                      /\ socket[i].state \in SocketStates
<1>1. socket \in Seq(SocketRecords)
  BY DEF LtTypes
<1>2. Len(socket) \in Nat /\ \A i \in 1..Len(socket) : socket[i] \in SocketRecords
  BY <1>1
<1>3. \A x \in SocketRecords : x.client \in LtClients /\ x.state \in SocketStates
  BY DEF SocketRecords
<1> QED  BY <1>1, <1>2, <1>3

LEMMA SocketTypesNext ==
  ASSUME LtTypes'
  PROVE  /\ socket' \in Seq(SocketRecords) /\ Len(socket') \in Nat
         /\ \A i \in 1..Len(socket') : /\ socket'[i] \in SocketRecords /\ socket'[i].client \in LtClients
                                       /\ socket'[i].state \in SocketStates
<1>1. socket' \in Seq(SocketRecords)
  BY DEF LtTypes
<1>2. Len(socket') \in Nat /\ \A i \in 1..Len(socket') : socket'[i] \in SocketRecords
  BY <1>1
<1>3. \A x \in SocketRecords : x.client \in LtClients /\ x.state \in SocketStates
  BY DEF SocketRecords
<1> QED  BY <1>1, <1>2, <1>3

\* A socket that changes its state.
LEMMA StateSet ==
  ASSUME LtTypes, NEW s \in 1..Len(socket), NEW st \in SocketStates
  PROVE  LET n == [socket EXCEPT ![s].state = st] IN
         /\ n \in Seq(SocketRecords) /\ Len(n) = Len(socket)
         /\ \A i \in 1..Len(socket) : /\ n[i].client = socket[i].client
                                      /\ n[i].state = IF i = s THEN st ELSE socket[i].state
<1> DEFINE n == [socket EXCEPT ![s].state = st]
<1>1. socket \in Seq(SocketRecords) /\ \A i \in 1..Len(socket) : socket[i] \in SocketRecords
  BY SocketTypes
<1>2. \A i \in 1..Len(socket) : n[i] = IF i = s THEN [socket[i] EXCEPT !.state = st] ELSE socket[i]
  BY <1>1
<1>3. \A i \in 1..Len(socket) : /\ n[i] \in SocketRecords /\ n[i].client = socket[i].client
                                /\ n[i].state = IF i = s THEN st ELSE socket[i].state
  BY <1>1, <1>2 DEF SocketRecords
<1>4. [socket EXCEPT ![s] = [socket[s] EXCEPT !.state = st]] \in Seq(SocketRecords)
  BY <1>1, <1>2, <1>3, ExceptSeq
<1>5. n \in Seq(SocketRecords) /\ Len(n) = Len(socket)
  BY <1>1, <1>4, ExceptSeq
<1> QED  BY <1>3, <1>5

\* A socket more.
LEMMA SocketAdded ==
  ASSUME NEW ss \in Seq(SocketRecords), NEW c \in LtClients
  PROVE  LET n == Append(ss, [client |-> c, state |-> "connecting"]) IN
         /\ n \in Seq(SocketRecords) /\ Len(n) = Len(ss) + 1
         /\ \A i \in 1..Len(ss) : n[i] = ss[i]
         /\ n[Len(ss) + 1] = [client |-> c, state |-> "connecting"]
<1>1. [client |-> c, state |-> "connecting"] \in SocketRecords
  BY DEF SocketRecords, SocketStates
<1> QED  BY <1>1, AppendProperties

\* The closed sockets of a client are as many as the list is long at most.
LEMMA ClosedFinite ==
  ASSUME LtTypes, NEW c
  PROVE  IsFiniteSet(ClosedOf(c)) /\ Cardinality(ClosedOf(c)) \in Nat /\ Cardinality(ClosedOf(c)) <= Len(socket)
<1>1. Len(socket) \in Nat
  BY SocketTypes
<1>2. IsFiniteSet(1..Len(socket)) /\ Cardinality(1..Len(socket)) = Len(socket)
  BY <1>1, FS_Interval, SMTT(30)
<1>3. ClosedOf(c) \subseteq 1..Len(socket)
  BY DEF ClosedOf
<1> QED  BY <1>1, <1>2, <1>3, FS_Subset, FS_CardinalityType

\* A frame more, in a bounded queue: it is in, and what was in is in or displaced.
LEMMA PushedFacts ==
  ASSUME NEW q \in Seq(Frames), Len(q) <= MaxQueueSize, NEW x \in Frames
  PROVE  /\ Pushed(q, x) \in Seq(Frames) /\ Len(Pushed(q, x)) <= MaxQueueSize
         /\ \E i \in 1..Len(Pushed(q, x)) : Pushed(q, x)[i] = x
         /\ \A i \in 1..Len(q) : \/ q[i] \in Displaced(q)
                                \/ \E j \in 1..Len(Pushed(q, x)) : Pushed(q, x)[j] = q[i]
<1> USE LtAssumption
<1>1. CASE Len(q) >= MaxQueueSize
  <2>1. q # <<>> /\ Tail(q) \in Seq(Frames) /\ Len(Tail(q)) = Len(q) - 1
        /\ \A i \in 1..Len(Tail(q)) : Tail(q)[i] = q[i + 1]
    BY <1>1, HeadTailProperties
  <2> DEFINE t == Tail(q)
             p == Append(t, x)
  <2>2. p \in Seq(Frames) /\ Len(p) = Len(q) /\ p[Len(p)] = x /\ \A i \in 1..(Len(q) - 1) : p[i] = q[i + 1]
    BY <2>1, AppendProperties
  <2>3. Pushed(q, x) = p /\ Displaced(q) = {q[1]}
    BY <1>1, <2>1 DEF Pushed, Displaced
  <2>4. ASSUME NEW i \in 1..Len(q) PROVE q[i] \in {q[1]} \/ \E j \in 1..Len(p) : p[j] = q[i]
    <3>1. CASE i = 1
      BY <3>1
    <3>2. CASE i # 1
      <4>1. i - 1 \in 1..(Len(q) - 1) /\ (i - 1) + 1 = i
        BY <3>2
      <4>2. p[i - 1] = q[i]
        BY <2>2, <4>1
      <4>3. i - 1 \in 1..Len(p)
        BY <2>2, <4>1
      <4> HIDE DEF p
      <4> QED  BY <4>2, <4>3
    <3> QED  BY <3>1, <3>2
  <2>5. Len(p) \in 1..Len(p)
    BY <1>1, <2>2
  <2> HIDE DEF p
  <2> QED  BY <2>2, <2>3, <2>4, <2>5
<1>2. CASE ~ (Len(q) >= MaxQueueSize)
  <2> DEFINE p == Append(q, x)
  <2>1. p \in Seq(Frames) /\ Len(p) = Len(q) + 1 /\ p[Len(p)] = x /\ \A i \in 1..Len(q) : p[i] = q[i]
    BY AppendProperties
  <2>2. Pushed(q, x) = p
    BY <1>2 DEF Pushed
  <2>3. Len(p) \in 1..Len(p) /\ \A i \in 1..Len(q) : i \in 1..Len(p)
    BY <2>1
  <2> HIDE DEF p
  <2> QED  BY <1>2, <2>1, <2>2, <2>3
<1> QED  BY <1>1, <1>2

LEMMA LtInitially == LtInit => LtInv
<1> SUFFICES ASSUME LtInit PROVE LtInv
  OBVIOUS
<1> USE LtAssumption DEF LtInit
<1>1. <<>> \in Seq(Frames) /\ <<>> \in Seq(SocketRecords) /\ Len(<<>>) = 0
  BY EmptySeq
<1>2. NewClient \in ClientRecords
  BY <1>1 DEF NewClient, ClientRecords
<1>3. LtTypes
  BY <1>1, <1>2 DEF LtTypes
<1>4. \A c : ClosedOf(c) = {}
  BY <1>1 DEF ClosedOf
<1>5. ClientShape
  <2>1. Cardinality({}) = 0
    BY FS_EmptySet
  <2>2. \A c \in LtClients : c # client /\ lc[c] = NewClient
    BY DEF LtClients
  <2>3. 0 \in 0..Len(socket) /\ (\A s : s \notin 1..Len(socket)) /\ Len(socket) = 0
    BY <1>1
  <2>4. /\ NewClient.queue = <<>> /\ NewClient.ws = 0 /\ NewClient.timers = 0 /\ ~ NewClient.handlers
        /\ NewClient.device = None
    BY DEF NewClient
  <2> SUFFICES ASSUME NEW c \in LtClients
               PROVE  /\ Len(lc[c].queue) <= MaxQueueSize
                      /\ lc[c].ws \in 0..Len(socket) /\ lc[c].ws = 0
                      /\ ~ lc[c].handlers /\ c # client
                      /\ lc[c].timers <= Cardinality(ClosedOf(c)) /\ lc[c].timers = 0
    BY <2>3 DEF ClientShape, ClientFits
  <2>5. Len(lc[c].queue) <= MaxQueueSize
    BY <1>1, <2>2, <2>4
  <2>6. ~ lc[c].handlers /\ c # client
    BY <2>2, <2>4, Zenon
  <2>7. lc[c].ws = 0 /\ lc[c].timers = 0
    BY <2>2, <2>4, Zenon
  <2>8. Cardinality(ClosedOf(c)) = 0
    BY <1>4, <2>1, Zenon
  <2>9. lc[c].timers <= Cardinality(ClosedOf(c))
    BY <2>7, <2>8
  <2> QED  BY <2>3, <2>5, <2>6, <2>7, <2>9
<1>6. OnceShape /\ ShownShape /\ RequestShape /\ ShowsOwnDevice
  BY DEF OnceShape, ShownShape, RequestShape, ShowsOwnDevice
<1> QED  BY <1>3, <1>5, <1>6 DEF LtInv

-----------------------------------------------------------------------------
(* The steps of the transport                                               *)

\* The requests are accounted for as before when a step only moves frames on.
LEMMA RequestsKept ==
  ASSUME LtInv, UNCHANGED <<client, mounted, pendingRequests, timeouts, promise, carrier>>,
         sent \subseteq sent', dropped \subseteq dropped',
         client # 0 => \A i \in 1..Len(lc[client].queue) :
            \/ lc[client].queue[i] \in sent' \cup dropped'
            \/ \E j \in 1..Len(lc'[client].queue) : lc'[client].queue[j] = lc[client].queue[i]
  PROVE  RequestShape'
<1> USE DEF LtInv, RequestShape
<1>1. /\ pendingRequests' = timeouts'
      /\ \A r \in Calls : promise'[r] = "waiting" <=> r \in pendingRequests'
      /\ \A r \in Calls : promise'[r] = "waiting" => carrier'[r] # 0
  OBVIOUS
<1>2. ASSUME NEW r \in Calls, promise'[r] = "waiting" /\ carrier'[r] = client' /\ mounted'
      PROVE  \/ r \in sent' \/ r \in dropped'
             \/ \E i \in 1..Len(lc'[client'].queue) : lc'[client'].queue[i] = r
  <2>1. client # 0
    BY <1>2
  <2>2. r \in sent \/ r \in dropped \/ \E i \in 1..Len(lc[client].queue) : lc[client].queue[i] = r
    BY <1>2
  <2>3. CASE \E i \in 1..Len(lc[client].queue) : lc[client].queue[i] = r
    <3>1. PICK i \in 1..Len(lc[client].queue) : lc[client].queue[i] = r
      BY <2>3
    <3>2. \/ r \in sent' \cup dropped'
          \/ \E j \in 1..Len(lc'[client].queue) : lc'[client].queue[j] = r
      BY <2>1, <3>1
    <3> QED  BY <3>2
  <2> QED  BY <2>2, <2>3
<1> QED  BY <1>1, <1>2

\* The fields of a client.
LEMMA ClientTypes ==
  ASSUME LtTypes, NEW c \in LtClients
  PROVE  /\ lc[c] \in ClientRecords /\ DOMAIN lc = LtClients
         /\ lc[c].ws \in Nat /\ lc[c].timers \in Nat /\ lc[c].queue \in Seq(Frames)
         /\ lc[c].shouldReconnect \in BOOLEAN /\ lc[c].retrying \in BOOLEAN /\ lc[c].handlers \in BOOLEAN
         /\ lc[c].device \in Targets \cup {None}
<1>1. lc \in [LtClients -> ClientRecords]
  BY DEF LtTypes
<1>2. lc[c] \in ClientRecords /\ DOMAIN lc = LtClients
  BY <1>1
<1> QED  BY <1>2 DEF ClientRecords

\* A step of the clients C and their sockets: the others stay as they are.
OthersRest(C) ==
  /\ \A d \in LtClients \ C : lc'[d] = lc[d]
  /\ Len(socket) <= Len(socket')
  /\ \A i \in 1..Len(socket) : socket[i].client \notin C => socket'[i] = socket[i]
  /\ \A i \in 1..Len(socket) : socket'[i].client = socket[i].client
  /\ \A i \in 1..Len(socket') : i > Len(socket) => socket'[i].client \in C

LEMMA OthersKept ==
  ASSUME LtInv, LtTypes', NEW C, OthersRest(C), NEW d \in LtClients, d \notin C,
         d = client' /\ mounted' <=> d = client /\ mounted,
         d = client' => d = client /\ device' = device,
         d > made' => d > made, d \in (1..made') \ rerun' => d \in (1..made) \ rerun
  PROVE  ClientFits(d)' /\ (d \in (1..made') \ rerun' => OnceFits(d)')
<1>1. LtTypes /\ ClientShape /\ OnceShape
  BY DEF LtInv
<1>2. lc'[d] = lc[d]
  BY DEF OthersRest
<1>3. Len(socket) \in Nat /\ Len(socket') \in Nat
  BY <1>1, SocketTypes, SocketTypesNext
<1>4. \A i \in 1..Len(socket') : socket'[i].client = d => i \in 1..Len(socket) /\ socket'[i] = socket[i]
  <2> SUFFICES ASSUME NEW i \in 1..Len(socket'), socket'[i].client = d
               PROVE  i \in 1..Len(socket) /\ socket'[i] = socket[i]
    OBVIOUS
  <2>1. ~ (i > Len(socket))
    BY DEF OthersRest
  <2>2. i \in 1..Len(socket)
    BY <1>3, <2>1
  <2>3. socket[i].client = d
    BY <2>2 DEF OthersRest
  <2> QED  BY <2>2, <2>3 DEF OthersRest
<1>5. \A i \in 1..Len(socket) : socket[i].client = d => i \in 1..Len(socket') /\ socket'[i] = socket[i]
  BY <1>3 DEF OthersRest
<1>6. ClosedOf(d)' = ClosedOf(d)
  BY <1>4, <1>5 DEF ClosedOf
<1>7. lc[d].ws # 0 => lc[d].ws \in 1..Len(socket) /\ socket[lc[d].ws].client = d
  BY <1>1, <1>3 DEF ClientShape, ClientFits
<1>8. lc[d].ws # 0 => lc[d].ws \in 1..Len(socket') /\ socket'[lc[d].ws] = socket[lc[d].ws]
  BY <1>5, <1>7
<1>9. /\ Len(lc'[d].queue) <= MaxQueueSize
      /\ lc'[d].ws \in 0..Len(socket') /\ (lc'[d].ws # 0 => socket'[lc'[d].ws].client = d)
      /\ lc'[d].handlers <=> d = client' /\ mounted'
      /\ lc'[d].timers <= Cardinality(ClosedOf(d)')
      /\ d = client' => lc'[d].device = device'
  BY <1>1, <1>2, <1>3, <1>6, <1>7, <1>8 DEF ClientShape, ClientFits
<1>10. d > made' => lc'[d].ws = 0 /\ lc'[d].timers = 0 /\ \A s \in 1..Len(socket') : socket'[s].client # d
  BY <1>1, <1>2, <1>4 DEF ClientShape, ClientFits
<1>11. ASSUME d \in (1..made') \ rerun' PROVE OnceFits(d)'
  <2>1. d \in (1..made) \ rerun
    BY <1>11
  <2>2. \A s \in 1..Len(socket) : socket[s].client = d /\ socket[s].state \in LiveStates =>
                   s = lc[d].ws /\ lc[d].shouldReconnect /\ lc[d].timers = 0
    BY <1>1, <2>1 DEF OnceShape, OnceFits
  <2>3. \A s \in 1..Len(socket) : socket[s].client = d /\ socket[s].state = "closing" =>
                   ~ lc[d].shouldReconnect
    BY <1>1, <2>1 DEF OnceShape, OnceFits
  <2>4. /\ lc[d].timers \in {0, 1} /\ (lc[d].timers = 1 => lc[d].shouldReconnect)
        /\ lc[d].shouldReconnect =>
                   /\ d = client /\ mounted
                   /\ lc[d].timers = 1 \/ (lc[d].ws # 0 /\ socket[lc[d].ws].state \in LiveStates)
    BY <1>1, <2>1 DEF OnceShape, OnceFits
  <2>5. \A s \in 1..Len(socket') : socket'[s].client = d /\ socket'[s].state \in LiveStates =>
                   s = lc'[d].ws /\ lc'[d].shouldReconnect /\ lc'[d].timers = 0
    BY <1>2, <1>4, <2>2
  <2>6. \A s \in 1..Len(socket') : socket'[s].client = d /\ socket'[s].state = "closing" =>
                   ~ lc'[d].shouldReconnect
    BY <1>2, <1>4, <2>3
  <2>7. lc[d].shouldReconnect =>
                   /\ d = client' /\ mounted'
                   /\ lc[d].timers = 1 \/ (lc[d].ws # 0 /\ socket'[lc[d].ws].state \in LiveStates)
    BY <1>8, <2>4
  <2> QED  BY <1>2, <2>4, <2>5, <2>6, <2>7 DEF OnceFits
<1> QED  BY <1>9, <1>10, <1>11 DEF ClientFits

\* The clients made so far.
LEMMA MadeTypes ==
  ASSUME LtTypes
  PROVE  /\ made \in Nat /\ made <= MaxClients /\ client \in Nat /\ client <= made
         /\ \A d \in 1..made : d \in LtClients
         /\ \A d \in LtClients : d \in Nat /\ d >= 1 /\ d <= MaxClients
         /\ client # 0 => client \in 1..made /\ client \in LtClients
<1>1. made \in 0..MaxClients /\ client \in 0..made
  BY DEF LtTypes
<1> QED  BY <1>1, LtAssumption DEF LtClients

LEMMA OneClientStep ==
  ASSUME LtInv, LtTypes', UNCHANGED <<device, client, made, mounted, rerun, view>>,
         NEW c \in 1..made, OthersRest({c}), ClientFits(c)', c \notin rerun => OnceFits(c)',
         ShownShape', RequestShape'
  PROVE  LtInv'
<1>1. ClientShape'
  BY OthersKept DEF ClientShape
<1>2. OnceShape'
  <2>1. \A d \in 1..made : d \in LtClients
    BY MadeTypes DEF LtInv
  <2> QED  BY <2>1, OthersKept DEF OnceShape
<1>3. ShowsOwnDevice'
  BY DEF LtInv, ShowsOwnDevice
<1> QED  BY <1>1, <1>2, <1>3 DEF LtInv

\* What is shown of the client in use does not change with a step of another one.
LEMMA ShownKept ==
  ASSUME LtInv, LtTypes', UNCHANGED <<device, client, made, mounted, rerun>>,
         NEW c \in 1..made, OthersRest({c}), c # client \/ ~ mounted, UNCHANGED transportState
  PROVE  ShownShape'
<1> SUFFICES ASSUME client \in (1..made) \ rerun, mounted
             PROVE  transportState = "connected" <=> lc'[client].ws # 0 /\ socket'[lc'[client].ws].state = "open"
  BY DEF ShownShape
<1>1. client \in LtClients /\ client # c
  BY MadeTypes DEF LtInv
<1>2. lc'[client] = lc[client]
  BY <1>1 DEF OthersRest
<1>3. Len(socket) \in Nat
  BY SocketTypes DEF LtInv
<1>4. lc[client].ws # 0 => lc[client].ws \in 1..Len(socket) /\ socket[lc[client].ws].client = client
  BY <1>1, <1>3 DEF LtInv, ClientShape, ClientFits
<1>5. lc[client].ws # 0 => socket'[lc[client].ws] = socket[lc[client].ws]
  BY <1>1, <1>4 DEF OthersRest
<1> QED  BY <1>2, <1>5 DEF LtInv, ShownShape

\* Every client at work has been made.
LEMMA AtWork ==
  ASSUME LtInv, NEW c \in LtClients
  PROVE  /\ made \in Nat /\ (c \in 1..made <=> ~ (c > made))
         /\ c > made => lc[c].ws = 0 /\ lc[c].timers = 0 /\ \A s \in 1..Len(socket) : socket[s].client # c
<1>1. made \in Nat /\ c \in Nat /\ c >= 1
  BY MadeTypes DEF LtInv
<1> QED  BY <1>1 DEF LtInv, ClientShape, ClientFits

\* The reconnect timer fires.
LEMMA ReconnectTimerStep ==
  ASSUME LtInv, NEW c \in LtClients, ReconnectTimer(c)
  PROVE  LtInv'
<1> DEFINE opens == ~IsLive(lc[c].ws)
<1>1. /\ lc[c].timers > 0
      /\ IsLive(lc[c].ws) \/ Len(socket) < MaxSockets
      /\ socket' = IF opens THEN Append(socket, [client |-> c, state |-> "connecting"]) ELSE socket
      /\ lc' = [lc EXCEPT ![c].timers = @ - 1, ![c].shouldReconnect = TRUE,
                          ![c].ws = IF opens THEN Len(socket) + 1 ELSE @]
      /\ transportState' = IF opens /\ lc[c].handlers
                           THEN (IF lc[c].retrying THEN "reconnecting" ELSE "connecting")
                           ELSE transportState
      /\ UNCHANGED <<device, activeDevice, mounted, client, made, view, pendingRequests, timeouts, promise,
                     carrier, sent, dropped, rerun>>
  BY DEF ReconnectTimer, ltShown, ltHistory
<1>2. /\ LtTypes /\ ClientFits(c) /\ lc[c].timers \in Nat /\ lc[c].ws \in Nat /\ lc[c] \in ClientRecords
      /\ DOMAIN lc = LtClients /\ Len(socket) \in Nat /\ socket \in Seq(SocketRecords)
  BY ClientTypes, SocketTypes DEF LtInv, ClientShape
<1>3. c \in 1..made
  BY <1>1, <1>2, AtWork
<1>4. /\ lc'[c] \in ClientRecords /\ lc'[c].timers = lc[c].timers - 1 /\ lc'[c].shouldReconnect
      /\ lc'[c].ws = (IF opens THEN Len(socket) + 1 ELSE lc[c].ws)
      /\ lc'[c].queue = lc[c].queue /\ lc'[c].handlers = lc[c].handlers /\ lc'[c].device = lc[c].device
      /\ \A d \in LtClients \ {c} : lc'[d] = lc[d]
      /\ DOMAIN lc' = LtClients
  <2>1. lc[c].timers - 1 \in Nat
    BY <1>1, <1>2
  <2> DEFINE w == IF opens THEN Len(socket) + 1 ELSE lc[c].ws
             k == [lc[c] EXCEPT !.timers = @ - 1, !.shouldReconnect = TRUE, !.ws = w]
  <2>2. w \in Nat
    BY <1>2
  <2>3. lc' = [lc EXCEPT ![c] = k]
    BY <1>1
  <2> HIDE DEF opens, w
  <2>4. /\ k \in ClientRecords /\ k.timers = lc[c].timers - 1 /\ k.shouldReconnect /\ k.ws = w
        /\ k.queue = lc[c].queue /\ k.handlers = lc[c].handlers /\ k.device = lc[c].device
    BY <1>2, <2>1, <2>2 DEF ClientRecords
  <2> HIDE DEF k
  <2>5. lc'[c] = k /\ (\A d \in LtClients \ {c} : lc'[d] = lc[d]) /\ DOMAIN lc' = LtClients
    BY <1>2, <2>3
  <2> QED  BY <2>4, <2>5 DEF w
<1>5. lc' \in [LtClients -> ClientRecords]
  BY <1>1, <1>4, ZenonT(30) DEF LtInv, LtTypes
<1>6. /\ socket' \in Seq(SocketRecords)
      /\ Len(socket') = (IF opens THEN Len(socket) + 1 ELSE Len(socket))
      /\ \A i \in 1..Len(socket) : socket'[i] = socket[i]
      /\ opens => socket'[Len(socket) + 1] = [client |-> c, state |-> "connecting"]
  BY <1>1, <1>2, SocketAdded
<1>7. Len(socket') <= MaxSockets /\ Len(socket') \in Nat
  <2>1. Len(socket) <= MaxSockets
    BY <1>2 DEF LtTypes
  <2> QED  BY <1>1, <1>2, <1>6, <2>1, LtAssumption
<1>8. LtTypes'
  BY <1>1, <1>2, <1>5, <1>6, <1>7 DEF LtTypes
<1>9. OthersRest({c})
  <2>1. \A i \in 1..Len(socket') : i > Len(socket) => i = Len(socket) + 1 /\ opens
    BY <1>2, <1>6
  <2> QED  BY <1>2, <1>4, <1>6, <2>1 DEF OthersRest
<1>10. ClosedOf(c)' = ClosedOf(c)
  <2>1. \A i \in 1..Len(socket') : i \in 1..Len(socket) \/ (i = Len(socket) + 1 /\ opens)
    BY <1>2, <1>6
  <2>2. \A i \in 1..Len(socket) : i \in 1..Len(socket')
    BY <1>2, <1>6
  <2>3. \A i \in 1..Len(socket') : i \notin 1..Len(socket) => socket'[i].state # "closed"
    BY <1>6, <2>1
  <2> QED  BY <1>6, <2>2, <2>3 DEF ClosedOf
<1>11. ClientFits(c)'
  <2>1. Cardinality(ClosedOf(c)) \in Nat
    BY <1>2, ClosedFinite
  <2>2. lc'[c].timers <= Cardinality(ClosedOf(c)')
    BY <1>2, <1>4, <1>10, <2>1 DEF ClientFits
  <2>3. lc'[c].ws \in 0..Len(socket') /\ (lc'[c].ws # 0 => socket'[lc'[c].ws].client = c)
    <3>1. CASE opens
      BY <1>2, <1>4, <1>6, <3>1
    <3>2. CASE ~ opens
      BY <1>2, <1>4, <1>6, <3>2 DEF ClientFits
    <3> QED  BY <3>1, <3>2
  <2>4. ~ (c > made')
    BY <1>1, <1>3, AtWork
  <2> QED  BY <1>1, <1>2, <1>4, <2>2, <2>3, <2>4 DEF ClientFits
<1>12. ASSUME c \notin rerun PROVE OnceFits(c)' /\ opens /\ c = client /\ mounted
  <2>1. OnceFits(c)
    BY <1>3, <1>12 DEF LtInv, OnceShape
  <2>2. lc[c].timers = 1 /\ lc[c].shouldReconnect
    BY <1>1, <1>2, <2>1 DEF OnceFits
  <2>3. c = client /\ mounted
    BY <2>1, <2>2 DEF OnceFits
  <2>4. \A s \in 1..Len(socket) : socket[s].client = c => socket[s].state \notin LiveStates /\ socket[s].state # "closing"
    BY <2>1, <2>2 DEF OnceFits
  <2>5. lc[c].ws # 0 => lc[c].ws \in 1..Len(socket) /\ socket[lc[c].ws].client = c
    BY <1>2 DEF ClientFits
  <2>6. opens
    BY <2>4, <2>5 DEF IsLive, LiveStates
  <2>7. \A i \in 1..Len(socket') : i \in 1..Len(socket) \/ i = Len(socket) + 1
    BY <1>2, <1>6
  <2>8. lc'[c].timers = 0 /\ lc'[c].ws = Len(socket) + 1 /\ lc'[c].ws # 0
    BY <1>2, <1>4, <2>2, <2>6
  <2>9. socket'[Len(socket) + 1].state = "connecting" /\ "connecting" \in LiveStates
    BY <1>6, <2>6 DEF LiveStates
  <2>10. \A s \in 1..Len(socket') : /\ socket'[s].client = c /\ socket'[s].state \in LiveStates => s = Len(socket) + 1
                                    /\ socket'[s].client = c => socket'[s].state # "closing"
    BY <1>6, <2>4, <2>7, <2>9
  <2> QED  BY <1>1, <1>4, <2>3, <2>6, <2>8, <2>9, <2>10 DEF OnceFits
<1>13. ShownShape'
  <2>1. CASE c # client \/ ~ mounted
    <3>1. ~ lc[c].handlers
      BY <1>2, <2>1 DEF ClientFits
    <3>2. transportState' = transportState
      BY <1>1, <3>1
    <3> QED  BY <1>1, <1>3, <1>8, <1>9, <2>1, <3>2, ShownKept
  <2>2. CASE c = client /\ mounted
    <3> SUFFICES ASSUME client \notin rerun
                 PROVE  transportState' # "connected" /\ socket'[lc'[c].ws].state # "open"
      BY <1>1, <2>2 DEF ShownShape
    <3>1. opens
      BY <1>12, <2>2
    <3>2. lc[c].handlers
      BY <1>2, <2>2 DEF ClientFits
    <3>3. transportState' \in {"reconnecting", "connecting"}
      BY <1>1, <3>1, <3>2
    <3>4. socket'[lc'[c].ws].state = "connecting"
      BY <1>4, <1>6, <3>1
    <3> QED  BY <3>3, <3>4
  <2> QED  BY <2>1, <2>2
<1>14. RequestShape'
  <2>1. client # 0 => client \in LtClients
    BY MadeTypes DEF LtInv
  <2>2. client # 0 => lc'[client].queue = lc[client].queue
    BY <1>4, <2>1
  <2> QED  BY <1>1, <2>2, RequestsKept
<1> QED  BY <1>1, <1>3, <1>8, <1>9, <1>11, <1>12, <1>13, <1>14, OneClientStep

\* A socket opens.
LEMMA SocketOpensStep ==
  ASSUME LtInv, NEW s \in 1..Len(socket), NEW c \in LtClients, c = socket[s].client, SocketOpens(s)
  PROVE  LtInv'
<1> DEFINE flushes == lc[c].ws # 0 /\ (lc[c].ws = s \/ IsOpen(lc[c].ws))
           asks == lc[c].handlers /\ transportState # "connected" /\ ~flushes
           q == IF flushes THEN <<>> ELSE IF asks THEN Pushed(lc[c].queue, "get-status") ELSE lc[c].queue
           k == [lc[c] EXCEPT !.retrying = FALSE, !.queue = q]
<1>1. /\ socket[s].state = "connecting"
      /\ socket' = [socket EXCEPT ![s].state = "open"]
      /\ lc' = [lc EXCEPT ![c] = k]
      /\ sent' = IF flushes THEN sent \cup Range(lc[c].queue) ELSE sent
      /\ dropped' = IF asks THEN dropped \cup Displaced(lc[c].queue) ELSE dropped
      /\ transportState' = IF lc[c].handlers THEN "connected" ELSE transportState
      /\ UNCHANGED <<device, activeDevice, mounted, client, made, view, pendingRequests, timeouts, promise,
                     carrier, rerun>>
  BY DEF SocketOpens, ltShown
<1>2. /\ LtTypes /\ Len(socket) \in Nat /\ socket \in Seq(SocketRecords) /\ c \in LtClients
  BY SocketTypes DEF LtInv
<1>3. /\ ClientFits(c) /\ lc[c] \in ClientRecords /\ lc[c].queue \in Seq(Frames) /\ DOMAIN lc = LtClients
      /\ Len(lc[c].queue) <= MaxQueueSize
  BY <1>2, ClientTypes DEF LtInv, ClientShape, ClientFits
<1>4. c \in 1..made
  BY <1>2, AtWork
<1>5. /\ q \in Seq(Frames) /\ Len(q) <= MaxQueueSize
      /\ \A i \in 1..Len(lc[c].queue) : \/ lc[c].queue[i] \in sent' \cup dropped'
                                        \/ \E j \in 1..Len(q) : q[j] = lc[c].queue[i]
  <2>1. CASE flushes
    <3>1. q = <<>> /\ Len(<<>>) = 0 /\ <<>> \in Seq(Frames)
      BY <2>1
    <3>2. \A i \in 1..Len(lc[c].queue) : lc[c].queue[i] \in sent'
      BY <1>1, <1>3, <2>1 DEF Range
    <3>3. 0 <= MaxQueueSize
      BY LtAssumption
    <3> QED  BY <3>1, <3>2, <3>3
  <2>2. CASE ~ flushes /\ asks
    <3>1. "get-status" \in Frames
      BY DEF Frames
    <3>2. q = Pushed(lc[c].queue, "get-status") /\ Displaced(lc[c].queue) \subseteq dropped'
      BY <1>1, <2>2
    <3> HIDE DEF q, asks, flushes
    <3>3. /\ q \in Seq(Frames) /\ Len(q) <= MaxQueueSize
          /\ \A i \in 1..Len(lc[c].queue) : \/ lc[c].queue[i] \in Displaced(lc[c].queue)
                                            \/ \E j \in 1..Len(q) : q[j] = lc[c].queue[i]
      <4>1. PICK b \in Seq(Frames) : b = lc[c].queue
        BY <1>3
      <4>2. Len(b) <= MaxQueueSize
        BY <1>3, <4>1
      <4>3. /\ Pushed(b, "get-status") \in Seq(Frames) /\ Len(Pushed(b, "get-status")) <= MaxQueueSize
            /\ \A i \in 1..Len(b) : \/ b[i] \in Displaced(b)
                                   \/ \E j \in 1..Len(Pushed(b, "get-status")) : Pushed(b, "get-status")[j] = b[i]
        BY <3>1, <4>2, PushedFacts
      <4>4. q = Pushed(b, "get-status")
        BY <3>2, <4>1
      <4> QED  BY <4>1, <4>3, <4>4
    <3> QED  BY <3>2, <3>3
  <2>3. CASE ~ flushes /\ ~ asks
    <3>1. q = lc[c].queue
      BY <2>3
    <3> QED  BY <1>3, <3>1
  <2> QED  BY <2>1, <2>2, <2>3
<1> HIDE DEF q
<1>6. /\ k \in ClientRecords /\ k.queue = q /\ k.ws = lc[c].ws /\ k.timers = lc[c].timers
      /\ k.shouldReconnect = lc[c].shouldReconnect /\ k.handlers = lc[c].handlers /\ k.device = lc[c].device
  BY <1>3, <1>5 DEF ClientRecords
<1> HIDE DEF k
<1>7. lc'[c] = k /\ (\A d \in LtClients \ {c} : lc'[d] = lc[d]) /\ lc' \in [LtClients -> ClientRecords]
  BY <1>1, <1>2, <1>3, <1>6 DEF LtTypes
<1>8. /\ socket' \in Seq(SocketRecords) /\ Len(socket') = Len(socket)
      /\ \A i \in 1..Len(socket) : /\ socket'[i].client = socket[i].client
                                   /\ socket'[i].state = IF i = s THEN "open" ELSE socket[i].state
  BY <1>1, <1>2, StateSet DEF SocketStates
<1>9. LtTypes'
  <2>1. transportState' \in {"disconnected", "connecting", "connected", "reconnecting"}
    BY <1>1, <1>2 DEF LtTypes
  <2> QED  BY <1>1, <1>2, <1>7, <1>8, <2>1 DEF LtTypes
<1>10. OthersRest({c})
  <2>1. \A i \in 1..Len(socket) : socket[i].client # c => socket'[i] = socket[i]
    BY <1>1, <1>2
  <2>2. ~ \E i \in 1..Len(socket') : i > Len(socket)
    BY <1>2, <1>8
  <2> QED  BY <1>2, <1>7, <1>8, <2>1, <2>2 DEF OthersRest
<1>11. ClosedOf(c)' = ClosedOf(c)
  BY <1>1, <1>8 DEF ClosedOf
<1>12. ClientFits(c)'
  <2>1. ~ (c > made')
    BY <1>1, <1>2, <1>4, AtWork
  <2>2. lc'[c].ws \in 0..Len(socket') /\ (lc'[c].ws # 0 => socket'[lc'[c].ws].client = c)
    BY <1>2, <1>3, <1>6, <1>7, <1>8 DEF ClientFits
  <2> QED  BY <1>1, <1>3, <1>5, <1>6, <1>7, <1>11, <2>1, <2>2 DEF ClientFits
<1>13. ASSUME c \notin rerun PROVE OnceFits(c)' /\ lc[c].ws = s
  <2>1. OnceFits(c)
    BY <1>4, <1>13 DEF LtInv, OnceShape
  <2>2. \A i \in 1..Len(socket') : socket'[i].state \in LiveStates <=> socket[i].state \in LiveStates
    BY <1>1, <1>8 DEF LiveStates
  <2>3. \A i \in 1..Len(socket') : socket'[i].state = "closing" => socket[i].state = "closing"
    BY <1>8
  <2>4. lc[c].ws # 0 => lc[c].ws \in 1..Len(socket')
    BY <1>2, <1>3, <1>8 DEF ClientFits
  <2>5. lc[c].ws = s
    BY <1>1, <2>1 DEF OnceFits, LiveStates
  <2> QED  BY <1>1, <1>6, <1>7, <1>8, <2>1, <2>2, <2>3, <2>4, <2>5 DEF OnceFits
<1>14. ShownShape'
  <2>1. CASE c # client \/ ~ mounted
    <3>1. ~ lc[c].handlers
      BY <1>3, <2>1 DEF ClientFits
    <3>2. transportState' = transportState
      BY <1>1, <3>1
    <3> QED  BY <1>1, <1>4, <1>9, <1>10, <2>1, <3>2, ShownKept
  <2>2. CASE c = client /\ mounted
    <3> SUFFICES ASSUME client \notin rerun
                 PROVE  transportState' = "connected" /\ lc'[c].ws # 0 /\ socket'[lc'[c].ws].state = "open"
      BY <1>1, <2>2 DEF ShownShape
    <3>1. lc[c].ws = s
      BY <1>13, <2>2
    <3>2. lc[c].handlers
      BY <1>3, <2>2 DEF ClientFits
    <3> QED  BY <1>1, <1>6, <1>7, <1>8, <3>1, <3>2
  <2> QED  BY <2>1, <2>2
<1>15. RequestShape'
  <2>1. client # 0 => client \in LtClients
    BY MadeTypes DEF LtInv
  <2>2. CASE client = c
    <3>1. \A i \in 1..Len(lc[client].queue) :
             \/ lc[client].queue[i] \in sent' \cup dropped'
             \/ \E j \in 1..Len(lc'[client].queue) : lc'[client].queue[j] = lc[client].queue[i]
      BY <1>5, <1>6, <1>7, <2>2
    <3>2. sent \subseteq sent' /\ dropped \subseteq dropped'
      BY <1>1
    <3> QED  BY <1>1, <3>1, <3>2, RequestsKept
  <2>3. CASE client # c
    <3>1. client # 0 => lc'[client] = lc[client]
      BY <1>7, <2>1, <2>3
    <3> QED  BY <1>1, <3>1, RequestsKept
  <2> QED  BY <2>2, <2>3
<1> QED  BY <1>1, <1>4, <1>9, <1>10, <1>12, <1>13, <1>14, <1>15, OneClientStep

\* A socket closes.
LEMMA SocketClosesStep ==
  ASSUME LtInv, NEW s \in 1..Len(socket), NEW c \in LtClients, c = socket[s].client, SocketCloses(s)
  PROVE  LtInv'
<1> DEFINE t == IF lc[c].shouldReconnect THEN lc[c].timers + 1 ELSE lc[c].timers
           k == [lc[c] EXCEPT !.ws = 0, !.retrying = @ \/ lc[c].shouldReconnect, !.timers = t]
<1>1. /\ socket[s].state # "closed"
      /\ socket' = [socket EXCEPT ![s].state = "closed"]
      /\ lc' = [lc EXCEPT ![c] = k]
      /\ transportState' = IF lc[c].handlers THEN "reconnecting" ELSE transportState
      /\ UNCHANGED <<device, activeDevice, mounted, client, made, view, pendingRequests, timeouts, promise,
                     carrier, sent, dropped, rerun>>
  BY DEF SocketCloses, ltShown, ltHistory
<1>2. /\ LtTypes /\ Len(socket) \in Nat /\ socket \in Seq(SocketRecords) /\ c \in LtClients
  BY SocketTypes DEF LtInv
<1>3. /\ ClientFits(c) /\ lc[c] \in ClientRecords /\ DOMAIN lc = LtClients /\ lc[c].timers \in Nat
      /\ lc[c].shouldReconnect \in BOOLEAN /\ lc[c].retrying \in BOOLEAN
  BY <1>2, ClientTypes DEF LtInv, ClientShape
<1>4. c \in 1..made
  BY <1>2, AtWork
<1>5. t \in Nat /\ t <= lc[c].timers + 1
  BY <1>3
<1> HIDE DEF t
<1>6. /\ k \in ClientRecords /\ k.queue = lc[c].queue /\ k.ws = 0 /\ k.timers = t
      /\ k.shouldReconnect = lc[c].shouldReconnect /\ k.handlers = lc[c].handlers /\ k.device = lc[c].device
  BY <1>3, <1>5 DEF ClientRecords
<1> HIDE DEF k
<1>7. lc'[c] = k /\ (\A d \in LtClients \ {c} : lc'[d] = lc[d]) /\ lc' \in [LtClients -> ClientRecords]
  BY <1>1, <1>2, <1>3, <1>6 DEF LtTypes
<1>8. /\ socket' \in Seq(SocketRecords) /\ Len(socket') = Len(socket)
      /\ \A i \in 1..Len(socket) : /\ socket'[i].client = socket[i].client
                                   /\ socket'[i].state = IF i = s THEN "closed" ELSE socket[i].state
  BY <1>1, <1>2, StateSet DEF SocketStates
<1>9. LtTypes'
  <2>1. transportState' \in {"disconnected", "connecting", "connected", "reconnecting"}
    BY <1>1, <1>2 DEF LtTypes
  <2> QED  BY <1>1, <1>2, <1>7, <1>8, <2>1 DEF LtTypes
<1>10. OthersRest({c})
  <2>1. \A i \in 1..Len(socket) : socket[i].client # c => socket'[i] = socket[i]
    BY <1>1, <1>2
  <2>2. ~ \E i \in 1..Len(socket') : i > Len(socket)
    BY <1>2, <1>8
  <2> QED  BY <1>2, <1>7, <1>8, <2>1, <2>2 DEF OthersRest
<1>11. Cardinality(ClosedOf(c)') = Cardinality(ClosedOf(c)) + 1 /\ Cardinality(ClosedOf(c)) \in Nat
  <2>1. ClosedOf(c)' = ClosedOf(c) \cup {s} /\ s \notin ClosedOf(c)
    BY <1>1, <1>8 DEF ClosedOf
  <2> QED  BY <1>2, <2>1, ClosedFinite, FS_AddElement
<1>12. ClientFits(c)'
  <2>1. ~ (c > made')
    BY <1>1, <1>2, <1>4, AtWork
  <2>2. lc'[c].ws \in 0..Len(socket') /\ lc'[c].ws = 0
    BY <1>2, <1>6, <1>7, <1>8
  <2>3. lc'[c].timers <= Cardinality(ClosedOf(c)')
    BY <1>3, <1>5, <1>6, <1>7, <1>11 DEF ClientFits
  <2> QED  BY <1>1, <1>3, <1>6, <1>7, <2>1, <2>2, <2>3 DEF ClientFits
<1>13. ASSUME c \notin rerun PROVE OnceFits(c)'
  <2>1. OnceFits(c)
    BY <1>4, <1>13 DEF LtInv, OnceShape
  <2>2. \A i \in 1..Len(socket') : i # s => socket'[i].state = socket[i].state /\ i \in 1..Len(socket)
    BY <1>8
  <2>3. socket'[s].state = "closed" /\ "closed" \notin LiveStates
    BY <1>8 DEF LiveStates
  <2>4. CASE lc[c].shouldReconnect
    <3>1. socket[s].state \in LiveStates
      BY <1>1, <1>2, <2>1, <2>4, SocketTypes DEF OnceFits, SocketStates, LiveStates
    <3>2. s = lc[c].ws /\ lc[c].timers = 0
      BY <2>1, <3>1 DEF OnceFits
    <3>3. \A i \in 1..Len(socket') : socket'[i].client = c => socket'[i].state \notin LiveStates /\ socket'[i].state # "closing"
      <4>1. \A i \in 1..Len(socket) : socket[i].client = c /\ socket[i].state \in LiveStates => i = s
        BY <2>1, <3>2 DEF OnceFits
      <4>2. \A i \in 1..Len(socket) : socket[i].client = c => socket[i].state # "closing"
        BY <2>1, <2>4 DEF OnceFits
      <4> QED  BY <1>8, <2>2, <2>3, <4>1, <4>2
    <3>4. lc'[c].timers = 1 /\ lc'[c].shouldReconnect
      <4>1. t = 1
        BY <2>4, <3>2, SMTT(30) DEF t
      <4> QED  BY <1>6, <1>7, <2>4, <4>1
    <3>5. c = client /\ mounted
      BY <2>1, <2>4 DEF OnceFits
    <3> QED  BY <1>1, <3>3, <3>4, <3>5 DEF OnceFits
  <2>5. CASE ~ lc[c].shouldReconnect
    <3>1. \A i \in 1..Len(socket') : socket'[i].client = c => socket'[i].state \notin LiveStates
      BY <1>8, <2>1, <2>2, <2>3, <2>5 DEF OnceFits
    <3>2. lc'[c].timers = lc[c].timers /\ ~ lc'[c].shouldReconnect
      BY <1>6, <1>7, <2>5 DEF t
    <3> QED  BY <2>1, <2>5, <3>1, <3>2 DEF OnceFits
  <2> QED  BY <2>4, <2>5
<1>14. ShownShape'
  <2>1. CASE c # client \/ ~ mounted
    <3>1. ~ lc[c].handlers
      BY <1>3, <2>1 DEF ClientFits
    <3>2. transportState' = transportState
      BY <1>1, <3>1
    <3> QED  BY <1>1, <1>4, <1>9, <1>10, <2>1, <3>2, ShownKept
  <2>2. CASE c = client /\ mounted
    <3>1. lc[c].handlers
      BY <1>3, <2>2 DEF ClientFits
    <3>2. transportState' = "reconnecting" /\ lc'[c].ws = 0
      BY <1>1, <1>6, <1>7, <3>1
    <3> QED  BY <1>1, <2>2, <3>2 DEF ShownShape
  <2> QED  BY <2>1, <2>2
<1>15. RequestShape'
  <2>1. client # 0 => client \in LtClients
    BY MadeTypes DEF LtInv
  <2>2. client # 0 => lc'[client].queue = lc[client].queue
    BY <1>6, <1>7, <2>1
  <2> QED  BY <1>1, <2>2, RequestsKept
<1> QED  BY <1>1, <1>4, <1>9, <1>10, <1>12, <1>13, <1>14, <1>15, OneClientStep

\* A step that leaves clients, sockets and the provider alone keeps what is said of them.
LEMMA SocketsKept ==
  ASSUME LtInv, UNCHANGED <<device, mounted, client, made, lc, socket, transportState, rerun>>
  PROVE  ClientShape' /\ OnceShape' /\ ShownShape'
<1>1. \A c : ClosedOf(c)' = ClosedOf(c)
  BY DEF ClosedOf
<1>2. \A c : (ClientFits(c)' <=> ClientFits(c)) /\ (OnceFits(c)' <=> OnceFits(c))
  BY <1>1 DEF ClientFits, OnceFits
<1> QED  BY <1>2 DEF LtInv, ClientShape, OnceShape, ShownShape

\* A status of the device arrives.
LEMMA DeviceStatusStep ==
  ASSUME LtInv, NEW s \in 1..Len(socket), NEW c \in LtClients, c = socket[s].client, DeviceStatus(s)
  PROVE  LtInv'
<1>1. /\ lc[c].handlers
      /\ view' = [getScopedDeviceViewState(view, device) EXCEPT !.status = lc[c].device]
      /\ UNCHANGED <<device, activeDevice, mounted, client, made, lc, socket, transportState, pendingRequests,
                     timeouts, promise, carrier, sent, dropped, rerun>>
  BY DEF DeviceStatus, ltShown, ltHistory
<1>2. c = client /\ lc[c].device = device
  BY <1>1 DEF LtInv, ClientShape, ClientFits
<1>3. view \in [device : Targets \cup {None}, status : Targets \cup {None}] /\ device \in Targets \cup {None}
  BY DEF LtInv, LtTypes
<1>4. view' = [device |-> device, status |-> device]
  BY <1>1, <1>2, <1>3 DEF getScopedDeviceViewState
<1>5. ShowsOwnDevice'
  BY <1>1, <1>4 DEF ShowsOwnDevice
<1>6. LtTypes'
  <2>1. view' \in [device : Targets \cup {None}, status : Targets \cup {None}]
    BY <1>3, <1>4
  <2> QED  BY <1>1, <2>1 DEF LtInv, LtTypes
<1>7. RequestShape'
  BY <1>1 DEF LtInv, RequestShape
<1> QED  BY <1>1, <1>5, <1>6, <1>7, SocketsKept DEF LtInv

\* A request ends without the clients having a part in it.
LEMMA SettledStep ==
  ASSUME LtInv, NEW r \in Calls, NEW st \in {"misconfigured", "resolved", "rejected", "timed out"},
         promise' = [promise EXCEPT ![r] = st],
         pendingRequests' = pendingRequests \ {r}, timeouts' = timeouts \ {r},
         UNCHANGED <<device, activeDevice, mounted, client, made, lc, socket, transportState, view,
                     carrier, sent, dropped, rerun>>
  PROVE  LtInv'
<1>1. LtTypes'
  BY DEF LtInv, LtTypes
<1>2. \A q \in Calls : promise'[q] = IF q = r THEN st ELSE promise[q]
  BY DEF LtInv, LtTypes
<1>3. RequestShape'
  BY <1>2 DEF LtInv, RequestShape
<1>4. ShowsOwnDevice'
  BY DEF LtInv, ShowsOwnDevice
<1> QED  BY <1>1, <1>3, <1>4, SocketsKept DEF LtInv

LEMMA RequestRefusedStep ==
  ASSUME LtInv, NEW r \in Calls, RequestRefused(r)
  PROVE  LtInv'
<1>1. /\ promise[r] = "none" /\ promise' = [promise EXCEPT ![r] = "misconfigured"]
      /\ UNCHANGED <<device, activeDevice, mounted, client, made, lc, socket, transportState, view,
                     carrier, sent, dropped, rerun, pendingRequests, timeouts>>
  BY DEF RequestRefused, ltShown, ltHistory
<1>2. r \notin pendingRequests /\ r \notin timeouts
  BY <1>1 DEF LtInv, RequestShape
<1> QED  BY <1>1, <1>2, SettledStep

LEMMA TimedOutStep ==
  ASSUME LtInv, NEW r \in Calls, rejectTimedOutRequest(r)
  PROVE  LtInv'
<1>1. /\ r \in timeouts /\ promise' = [promise EXCEPT ![r] = IF promise[r] = "waiting" THEN "timed out" ELSE promise[r]]
      /\ pendingRequests' = pendingRequests \ {r} /\ timeouts' = timeouts \ {r}
      /\ UNCHANGED <<device, activeDevice, mounted, client, made, lc, socket, transportState, view,
                     carrier, sent, dropped, rerun>>
  BY DEF rejectTimedOutRequest, ltShown, ltHistory
<1>2. promise[r] = "waiting"
  BY <1>1 DEF LtInv, RequestShape
<1> QED  BY <1>1, <1>2, SettledStep

LEMMA AnsweredStep ==
  ASSUME LtInv, NEW r \in Calls, NEW s, NEW kind, dispatchPacket(r, s, kind)
  PROVE  LtInv'
<1>1. /\ promise' = [promise EXCEPT ![r] = IF kind = "success" THEN "resolved" ELSE "rejected"]
      /\ pendingRequests' = pendingRequests \ {r} /\ timeouts' = timeouts \ {r}
      /\ UNCHANGED <<device, activeDevice, mounted, client, made, lc, socket, transportState, view,
                     carrier, sent, dropped, rerun>>
  BY DEF dispatchPacket, ltShown, ltHistory
<1> QED  BY <1>1, SettledStep

\* A request is made through a client, sent or queued.
LEMMA RequestStep ==
  ASSUME LtInv, NEW r \in Calls, NEW c \in LtClients, Request(r, c)
  PROVE  LtInv'
<1> DEFINE open == IsOpen(lc[c].ws)
           q == IF open THEN lc[c].queue ELSE Pushed(lc[c].queue, r)
           k == [lc[c] EXCEPT !.queue = q]
<1>1. /\ promise[r] = "none" /\ c \in 1..made
      /\ promise' = [promise EXCEPT ![r] = "waiting"]
      /\ pendingRequests' = pendingRequests \cup {r}
      /\ timeouts' = timeouts \cup {r}
      /\ carrier' = [carrier EXCEPT ![r] = c]
      /\ UNCHANGED <<device, activeDevice, mounted, client, made, socket, transportState, view, rerun>>
  BY DEF Request, ltShown
<1>2. /\ LtTypes /\ ClientFits(c) /\ lc[c] \in ClientRecords /\ lc[c].queue \in Seq(Frames)
      /\ DOMAIN lc = LtClients /\ Len(lc[c].queue) <= MaxQueueSize /\ lc \in [LtClients -> ClientRecords]
  BY ClientTypes DEF LtInv, ClientShape, ClientFits, LtTypes
<1>3. lc' = [lc EXCEPT ![c] = k]
  <2>1. CASE open
    <3>1. lc' = lc
      BY <2>1 DEF Request, sendPacket
    <3>2. k = lc[c]
      BY <1>2, <2>1 DEF ClientRecords
    <3> QED  BY <1>2, <3>1, <3>2
  <2>2. CASE ~ open
    BY <2>2 DEF Request, sendPacket
  <2> QED  BY <2>1, <2>2
<1>4. /\ q \in Seq(Frames) /\ Len(q) <= MaxQueueSize
      /\ sent \subseteq sent' /\ dropped \subseteq dropped'
      /\ r \in sent' \/ \E j \in 1..Len(q) : q[j] = r
      /\ \A i \in 1..Len(lc[c].queue) : \/ lc[c].queue[i] \in sent' \cup dropped'
                                        \/ \E j \in 1..Len(q) : q[j] = lc[c].queue[i]
  <2>1. CASE open
    <3>1. q = lc[c].queue /\ sent' = sent \cup {r} /\ dropped' = dropped
      BY <2>1 DEF Request, sendPacket
    <3> HIDE DEF q
    <3> QED  BY <1>2, <3>1
  <2>2. CASE ~ open
    <3>1. r \in Frames
      BY DEF Frames
    <3>2. q = Pushed(lc[c].queue, r) /\ sent' = sent /\ dropped' = dropped \cup Displaced(lc[c].queue)
      BY <2>2 DEF Request, sendPacket
    <3>3. PICK b \in Seq(Frames) : b = lc[c].queue
      BY <1>2
    <3>4. Len(b) <= MaxQueueSize
      BY <1>2, <3>3
    <3>5. /\ Pushed(b, r) \in Seq(Frames) /\ Len(Pushed(b, r)) <= MaxQueueSize
          /\ \E i \in 1..Len(Pushed(b, r)) : Pushed(b, r)[i] = r
          /\ \A i \in 1..Len(b) : \/ b[i] \in Displaced(b)
                                  \/ \E j \in 1..Len(Pushed(b, r)) : Pushed(b, r)[j] = b[i]
      BY <3>1, <3>4, PushedFacts
    <3>6. q = Pushed(b, r)
      BY <3>2, <3>3
    <3> HIDE DEF q
    <3> QED  BY <3>2, <3>3, <3>5, <3>6
  <2> QED  BY <2>1, <2>2
<1> HIDE DEF q
<1>5. /\ k \in ClientRecords /\ k.queue = q /\ k.ws = lc[c].ws /\ k.timers = lc[c].timers
      /\ k.shouldReconnect = lc[c].shouldReconnect /\ k.handlers = lc[c].handlers /\ k.device = lc[c].device
  BY <1>2, <1>4 DEF ClientRecords
<1> HIDE DEF k
<1>6. lc'[c] = k /\ (\A d \in LtClients \ {c} : lc'[d] = lc[d]) /\ lc' \in [LtClients -> ClientRecords]
  BY <1>2, <1>3, <1>5
<1>7. LtTypes'
  <2>1. /\ promise' \in [Calls -> {"none", "waiting", "misconfigured", "switched", "reset", "resolved",
                                   "rejected", "timed out"}]
        /\ carrier' \in [Calls -> 0..made]
    <3>1. c \in 0..made
      BY <1>1, <1>2, MadeTypes
    <3> QED  BY <1>1, <1>2, <3>1 DEF LtTypes
  <2> QED  BY <1>1, <1>2, <1>6, <2>1 DEF LtTypes
<1>8. OthersRest({c})
  <2>1. Len(socket) \in Nat
    BY <1>2, SocketTypes
  <2> QED  BY <1>1, <1>6, <2>1 DEF OthersRest
<1>9. ClosedOf(c)' = ClosedOf(c)
  BY <1>1 DEF ClosedOf
<1>10. ClientFits(c)'
  BY <1>1, <1>2, <1>4, <1>5, <1>6, <1>9 DEF ClientFits
<1>11. ASSUME c \notin rerun PROVE OnceFits(c)'
  <2>1. OnceFits(c)
    BY <1>1, <1>11 DEF LtInv, OnceShape
  <2> QED  BY <1>1, <1>5, <1>6, <2>1 DEF OnceFits
<1>12. ShownShape'
  <2>1. client # 0 => client \in LtClients
    BY <1>2, MadeTypes
  <2>2. client # 0 => lc'[client].ws = lc[client].ws
    BY <1>5, <1>6, <2>1
  <2>3. client \in 1..made => client # 0
    BY <1>2, MadeTypes
  <2> QED  BY <1>1, <2>2, <2>3 DEF LtInv, ShownShape
<1>13. RequestShape'
  <2>1. \A p \in Calls : /\ promise'[p] = IF p = r THEN "waiting" ELSE promise[p]
                         /\ carrier'[p] = IF p = r THEN c ELSE carrier[p]
    BY <1>1, <1>2 DEF LtTypes
  <2>2. /\ pendingRequests' = timeouts'
        /\ \A p \in Calls : promise'[p] = "waiting" <=> p \in pendingRequests'
    BY <1>1, <2>1 DEF LtInv, RequestShape
  <2>3. c # 0
    BY <1>2, MadeTypes
  <2>4. \A p \in Calls : promise'[p] = "waiting" => carrier'[p] # 0
    BY <2>1, <2>3 DEF LtInv, RequestShape
  <2>5. ASSUME NEW p \in Calls, promise'[p] = "waiting" /\ carrier'[p] = client' /\ mounted'
        PROVE  \/ p \in sent' \/ p \in dropped'
               \/ \E i \in 1..Len(lc'[client'].queue) : lc'[client'].queue[i] = p
    <3>1. CASE p = r
      <4>1. client' = c
        BY <2>1, <2>5, <3>1
      <4> QED  BY <1>4, <1>5, <1>6, <3>1, <4>1
    <3>2. CASE p # r
      <4>1. promise[p] = "waiting" /\ carrier[p] = client /\ mounted /\ client' = client
        BY <1>1, <2>1, <2>5, <3>2
      <4>2. p \in sent \/ p \in dropped \/ \E i \in 1..Len(lc[client].queue) : lc[client].queue[i] = p
        BY <4>1 DEF LtInv, RequestShape
      <4>3. client \in LtClients
        BY <1>2, <2>4, <2>5, <4>1, MadeTypes
      <4>4. CASE client = c
        <5>1. lc'[client].queue = q
          BY <1>5, <1>6, <4>4
        <5>2. CASE \E i \in 1..Len(lc[client].queue) : lc[client].queue[i] = p
          <6>1. PICK i \in 1..Len(lc[c].queue) : lc[c].queue[i] = p
            BY <4>4, <5>2
          <6>2. p \in sent' \cup dropped' \/ \E j \in 1..Len(q) : q[j] = p
            BY <1>4, <6>1
          <6> QED  BY <4>1, <5>1, <6>2
        <5> QED  BY <1>4, <4>1, <4>2, <5>2
      <4>5. CASE client # c
        <5>1. lc'[client] = lc[client]
          BY <1>6, <4>3, <4>5
        <5> QED  BY <1>4, <4>1, <4>2, <5>1
      <4> QED  BY <4>4, <4>5
    <3> QED  BY <3>1, <3>2
  <2> QED  BY <2>2, <2>4, <2>5 DEF RequestShape
<1> QED  BY <1>1, <1>7, <1>8, <1>10, <1>11, <1>12, <1>13, OneClientStep

\* The provider lets its client go: the client's timers, queue and handlers are cleared as far as
\* disconnect() can, and its current socket closes.
Down == IF client = 0 THEN lc ELSE [lc EXCEPT ![client] = disconnect(@)]
ClosingOld == IF client = 0 THEN socket ELSE Closing(lc[client].ws)

LEMMA LetGo ==
  ASSUME LtInv
  PROVE  /\ Down \in [LtClients -> ClientRecords]
         /\ \A d \in LtClients : d # client => Down[d] = lc[d]
         /\ client # 0 => /\ Down[client].queue = <<>> /\ Down[client].ws = 0
                          /\ ~ Down[client].handlers /\ ~ Down[client].shouldReconnect
                          /\ Down[client].timers \in Nat /\ Down[client].timers <= lc[client].timers
                          /\ lc[client].timers \in {0, 1} => Down[client].timers = 0
<1>1. LtTypes /\ lc \in [LtClients -> ClientRecords] /\ (client # 0 => client \in LtClients)
  BY MadeTypes DEF LtInv, LtTypes
<1>2. CASE client = 0
  BY <1>1, <1>2 DEF Down
<1>3. CASE client # 0
  <2> DEFINE t == IF lc[client].timers > 0 THEN lc[client].timers - 1 ELSE 0
             k == disconnect(lc[client])
  <2>1. lc[client] \in ClientRecords /\ lc[client].timers \in Nat
    BY <1>1, <1>3, ClientTypes
  <2>2. t \in Nat /\ t <= lc[client].timers /\ (lc[client].timers \in {0, 1} => t = 0)
    BY <2>1
  <2>3. k = [lc[client] EXCEPT !.shouldReconnect = FALSE, !.retrying = FALSE, !.timers = t,
                               !.ws = 0, !.queue = <<>>, !.handlers = FALSE]
    BY DEF disconnect
  <2> HIDE DEF t, k
  <2>4. <<>> \in Seq(Frames) /\ 0 \in Nat
    BY EmptySeq
  <2>5. /\ k \in ClientRecords /\ k.queue = <<>> /\ k.ws = 0 /\ k.timers = t
        /\ k.handlers = FALSE /\ k.shouldReconnect = FALSE
    BY <2>1, <2>2, <2>3, <2>4 DEF ClientRecords
  <2>6. Down = [lc EXCEPT ![client] = k]
    BY <1>3 DEF Down, k
  <2>7. /\ Down \in [LtClients -> ClientRecords] /\ Down[client] = k
        /\ \A d \in LtClients : d # client => Down[d] = lc[d]
    BY <1>1, <1>3, <2>5, <2>6
  <2> QED  BY <2>2, <2>5, <2>7
<1> QED  BY <1>2, <1>3

LEMMA SocketLetGo ==
  ASSUME LtInv
  PROVE  /\ ClosingOld \in Seq(SocketRecords) /\ Len(ClosingOld) = Len(socket)
         /\ \A i \in 1..Len(socket) :
              /\ ClosingOld[i].client = socket[i].client
              /\ socket[i].client # client => ClosingOld[i] = socket[i]
              /\ ClosingOld[i].state = "closed" <=> socket[i].state = "closed"
              /\ ClosingOld[i].state \in LiveStates => socket[i].state \in LiveStates
              /\ client # 0 /\ i = lc[client].ws => ClosingOld[i].state \notin LiveStates
<1>1. /\ LtTypes /\ socket \in Seq(SocketRecords) /\ Len(socket) \in Nat
      /\ \A i \in 1..Len(socket) : socket[i] \in SocketRecords /\ socket[i].state \in SocketStates
  BY SocketTypes DEF LtInv
<1>2. CASE client = 0 \/ (client # 0 /\ ~ IsLive(lc[client].ws))
  <2>1. ClosingOld = socket
    BY <1>2 DEF ClosingOld, Closing
  <2>2. \A i \in 1..Len(socket) : client # 0 /\ i = lc[client].ws => socket[i].state \notin LiveStates
    BY <1>1, <1>2 DEF IsLive, LiveStates
  <2> QED  BY <1>1, <2>1, <2>2
<1>3. CASE client # 0 /\ IsLive(lc[client].ws)
  <2>1. PICK s \in 1..Len(socket) : s = lc[client].ws /\ socket[s].client = client /\ socket[s].state \in LiveStates
    <3>1. client \in LtClients
      BY <1>1, <1>3, MadeTypes
    <3>2. lc[client].ws \in 0..Len(socket) /\ (lc[client].ws # 0 => socket[lc[client].ws].client = client)
      BY <3>1 DEF LtInv, ClientShape, ClientFits
    <3> QED  BY <1>1, <1>3, <3>2 DEF IsLive, LiveStates
  <2>2. ClosingOld = [socket EXCEPT ![s].state = "closing"]
    BY <1>3, <2>1 DEF ClosingOld, Closing
  <2>3. /\ ClosingOld \in Seq(SocketRecords) /\ Len(ClosingOld) = Len(socket)
        /\ \A i \in 1..Len(socket) : /\ ClosingOld[i].client = socket[i].client
                                     /\ ClosingOld[i].state = IF i = s THEN "closing" ELSE socket[i].state
    BY <1>1, <2>2, StateSet, ZenonT(30) DEF SocketStates
  <2>4. \A i \in 1..Len(socket) : i # s => ClosingOld[i] = socket[i]
    BY <1>1, <2>2
  <2> QED  BY <2>1, <2>3, <2>4 DEF LiveStates
<1> QED  BY <1>2, <1>3

\* The client let go, in the next state: it has nothing live, and means to have nothing.
LEMMA GivenUp ==
  ASSUME LtInv, LtTypes', NEW c \in LtClients, c = client,
         lc'[c] = Down[c], Len(socket) <= Len(socket'),
         \A i \in 1..Len(socket) : socket'[i] = ClosingOld[i],
         \A i \in 1..Len(socket') : i > Len(socket) => socket'[i].client # c,
         ~ (c = client' /\ mounted'), made <= made',
         c = client' => device' = device
  PROVE  ClientFits(c)' /\ (c \notin rerun => OnceFits(c)')
<1>1. /\ LtTypes /\ Len(socket) \in Nat /\ Len(socket') \in Nat /\ client # 0 /\ c \in 1..made
      /\ made \in Nat /\ made' \in Nat
  <2>1. LtTypes
    BY DEF LtInv
  <2>2. made' \in Nat
    <3>1. made' \in 0..MaxClients
      BY DEF LtTypes
    <3> QED  BY <3>1, LtAssumption
  <2> QED  BY <2>1, <2>2, SocketTypes, SocketTypesNext, MadeTypes
<1>2. /\ lc'[c].queue = <<>> /\ lc'[c].ws = 0 /\ ~ lc'[c].handlers /\ ~ lc'[c].shouldReconnect
      /\ lc'[c].timers \in Nat /\ lc'[c].timers <= lc[c].timers
      /\ lc[c].timers \in {0, 1} => lc'[c].timers = 0
  BY <1>1, LetGo
<1>3. /\ \A i \in 1..Len(socket) :
           /\ socket'[i].client = socket[i].client
           /\ socket'[i].state = "closed" <=> socket[i].state = "closed"
           /\ socket'[i].state \in LiveStates => socket[i].state \in LiveStates
           /\ i = lc[c].ws => socket'[i].state \notin LiveStates
  BY <1>1, SocketLetGo
<1>4. \A i \in 1..Len(socket') : socket'[i].client = c => i \in 1..Len(socket)
  BY <1>1
<1>5. \A i \in 1..Len(socket) : i \in 1..Len(socket')
  BY <1>1
<1>6. ClosedOf(c)' = ClosedOf(c)
  BY <1>3, <1>4, <1>5 DEF ClosedOf
<1>7. ClientFits(c) /\ lc[c].timers \in Nat /\ Cardinality(ClosedOf(c)) \in Nat
  BY <1>1, ClosedFinite, ClientTypes DEF LtInv, ClientShape
<1>8. ClientFits(c)'
  <2>1. Len(lc'[c].queue) <= MaxQueueSize
    BY <1>2, LtAssumption, EmptySeq
  <2>2. lc'[c].timers <= Cardinality(ClosedOf(c)')
    BY <1>2, <1>6, <1>7 DEF ClientFits
  <2>3. c > made' => FALSE
    BY <1>1
  <2>4. lc'[c].ws \in 0..Len(socket')
    BY <1>1, <1>2
  <2>5. c = client' => lc'[c].device = device'
    <3>1. lc[c].device = device
      BY <1>7 DEF ClientFits
    <3>2. lc'[c].device = lc[c].device
      <4>1. lc[c] \in ClientRecords /\ lc \in [LtClients -> ClientRecords]
        BY <1>1, ClientTypes DEF LtTypes
      <4>2. lc'[c] = disconnect(lc[c])
        BY <1>1, <4>1 DEF Down
      <4> QED  BY <4>1, <4>2 DEF disconnect, ClientRecords
    <3> QED  BY <3>1, <3>2
  <2> QED  BY <1>2, <2>1, <2>2, <2>3, <2>4, <2>5 DEF ClientFits
<1>9. ASSUME c \notin rerun PROVE OnceFits(c)'
  <2>1. OnceFits(c)
    BY <1>1, <1>9 DEF LtInv, OnceShape
  <2>2. \A i \in 1..Len(socket) : socket[i].client = c /\ socket[i].state \in LiveStates => i = lc[c].ws
    BY <2>1 DEF OnceFits
  <2>3. \A i \in 1..Len(socket') : socket'[i].client = c => socket'[i].state \notin LiveStates
    BY <1>3, <1>4, <2>2
  <2>4. lc'[c].timers = 0
    BY <1>2, <2>1 DEF OnceFits
  <2> QED  BY <1>2, <2>3, <2>4 DEF OnceFits
<1> QED  BY <1>8, <1>9

\* The provider is unmounted.
LEMMA UnmountStep ==
  ASSUME LtInv, Unmount
  PROVE  LtInv'
<1>1. /\ mounted /\ mounted' = FALSE /\ lc' = Down /\ socket' = ClosingOld
      /\ promise' = clearPendingRequests("reset") /\ pendingRequests' = {} /\ timeouts' = {}
      /\ UNCHANGED <<device, activeDevice, client, made, transportState, view, carrier, sent, dropped, rerun>>
  BY DEF Unmount, Down, ClosingOld, ltHistory
<1>2. LtTypes /\ Len(socket) \in Nat /\ made \in Nat
  BY SocketTypes, MadeTypes DEF LtInv
<1>3. promise' \in [Calls -> {"none", "waiting", "misconfigured", "switched", "reset", "resolved",
                              "rejected", "timed out"}]
  BY <1>1, <1>2 DEF LtTypes, clearPendingRequests
<1>4. LtTypes'
  <2>1. lc' \in [LtClients -> ClientRecords]
    BY <1>1, LetGo
  <2>2. socket' \in Seq(SocketRecords) /\ Len(socket') <= MaxSockets
    BY <1>1, <1>2, SocketLetGo DEF LtTypes
  <2> QED  BY <1>1, <1>2, <1>3, <2>1, <2>2 DEF LtTypes
<1>5. OthersRest({client})
  <2>1. Len(socket') = Len(socket) /\ ~ \E i \in 1..Len(socket') : i > Len(socket)
    BY <1>1, <1>2, SocketLetGo
  <2> QED  BY <1>1, <1>2, <2>1, LetGo, SocketLetGo DEF OthersRest
<1>6. ASSUME NEW d \in LtClients PROVE ClientFits(d)' /\ (d \in (1..made) \ rerun => OnceFits(d)')
  <2>1. CASE d # client
    BY <1>1, <1>4, <1>5, <2>1, OthersKept
  <2>2. CASE d = client
    <3>1. Len(socket') = Len(socket) /\ ~ \E i \in 1..Len(socket') : i > Len(socket)
      BY <1>1, <1>2, SocketLetGo
    <3> QED  BY <1>1, <1>2, <1>4, <2>2, <3>1, GivenUp
  <2> QED  BY <2>1, <2>2
<1>7. ClientShape' /\ OnceShape'
  <2>1. \A d \in 1..made : d \in LtClients
    BY <1>2, MadeTypes
  <2> QED  BY <1>1, <1>6, <2>1 DEF ClientShape, OnceShape
<1>8. ShownShape'
  BY <1>1 DEF ShownShape
<1>9. RequestShape'
  <2>1. \A r \in Calls : promise'[r] # "waiting"
    BY <1>1 DEF LtInv, RequestShape, clearPendingRequests
  <2> QED  BY <1>1, <2>1 DEF RequestShape
<1>10. ShowsOwnDevice'
  BY <1>1 DEF LtInv, ShowsOwnDevice
<1> QED  BY <1>4, <1>7, <1>8, <1>9, <1>10 DEF LtInv

\* The provider gets another device or URL: the frames the children put in the new client's queue.
LEMMA EarlyFrames ==
  ASSUME NEW R \in SUBSET Calls, Len(SetToSeq(R)) <= MaxQueueSize
  PROVE  LET early == SetToSeq(R)
             frames == IF Len(early) >= MaxQueueSize THEN SubSeq(early, 2, Len(early)) ELSE early
             q == frames \o <<"set-device">>
         IN  /\ q \in Seq(Frames) /\ Len(q) <= MaxQueueSize
             /\ \A r \in Range(frames) : \E i \in 1..Len(q) : q[i] = r
<1> DEFINE early == SetToSeq(R)
           frames == IF Len(early) >= MaxQueueSize THEN SubSeq(early, 2, Len(early)) ELSE early
           q == frames \o <<"set-device">>
<1>1. IsFiniteSet(R)
  BY LtAssumption, FS_Subset
<1>2. Cardinality(R) \in Nat /\ early \in [1..Cardinality(R) -> R]
  BY <1>1, EachOnce
<1>3. early \in Seq(Frames) /\ Len(early) \in Nat
  <2>1. early \in Seq(R)
    BY <1>2
  <2>2. R \subseteq Frames
    BY DEF Frames
  <2> HIDE DEF early
  <2> QED  BY <2>1, <2>2
<1>4. Len(early) <= MaxQueueSize
  OBVIOUS
<1> HIDE DEF early
<1>5. frames \in Seq(Frames) /\ Len(frames) + 1 <= MaxQueueSize /\ Len(frames) \in Nat
  <2>1. CASE Len(early) >= MaxQueueSize
    <3>1. SubSeq(early, 2, Len(early)) \in Seq(Frames) /\ Len(SubSeq(early, 2, Len(early))) = Len(early) - 1
      <4>1. 2 \in 1..(Len(early) + 1) /\ Len(early) \in (2 - 1)..Len(early) /\ Len(early) - 2 + 1 = Len(early) - 1
        BY <1>3, <2>1, LtAssumption
      <4> QED  BY <1>3, <4>1, SubSeqProperties
    <3> QED  BY <1>3, <1>4, <2>1, <3>1, LtAssumption
  <2>2. CASE ~ (Len(early) >= MaxQueueSize)
    BY <1>3, <2>2, LtAssumption
  <2> QED  BY <2>1, <2>2
<1> HIDE DEF frames
<1>6. "set-device" \in Frames
  BY DEF Frames
<1>7. /\ q \in Seq(Frames) /\ Len(q) = Len(frames) + 1
      /\ \A i \in 1..Len(frames) : q[i] = frames[i]
  BY <1>5, <1>6
<1>8. \A r \in Range(frames) : \E i \in 1..Len(frames) : frames[i] = r
  BY <1>5 DEF Range
<1> HIDE DEF q
<1>9. \A r \in Range(frames) : \E i \in 1..Len(q) : q[i] = r
  <2> SUFFICES ASSUME NEW r \in Range(frames) PROVE \E i \in 1..Len(q) : q[i] = r
    OBVIOUS
  <2>1. PICK i \in 1..Len(frames) : frames[i] = r
    BY <1>8
  <2>2. i \in 1..Len(q) /\ q[i] = r
    BY <1>5, <1>7, <2>1
  <2> QED  BY <2>2
<1> QED  BY <1>5, <1>7, <1>9 DEF q, frames, early

\* What is common to every switch: the promises, and the device shown.
LEMMA SwitchTable ==
  ASSUME LtInv, NEW R \in SUBSET Calls, NEW st \in {"misconfigured", "switched", "waiting"}, NEW n,
         promise' = [r \in Calls |-> IF r \in R THEN st ELSE clearPendingRequests("reset")[r]],
         pendingRequests' = IF st = "waiting" THEN R ELSE {},
         timeouts' = IF st = "waiting" THEN R ELSE {},
         carrier' = [r \in Calls |-> IF r \in R THEN n ELSE carrier[r]],
         st = "waiting" => n # 0
  PROVE  /\ promise' \in [Calls -> {"none", "waiting", "misconfigured", "switched", "reset", "resolved",
                                    "rejected", "timed out"}]
         /\ pendingRequests' = timeouts' /\ pendingRequests' \subseteq Calls
         /\ \A r \in Calls : promise'[r] = "waiting" <=> r \in pendingRequests'
         /\ \A r \in Calls : promise'[r] = "waiting" => carrier'[r] = n /\ carrier'[r] # 0 /\ r \in R
<1> DEFINE PS == {"none", "waiting", "misconfigured", "switched", "reset", "resolved", "rejected", "timed out"}
<1>1. promise \in [Calls -> PS]
  BY DEF LtInv, LtTypes
<1>2. \A r \in Calls : clearPendingRequests("reset")[r] = IF r \in pendingRequests THEN "reset" ELSE promise[r]
  BY DEF clearPendingRequests
<1>3. \A r \in Calls : clearPendingRequests("reset")[r] \in PS /\ clearPendingRequests("reset")[r] # "waiting"
  BY <1>1, <1>2, ZenonT(30) DEF LtInv, RequestShape
<1> QED  BY <1>3

LEMMA ScopedView ==
  ASSUME LtInv, NEW d \in Targets \cup {None}, view' = getScopedDeviceViewState(view, d), device' = d
  PROVE  /\ view' \in [device : Targets \cup {None}, status : Targets \cup {None}]
         /\ ShowsOwnDevice'
<1>1. view \in [device : Targets \cup {None}, status : Targets \cup {None}]
  BY DEF LtInv, LtTypes
<1>2. CASE view.device = d
  <2>1. view' = view
    BY <1>2 DEF getScopedDeviceViewState
  <2> QED  BY <1>1, <1>2, <2>1 DEF LtInv, ShowsOwnDevice
<1>3. CASE view.device # d
  <2>1. view' = [device |-> d, status |-> None]
    BY <1>3 DEF getScopedDeviceViewState
  <2> QED  BY <2>1 DEF ShowsOwnDevice
<1> QED  BY <1>2, <1>3

\* The provider is left without a valid configuration.
LEMMA SwitchOffStep ==
  ASSUME LtInv, NEW same \in BOOLEAN, NEW R \in SUBSET Calls, Switch(None, same, R)
  PROVE  LtInv'
<1>1. /\ mounted /\ ~ same /\ device' = None /\ client' = 0 /\ lc' = Down /\ socket' = ClosingOld
      /\ promise' = [r \in Calls |-> IF r \in R THEN "misconfigured" ELSE clearPendingRequests("reset")[r]]
      /\ pendingRequests' = {} /\ timeouts' = {}
      /\ carrier' = [r \in Calls |-> IF r \in R THEN 0 ELSE carrier[r]]
      /\ view' = getScopedDeviceViewState(view, None)
      /\ UNCHANGED <<activeDevice, transportState, dropped, rerun, mounted, sent>>
  BY DEF Switch, Down, ClosingOld
<1>2. LtTypes /\ Len(socket) \in Nat /\ made \in Nat
  BY SocketTypes, MadeTypes DEF LtInv
<1>3. made' = made
  <2>1. made' = IF 0 > made THEN 0 ELSE made
    BY DEF Switch
  <2> QED  BY <1>2, <2>1
<1>4. /\ promise' \in [Calls -> {"none", "waiting", "misconfigured", "switched", "reset", "resolved",
                                 "rejected", "timed out"}]
      /\ \A r \in Calls : promise'[r] = "waiting" <=> r \in pendingRequests'
  BY <1>1, SwitchTable
<1>5. view' \in [device : Targets \cup {None}, status : Targets \cup {None}] /\ ShowsOwnDevice'
  BY <1>1, ScopedView
<1>6. LtTypes'
  <2>1. lc' \in [LtClients -> ClientRecords]
    BY <1>1, LetGo
  <2>2. socket' \in Seq(SocketRecords) /\ Len(socket') <= MaxSockets
    BY <1>1, <1>2, SocketLetGo DEF LtTypes
  <2>3. 0 \in 0..made
    BY <1>2
  <2>4. carrier' \in [Calls -> 0..made]
    BY <1>1, <1>2, <2>3 DEF LtTypes
  <2> QED  BY <1>1, <1>2, <1>3, <1>4, <1>5, <2>1, <2>2, <2>3, <2>4 DEF LtTypes
<1>7. Len(socket') = Len(socket) /\ ~ \E i \in 1..Len(socket') : i > Len(socket)
  BY <1>1, <1>2, SocketLetGo
<1>8. OthersRest({client})
  BY <1>1, <1>2, <1>7, LetGo, SocketLetGo DEF OthersRest
<1>9. ASSUME NEW d \in LtClients PROVE ClientFits(d)' /\ (d \in (1..made) \ rerun => OnceFits(d)')
  <2>1. d # 0
    BY <1>2, MadeTypes
  <2>2. CASE d # client
    BY <1>1, <1>3, <1>6, <1>8, <2>1, <2>2, OthersKept
  <2>3. CASE d = client
    BY <1>1, <1>2, <1>3, <1>6, <1>7, <2>1, <2>3, GivenUp
  <2> QED  BY <2>2, <2>3
<1>10. ClientShape' /\ OnceShape'
  <2>1. \A d \in 1..made : d \in LtClients
    BY <1>2, MadeTypes
  <2> QED  BY <1>1, <1>3, <1>9, <2>1 DEF ClientShape, OnceShape
<1>11. ShownShape'
  <2>1. 0 \notin 1..made
    OBVIOUS
  <2> QED  BY <1>1, <1>3, <2>1 DEF ShownShape
<1>12. RequestShape'
  BY <1>1, <1>4 DEF RequestShape
<1> QED  BY <1>5, <1>6, <1>10, <1>11, <1>12 DEF LtInv

\* The client a switch connects, the provider's own again or a new one: it has one socket more,
\* and its queue holds what the children sent and the device.
LEMMA SwitchOnStep ==
  ASSUME LtInv, NEW t \in Targets, t # None, NEW same \in BOOLEAN, NEW R \in SUBSET Calls, Switch(t, same, R)
  PROVE  LtInv'
<1> DEFINE n == IF same THEN client ELSE made + 1
           early == SetToSeq(R)
           frames == IF Len(early) >= MaxQueueSize THEN SubSeq(early, 2, Len(early)) ELSE early
           q == frames \o <<"set-device">>
           st == IF activeDevice \notin {None, t} THEN "switched" ELSE "waiting"
           k == [Down[n] EXCEPT !.ws = Len(socket) + 1, !.shouldReconnect = TRUE, !.handlers = TRUE,
                                !.device = t, !.queue = q]
<1>1. PICK new : new = n
  OBVIOUS
<1>2. LtTypes /\ Len(socket) \in Nat /\ made \in Nat /\ MaxClients \in Nat
  BY SocketTypes, MadeTypes, LtAssumption DEF LtInv
<1>3. /\ mounted /\ Len(early) <= MaxQueueSize
      /\ IF same THEN client # 0 ELSE made < MaxClients
  BY DEF Switch
<1>4. /\ new \in Nat /\ new # 0 /\ new <= MaxClients /\ (same => new = client /\ new \in 1..made)
      /\ (~ same => new = made + 1 /\ new # client)
      /\ new \in LtClients
  BY <1>1, <1>2, <1>3, MadeTypes DEF LtClients
<1>5. /\ device' = t /\ client' = new /\ activeDevice' = t
      /\ promise' = [r \in Calls |-> IF r \in R THEN st ELSE clearPendingRequests("reset")[r]]
      /\ pendingRequests' = (IF st = "waiting" THEN R ELSE {})
      /\ timeouts' = (IF st = "waiting" THEN R ELSE {})
      /\ carrier' = [r \in Calls |-> IF r \in R THEN new ELSE carrier[r]]
      /\ view' = getScopedDeviceViewState(view, t)
      /\ rerun' = (IF same THEN rerun \cup {new} ELSE rerun)
      /\ made' = (IF new > made THEN new ELSE made)
      /\ UNCHANGED <<mounted, sent>>
  BY <1>1, <1>4 DEF Switch
<1>6. /\ Len(socket) < MaxSockets
      /\ socket' = Append(ClosingOld, [client |-> new, state |-> "connecting"])
      /\ lc' = [Down EXCEPT ![new].ws = Len(socket) + 1, ![new].shouldReconnect = TRUE,
                            ![new].handlers = TRUE, ![new].device = t, ![new].queue = q]
      /\ transportState' = "connecting"
      /\ dropped' = dropped \cup (R \ Range(frames))
  BY <1>1, <1>4 DEF Switch, Down, ClosingOld
<1>7. /\ q \in Seq(Frames) /\ Len(q) <= MaxQueueSize
      /\ \A r \in Range(frames) : \E i \in 1..Len(q) : q[i] = r
  BY <1>3, EarlyFrames
<1>8. lc' = [Down EXCEPT ![new] = k]
  BY <1>1, <1>4, <1>6, LetGo
<1> HIDE DEF q, frames, early, st
<1>9. Down \in [LtClients -> ClientRecords] /\ \A d \in LtClients : d # client => Down[d] = lc[d]
  BY LetGo
<1>10. PICK o \in ClientRecords : o = Down[new] /\ k = [o EXCEPT !.ws = Len(socket) + 1, !.shouldReconnect = TRUE,
                                       !.handlers = TRUE, !.device = t, !.queue = q]
  BY <1>1, <1>4, <1>9
<1>11. /\ k \in ClientRecords /\ k.queue = q /\ k.ws = Len(socket) + 1 /\ k.shouldReconnect = TRUE
       /\ k.handlers = TRUE /\ k.device = t /\ k.timers = o.timers
  <2>1. Len(socket) + 1 \in Nat
    BY <1>2
  <2> QED  BY <1>7, <1>10, <2>1 DEF ClientRecords
<1> HIDE DEF k
<1>12. /\ lc' \in [LtClients -> ClientRecords] /\ lc'[new] = k
       /\ \A d \in LtClients : d # new => lc'[d] = Down[d]
  BY <1>4, <1>8, <1>9, <1>11
<1>13. /\ ClosingOld \in Seq(SocketRecords) /\ Len(ClosingOld) = Len(socket)
       /\ socket' \in Seq(SocketRecords) /\ Len(socket') = Len(socket) + 1
       /\ \A i \in 1..Len(socket) : socket'[i] = ClosingOld[i]
       /\ socket'[Len(socket) + 1] = [client |-> new, state |-> "connecting"]
  <2>1. ClosingOld \in Seq(SocketRecords) /\ Len(ClosingOld) = Len(socket)
    BY SocketLetGo
  <2>2. PICK b \in Seq(SocketRecords) : b = ClosingOld
    BY <2>1
  <2>3. /\ Append(b, [client |-> new, state |-> "connecting"]) \in Seq(SocketRecords)
        /\ Len(Append(b, [client |-> new, state |-> "connecting"])) = Len(b) + 1
        /\ \A i \in 1..Len(b) : Append(b, [client |-> new, state |-> "connecting"])[i] = b[i]
        /\ Append(b, [client |-> new, state |-> "connecting"])[Len(b) + 1] = [client |-> new, state |-> "connecting"]
    BY <1>4, SocketAdded
  <2> QED  BY <1>6, <2>1, <2>2, <2>3
<1>14. \A i \in 1..Len(socket') : i \in 1..Len(socket) \/ i = Len(socket) + 1
  BY <1>2, <1>13
<1>15. st \in {"switched", "waiting"}
  BY DEF st
<1>16. /\ promise' \in [Calls -> {"none", "waiting", "misconfigured", "switched", "reset", "resolved",
                                  "rejected", "timed out"}]
       /\ pendingRequests' = timeouts' /\ pendingRequests' \subseteq Calls
       /\ \A r \in Calls : promise'[r] = "waiting" <=> r \in pendingRequests'
       /\ \A r \in Calls : promise'[r] = "waiting" => carrier'[r] # 0 /\ r \in R
  BY <1>4, <1>5, <1>15, SwitchTable
<1>17. view' \in [device : Targets \cup {None}, status : Targets \cup {None}] /\ ShowsOwnDevice'
  BY <1>5, ScopedView
<1>18. /\ made' \in 0..MaxClients /\ new \in 0..made' /\ made <= made' /\ new \in 1..made'
       /\ \A d \in 1..made' : d \in 1..made \/ d = new
  BY <1>2, <1>4, <1>5, MadeTypes
<1>19. LtTypes'
  <2>1. carrier' \in [Calls -> 0..made']
    <3>1. carrier \in [Calls -> 0..made]
      BY <1>2 DEF LtTypes
    <3>2. \A x \in 0..made : x \in 0..made'
      BY <1>2, <1>18
    <3> QED  BY <1>5, <1>18, <3>1, <3>2
  <2>2. rerun' \subseteq 1..made'
    <3>1. rerun \subseteq 1..made
      BY <1>2 DEF LtTypes
    <3>2. \A x \in 1..made : x \in 1..made'
      BY <1>2, <1>18
    <3> QED  BY <1>5, <1>18, <3>1, <3>2
  <2>3. Len(socket') <= MaxSockets
    BY <1>2, <1>6, <1>13, LtAssumption
  <2>4. mounted' \in BOOLEAN /\ device' \in Targets \cup {None} /\ activeDevice' \in Targets \cup {None}
    BY <1>2, <1>5 DEF LtTypes
  <2> QED  BY <1>5, <1>6, <1>12, <1>13, <1>16, <1>17, <1>18, <2>1, <2>2, <2>3, <2>4 DEF LtTypes
<1>20. \A i \in 1..Len(socket) : /\ socket'[i].client = socket[i].client
                                 /\ socket[i].client # client => socket'[i] = socket[i]
                                 /\ socket'[i].state = "closed" <=> socket[i].state = "closed"
  BY <1>13, SocketLetGo
<1>21. OthersRest({client, new})
  <2>1. \A d \in LtClients \ {client, new} : lc'[d] = lc[d]
    BY <1>9, <1>12
  <2>2. \A i \in 1..Len(socket') : i > Len(socket) => socket'[i].client = new
    <3>1. \A i \in 1..Len(socket') : i > Len(socket) => i = Len(socket) + 1
      BY <1>2, <1>14
    <3>2. socket'[Len(socket) + 1].client = new
      BY <1>13
    <3> QED  BY <3>1, <3>2
  <2>3. Len(socket) <= Len(socket')
    BY <1>2, <1>13
  <2> QED  BY <1>20, <2>1, <2>2, <2>3 DEF OthersRest
<1>22. ASSUME NEW d \in LtClients \ {client, new}
       PROVE  ClientFits(d)' /\ (d \in (1..made') \ rerun' => OnceFits(d)')
  <2>1. d > made' => d > made
    BY <1>2, <1>18, MadeTypes DEF LtClients
  <2>2. d \in (1..made') \ rerun' => d \in (1..made) \ rerun
    BY <1>5, <1>18, <1>22
  <2>3. d # client' /\ d # client
    BY <1>5, <1>22
  <2> QED  BY <1>19, <1>21, <1>22, <2>1, <2>2, <2>3, OthersKept
<1>23. ASSUME NEW c \in LtClients, c = client, c # new
       PROVE  ClientFits(c)' /\ (c \notin rerun => OnceFits(c)')
  <2>1. lc'[c] = Down[c]
    BY <1>12, <1>23
  <2>2. \A i \in 1..Len(socket') : i > Len(socket) => socket'[i].client # c
    <3>1. \A i \in 1..Len(socket') : i > Len(socket) => i = Len(socket) + 1
      BY <1>2, <1>14
    <3>2. socket'[Len(socket) + 1].client = new
      BY <1>13
    <3> QED  BY <1>23, <3>1, <3>2
  <2>3. Len(socket) <= Len(socket') /\ c # client'
    BY <1>2, <1>5, <1>13, <1>23
  <2> QED  BY <1>13, <1>18, <1>19, <1>23, <2>1, <2>2, <2>3, GivenUp
<1>24. o.timers \in Nat /\ o.timers <= lc[new].timers /\ (~ same => o.timers = 0)
  <2>1. CASE same
    <3>1. new = client /\ client # 0
      BY <1>4, <2>1
    <3> QED  BY <1>10, <2>1, <3>1, LetGo
  <2>2. CASE ~ same
    <3>1. o = lc[new] /\ new > made
      BY <1>2, <1>4, <1>9, <1>10, <2>2
    <3>2. lc[new].timers = 0
      BY <1>4, <3>1, AtWork
    <3> QED  BY <3>1, <3>2
  <2> QED  BY <2>1, <2>2
<1>25. ClientFits(new)'
  <2>1. Len(socket) + 1 \in 1..Len(socket') /\ Len(socket) + 1 # 0 /\ \A i \in 1..Len(socket) : i \in 1..Len(socket')
    BY <1>2, <1>13
  <2>2. ClosedOf(new)' = ClosedOf(new)
    <3>1. socket'[Len(socket) + 1].state # "closed"
      BY <1>13
    <3> QED  BY <1>14, <1>20, <2>1, <3>1 DEF ClosedOf
  <2>3. lc[new].timers <= Cardinality(ClosedOf(new)) /\ lc[new].timers \in Nat /\ Cardinality(ClosedOf(new)) \in Nat
    BY <1>2, <1>4, ClosedFinite, ClientTypes DEF LtInv, ClientShape, ClientFits
  <2>4. lc'[new].timers <= Cardinality(ClosedOf(new)')
    BY <1>11, <1>12, <1>24, <2>2, <2>3
  <2>5. Len(lc'[new].queue) <= MaxQueueSize
    BY <1>7, <1>11, <1>12
  <2>6. /\ lc'[new].ws \in 0..Len(socket') /\ socket'[lc'[new].ws].client = new
        /\ lc'[new].ws = Len(socket) + 1
    BY <1>11, <1>12, <1>13, <2>1
  <2>7. lc'[new].handlers /\ new = client' /\ mounted' /\ lc'[new].device = device'
    BY <1>3, <1>5, <1>11, <1>12
  <2>8. ~ (new > made')
    BY <1>2, <1>18
  <2> QED  BY <2>4, <2>5, <2>6, <2>7, <2>8 DEF ClientFits
<1>26. ASSUME ~ same PROVE OnceFits(new)'
  <2>1. \A i \in 1..Len(socket) : socket[i].client # new
    <3>1. new > made
      BY <1>2, <1>4, <1>26
    <3> QED  BY <1>4, <3>1, AtWork
  <2>2. \A i \in 1..Len(socket') : socket'[i].client = new => i = Len(socket) + 1
    BY <1>14, <1>20, <2>1
  <2>3. /\ lc'[new].ws = Len(socket) + 1 /\ lc'[new].ws # 0 /\ lc'[new].shouldReconnect
        /\ lc'[new].timers = 0 /\ socket'[Len(socket) + 1].state = "connecting"
        /\ socket'[lc'[new].ws].state \in LiveStates
    BY <1>2, <1>11, <1>12, <1>13, <1>24, <1>26 DEF LiveStates
  <2>4. new = client' /\ mounted'
    BY <1>3, <1>5
  <2> QED  BY <2>2, <2>3, <2>4 DEF OnceFits
<1>27. ClientShape' /\ OnceShape'
  <2>1. ASSUME NEW d \in LtClients PROVE ClientFits(d)' /\ (d \in (1..made') \ rerun' => OnceFits(d)')
    <3>1. CASE d = new
      BY <1>5, <1>25, <1>26, <3>1
    <3>2. CASE d # new /\ d = client
      BY <1>5, <1>23, <3>2
    <3>3. CASE d # new /\ d # client
      BY <1>22, <3>3
    <3> QED  BY <3>1, <3>2, <3>3
  <2>2. \A d \in 1..made' : d \in LtClients
    BY <1>2, <1>4, <1>18, MadeTypes
  <2> QED  BY <2>1, <2>2 DEF ClientShape, OnceShape
<1>28. ShownShape'
  <2>1. CASE same
    <3>1. client' \in rerun'
      BY <1>5, <2>1
    <3> QED  BY <3>1 DEF ShownShape
  <2>2. CASE ~ same
    <3>1. lc'[client'].ws = Len(socket) + 1 /\ socket'[Len(socket) + 1].state # "open"
      BY <1>5, <1>11, <1>12, <1>13
    <3> QED  BY <1>6, <3>1 DEF ShownShape
  <2> QED  BY <2>1, <2>2
<1>29. RequestShape'
  <2>1. ASSUME NEW r \in Calls, promise'[r] = "waiting"
        PROVE  r \in dropped' \/ \E i \in 1..Len(lc'[client'].queue) : lc'[client'].queue[i] = r
    <3>1. r \in R
      BY <1>16, <2>1
    <3>2. lc'[client'].queue = q
      BY <1>5, <1>11, <1>12
    <3> QED  BY <1>6, <1>7, <3>1, <3>2
  <2> QED  BY <1>16, <2>1 DEF RequestShape
<1> QED  BY <1>17, <1>19, <1>27, <1>28, <1>29 DEF LtInv

-----------------------------------------------------------------------------
(* The transport as a whole                                                 *)

LEMMA LtStepInv ==
  ASSUME LtInv, LtNext
  PROVE  LtInv'
<1>1. ASSUME NEW s \in 1..Len(socket), SocketOpens(s) \/ SocketCloses(s) \/ DeviceStatus(s) PROVE LtInv'
  <2>1. PICK c \in LtClients : c = socket[s].client
    BY SocketTypes DEF LtInv
  <2> QED  BY <1>1, <2>1, SocketOpensStep, SocketClosesStep, DeviceStatusStep
<1>2. ASSUME NEW d \in Targets \cup {None}, NEW same \in BOOLEAN, NEW R \in SUBSET Calls, Switch(d, same, R)
      PROVE  LtInv'
  <2>1. CASE d = None
    BY <1>2, <2>1, SwitchOffStep
  <2>2. CASE d # None
    BY <1>2, <2>2, SwitchOnStep
  <2> QED  BY <2>1, <2>2
<1> QED  BY <1>1, <1>2, ReconnectTimerStep, UnmountStep, RequestRefusedStep, TimedOutStep, RequestStep,
            AnsweredStep DEF LtNext

LEMMA LtRests == LtInv /\ UNCHANGED ltVars => LtInv'
<1> SUFFICES ASSUME LtInv, UNCHANGED ltVars PROVE LtInv'
  OBVIOUS
<1> USE DEF ltVars
<1>1. LtTypes'
  BY DEF LtInv, LtTypes
<1>2. RequestShape' /\ ShowsOwnDevice'
  BY DEF LtInv, RequestShape, ShowsOwnDevice
<1> QED  BY <1>1, <1>2, SocketsKept DEF LtInv

\* What the transport promises follows from the invariant.
LEMMA LtInvKeeps == LtInv => RequestsAccounted /\ OneSocketPerClient /\ ShowsOwnDevice
<1> SUFFICES ASSUME LtInv PROVE RequestsAccounted /\ OneSocketPerClient
  BY DEF LtInv
<1>1. LtTypes /\ Len(socket) \in Nat
  BY SocketTypes DEF LtInv
<1>2. RequestsAccounted
  <2>1. ASSUME NEW r \in Calls, promise[r] = "waiting", carrier[r] = client, mounted
        PROVE  r \in sent \cup dropped \cup Range(lc[client].queue)
    <3>1. client \in LtClients
      BY <1>1, <2>1, MadeTypes DEF LtInv, RequestShape
    <3>2. lc[client].queue \in Seq(Frames)
      BY <1>1, <3>1, ClientTypes
    <3>3. r \in sent \/ r \in dropped \/ \E i \in 1..Len(lc[client].queue) : lc[client].queue[i] = r
      BY <2>1 DEF LtInv, RequestShape
    <3>4. \A i \in 1..Len(lc[client].queue) : lc[client].queue[i] \in Range(lc[client].queue)
      BY <3>2 DEF Range
    <3> QED  BY <3>3, <3>4
  <2> QED  BY <2>1 DEF LtInv, RequestShape, RequestsAccounted
<1>3. \A s \in 1..Len(socket) : IsLive(s) <=> socket[s].state \in LiveStates
  BY <1>1 DEF IsLive, LiveStates
<1>4. ASSUME NEW c \in (1..made) \ rerun
      PROVE  /\ LiveSocketsOf(c) \subseteq {lc[c].ws}
             /\ lc[c].timers <= 1 /\ (lc[c].timers = 1 => LiveSocketsOf(c) = {})
             /\ lc[c].shouldReconnect => lc[c].timers = 1 \/ LiveSocketsOf(c) # {}
             /\ c # client => LiveSocketsOf(c) = {} /\ lc[c].timers = 0
  <2>1. OnceFits(c) /\ ClientFits(c) /\ c \in LtClients
    BY <1>1, <1>4, MadeTypes DEF LtInv, OnceShape, ClientShape
  <2>2. LiveSocketsOf(c) = {s \in 1..Len(socket) : socket[s].client = c /\ socket[s].state \in LiveStates}
    BY <1>3 DEF LiveSocketsOf
  <2>3. LiveSocketsOf(c) \subseteq {lc[c].ws} /\ (lc[c].timers = 1 => LiveSocketsOf(c) = {})
        /\ lc[c].timers <= 1
    BY <2>1, <2>2 DEF OnceFits
  <2>4. lc[c].shouldReconnect => lc[c].timers = 1 \/ LiveSocketsOf(c) # {}
    <3> SUFFICES ASSUME lc[c].shouldReconnect, lc[c].timers # 1 PROVE lc[c].ws \in LiveSocketsOf(c)
      OBVIOUS
    <3>1. lc[c].ws # 0 /\ socket[lc[c].ws].state \in LiveStates
      BY <2>1 DEF OnceFits
    <3>2. lc[c].ws \in 1..Len(socket) /\ socket[lc[c].ws].client = c
      BY <1>1, <2>1, <3>1 DEF ClientFits
    <3> QED  BY <2>2, <3>1, <3>2
  <2>5. c # client => LiveSocketsOf(c) = {} /\ lc[c].timers = 0
    BY <2>1, <2>2 DEF OnceFits
  <2> QED  BY <2>3, <2>4, <2>5
<1>5. client \in (1..made) \ rerun /\ mounted => (transportState = "connected" <=> IsOpen(lc[client].ws))
  BY DEF LtInv, ShownShape, IsOpen
<1>6. OneSocketPerClient
  BY <1>4, <1>5 DEF OneSocketPerClient
<1> QED  BY <1>2, <1>6

LEMMA LtInvTypes == LtInv => LtTypeOK
<1> SUFFICES ASSUME LtInv PROVE LtTypeOK
  OBVIOUS
<1>1. LtTypes /\ Len(socket) \in Nat /\ Len(socket) <= MaxSockets
  BY SocketTypes DEF LtInv, LtTypes
<1>2. ASSUME NEW c \in LtClients
      PROVE  /\ lc[c].ws \in 0..Len(socket) /\ lc[c].timers \in 0..MaxSockets
             /\ lc[c].queue \in Seq(Calls \cup {"set-device", "get-status"})
             /\ Len(lc[c].queue) <= MaxQueueSize
  <2>1. ClientFits(c) /\ lc[c].timers \in Nat /\ lc[c].queue \in Seq(Frames)
    BY <1>1, ClientTypes DEF LtInv, ClientShape
  <2>2. Cardinality(ClosedOf(c)) \in Nat /\ Cardinality(ClosedOf(c)) <= Len(socket)
    BY <1>1, ClosedFinite
  <2>3. lc[c].timers \in 0..MaxSockets
    BY <1>1, <2>1, <2>2, LtAssumption DEF ClientFits
  <2> QED  BY <2>1, <2>3 DEF ClientFits, Frames
<1>3. \A s \in 1..Len(socket) :
        socket[s].client \in LtClients /\ socket[s].state \in {"connecting", "open", "closing", "closed"}
  BY <1>1, SocketTypes DEF SocketStates
<1> QED  BY <1>1, <1>2, <1>3 DEF LtTypes, LtTypeOK

-----------------------------------------------------------------------------
(* The viewer                                                               *)

PeerStates == {"describing", "answered", "connected", "shaky", "aborted", "closed", "orphaned"}
PeerRecords == [session : Asks, state : PeerStates]
PacketKinds == {"start-live-ack", "live-layout-ack", "sdp-offer"}
Packets == PacketKinds \X Asks

LvTypes ==
  /\ viewerState \in {"idle", "starting", "streaming"}
  /\ activeRequestId \in Asks \cup {NoAsk} /\ pendingSessionId \in Asks \cup {NoAsk}
  /\ currentSessionId \in Asks \cup {NoAsk}
  /\ fetching \subseteq Asks
  /\ peers \in Seq(PeerRecords)
  /\ pcRef \in 0..Len(peers) /\ disconnectTimer \in 0..Len(peers)
  /\ use \in [Asks -> Asks \cup {"none", "start"}]
  /\ call \in [Asks -> {"none", "waiting", "over"}]
  /\ offers \in [Asks -> {"none", "due", "sent"}]
  /\ inbox \in Seq(Packets)
  /\ races \subseteq {"overlap", "late answer", "relabelled"}

\* What is on its way from the device: acknowledgements of what was asked, offers of sessions that
\* were started; while a start is still waiting its acknowledgement comes first.
AskFits(r) ==
  /\ use[r] = "none" => call[r] = "none" /\ offers[r] = "none"
  /\ offers[r] = "due" => use[r] = "start"
  /\ use[r] = "start" /\ call[r] = "waiting" /\ offers[r] = "due" =>
       \E i \in 1..Len(inbox) : inbox[i] = <<"start-live-ack", r>>
  /\ use[r] = "start" /\ call[r] = "waiting" /\ offers[r] = "sent" =>
       \E i \in 1..Len(inbox) : inbox[i] = <<"sdp-offer", r>>

PacketFits(i, kind, r) ==
  /\ offers[r] # "none"
  /\ kind \in {"start-live-ack", "sdp-offer"} <=> use[r] = "start"
  /\ kind = "sdp-offer" =>
       /\ offers[r] = "sent"
       /\ call[r] = "waiting" => \E j \in 1..(i - 1) : inbox[j] = <<"start-live-ack", r>>

WireShape ==
  /\ \A r \in Asks : AskFits(r)
  /\ \A i \in 1..Len(inbox), kind \in PacketKinds, r \in Asks : inbox[i] = <<kind, r>> => PacketFits(i, kind, r)

\* The refs of the hook, while none of the races has happened.
RefShape ==
  activeRequestId # NoAsk =>
    /\ use[activeRequestId] # "none"
    /\ use[activeRequestId] = "start" =>
         /\ pendingSessionId \in {NoAsk, activeRequestId} /\ currentSessionId \in {NoAsk, activeRequestId}
         /\ call[activeRequestId] = "waiting" => fetching = {} /\ pcRef = 0 /\ currentSessionId = NoAsk
    /\ use[activeRequestId] # "start" => currentSessionId # NoAsk

\* The provider's peer, while none of the races has happened.
PeerShape ==
  /\ \A s \in fetching : currentSessionId = s /\ pcRef = 0
  /\ currentSessionId # NoAsk => pcRef # 0 \/ fetching # {}
  /\ \A p \in 1..Len(peers) : peers[p].state # "aborted"
  /\ disconnectTimer # 0 => peers[disconnectTimer].state = "shaky"

RacesAside == races = {} => RefShape /\ PeerShape /\ ViewerFollowsPeer

LvInv == LvTypes /\ WireShape /\ RacesAside

LEMMA LvInitially == LvInit => LvInv
<1> SUFFICES ASSUME LvInit PROVE LvInv
  OBVIOUS
<1> USE DEF LvInit
<1>1. <<>> \in Seq(PeerRecords) /\ <<>> \in Seq(Packets) /\ Len(<<>>) = 0
  BY EmptySeq
<1>2. LvTypes
  BY <1>1 DEF LvTypes
<1>3. WireShape
  BY <1>1 DEF WireShape, AskFits
<1>4. RefShape /\ PeerShape /\ ViewerFollowsPeer
  BY <1>1 DEF RefShape, PeerShape, ViewerFollowsPeer
<1> QED  BY <1>2, <1>3, <1>4 DEF LvInv, RacesAside

\* The peers.
LEMMA PeerFacts ==
  ASSUME LvTypes
  PROVE  /\ peers \in Seq(PeerRecords) /\ Len(peers) \in Nat
         /\ \A p \in 1..Len(peers) : /\ peers[p] \in PeerRecords /\ peers[p].session \in Asks
                                     /\ peers[p].state \in PeerStates
         /\ pcRef \in Nat /\ (pcRef # 0 => pcRef \in 1..Len(peers))
         /\ disconnectTimer \in Nat /\ (disconnectTimer # 0 => disconnectTimer \in 1..Len(peers))
<1>1. peers \in Seq(PeerRecords) /\ pcRef \in 0..Len(peers) /\ disconnectTimer \in 0..Len(peers)
  BY DEF LvTypes
<1>2. Len(peers) \in Nat /\ \A p \in 1..Len(peers) : peers[p] \in PeerRecords
  BY <1>1
<1>3. \A x \in PeerRecords : x.session \in Asks /\ x.state \in PeerStates
  BY DEF PeerRecords
<1> QED  BY <1>1, <1>2, <1>3

LEMMA PeerSet ==
  ASSUME LvTypes, NEW p \in 1..Len(peers), NEW st \in PeerStates
  PROVE  LET n == [peers EXCEPT ![p].state = st] IN
         /\ n \in Seq(PeerRecords) /\ Len(n) = Len(peers)
         /\ \A i \in 1..Len(peers) : /\ n[i].session = peers[i].session
                                     /\ n[i].state = IF i = p THEN st ELSE peers[i].state
<1> DEFINE n == [peers EXCEPT ![p].state = st]
<1>1. peers \in Seq(PeerRecords) /\ \A i \in 1..Len(peers) : peers[i] \in PeerRecords
  BY PeerFacts
<1>2. \A i \in 1..Len(peers) : n[i] = IF i = p THEN [peers[i] EXCEPT !.state = st] ELSE peers[i]
  BY <1>1
<1>3. \A i \in 1..Len(peers) : /\ n[i] \in PeerRecords /\ n[i].session = peers[i].session
                               /\ n[i].state = IF i = p THEN st ELSE peers[i].state
  BY <1>1, <1>2 DEF PeerRecords
<1>4. [peers EXCEPT ![p] = [peers[p] EXCEPT !.state = st]] \in Seq(PeerRecords)
  BY <1>1, <1>2, <1>3, ExceptSeq
<1>5. n \in Seq(PeerRecords) /\ Len(n) = Len(peers)
  BY <1>1, <1>4, ExceptSeq
<1> QED  BY <1>3, <1>5

\* The peers once the current one is closed.
LEMMA ClosedPeersFacts ==
  ASSUME LvTypes
  PROVE  /\ ClosedPeers \in Seq(PeerRecords) /\ Len(ClosedPeers) = Len(peers)
         /\ \A p \in 1..Len(peers) :
              /\ p # pcRef => ClosedPeers[p].state = peers[p].state
              /\ p = pcRef /\ peers[p].state # "describing" => ClosedPeers[p].state = "closed"
<1>1. CASE pcRef = 0
  BY <1>1, PeerFacts DEF ClosedPeers
<1>2. CASE pcRef # 0
  <2>1. PICK p \in 1..Len(peers) : p = pcRef
    BY <1>2, PeerFacts
  <2>2. PICK st \in PeerStates : st = IF peers[p].state = "describing" THEN "aborted" ELSE "closed"
    BY DEF PeerStates
  <2>3. ClosedPeers = [peers EXCEPT ![p].state = st]
    BY <1>2, <2>1, <2>2, PeerFacts DEF ClosedPeers
  <2>4. /\ ClosedPeers \in Seq(PeerRecords) /\ Len(ClosedPeers) = Len(peers)
        /\ \A i \in 1..Len(peers) : ClosedPeers[i].state = IF i = p THEN st ELSE peers[i].state
    BY <2>3, PeerSet
  <2> QED  BY <2>1, <2>2, <2>4
<1> QED  BY <1>1, <1>2

\* Closing the current peer closes them all, unless it is being described.
LEMMA ClosesAll ==
  ASSUME LvTypes, PeerShape, ViewerFollowsPeer, races = {},
         pcRef # 0 => peers[pcRef].state # "describing"
  PROVE  \A p \in 1..Len(peers) : ClosedPeers[p].state = "closed"
<1> SUFFICES ASSUME NEW p \in 1..Len(peers) PROVE ClosedPeers[p].state = "closed"
  OBVIOUS
<1>1. CASE p = pcRef
  BY <1>1, PeerFacts, ClosedPeersFacts
<1>2. CASE p # pcRef
  <2>1. peers[p].state = "closed"
    BY <1>2, PeerFacts DEF ViewerFollowsPeer, PeerShape
  <2> QED  BY <1>2, <2>1, ClosedPeersFacts
<1> QED  BY <1>1, <1>2

\* What is left when everything is closed and reset.
LEMMA IdleShape ==
  ASSUME NEW n \in Nat, Len(peers') = n, \A p \in 1..n : peers'[p].state = "closed",
         pcRef' = 0, disconnectTimer' = 0, currentSessionId' = NoAsk, fetching' = {},
         viewerState' = "idle"
  PROVE  PeerShape' /\ ViewerFollowsPeer'
<1>1. \A p \in 1..n : p # 0
  OBVIOUS
<1> QED  BY <1>1 DEF PeerShape, ViewerFollowsPeer

\* A step that neither asks nor hears anything.
LEMMA RemoteKept == LvInv /\ UNCHANGED remote => WireShape'
<1> SUFFICES ASSUME LvInv, UNCHANGED remote PROVE WireShape'
  OBVIOUS
<1>1. use' = use /\ call' = call /\ offers' = offers /\ inbox' = inbox
  BY DEF remote
<1>2. \A r : AskFits(r)' <=> AskFits(r)
  BY <1>1 DEF AskFits
<1>3. \A i, kind, r : PacketFits(i, kind, r)' <=> PacketFits(i, kind, r)
  BY <1>1 DEF PacketFits
<1> QED  BY <1>1, <1>2, <1>3 DEF LvInv, WireShape

-----------------------------------------------------------------------------
(* The steps of the viewer                                                  *)

\* What is known before a step, as long as none of the races has happened.
LEMMA Before ==
  ASSUME LvInv, races = {}
  PROVE  /\ LvTypes /\ WireShape /\ RefShape /\ PeerShape /\ ViewerFollowsPeer
         /\ \A p \in 1..Len(peers) : peers[p].state \notin {"closed", "aborted"} => p = pcRef
         /\ pcRef # 0 => fetching = {} /\ currentSessionId \in Asks /\ peers[pcRef].session = currentSessionId
         /\ disconnectTimer # 0 => disconnectTimer = pcRef
         /\ fetching # {} => fetching = {currentSessionId} /\ pcRef = 0
<1>1. LvTypes /\ WireShape /\ RefShape /\ PeerShape /\ ViewerFollowsPeer
  BY DEF LvInv, RacesAside
<1> QED  BY <1>1, PeerFacts DEF PeerShape, ViewerFollowsPeer

LEMMA NoPeer == LvTypes => 0 \in 0..Len(peers)
BY PeerFacts

\* Everything is closed and reset.
LEMMA ResetTypes ==
  ASSUME LvTypes, pcRef' = 0, disconnectTimer' = 0, currentSessionId' = NoAsk,
         activeRequestId' = NoAsk, pendingSessionId' = NoAsk, viewerState' = "idle",
         peers' \in Seq(PeerRecords), Len(peers') = Len(peers), fetching' \subseteq fetching,
         UNCHANGED remote, races' \subseteq {"overlap", "late answer", "relabelled"}
  PROVE  LvTypes'
<1>1. 0 \in 0..Len(peers)
  BY NoPeer
<1> QED  BY <1>1 DEF LvTypes, remote

LEMMA ResetStep ==
  ASSUME LvInv, pcRef' = 0, disconnectTimer' = 0, currentSessionId' = NoAsk,
         activeRequestId' = NoAsk, pendingSessionId' = NoAsk, viewerState' = "idle",
         peers' \in Seq(PeerRecords), Len(peers') = Len(peers), fetching' \subseteq fetching,
         UNCHANGED remote, races' \subseteq {"overlap", "late answer", "relabelled"},
         races' = {} => fetching' = {} /\ \A p \in 1..Len(peers) : peers'[p].state = "closed"
  PROVE  LvInv'
<1>1. LvTypes'
  BY ResetTypes DEF LvInv
<1>2. WireShape'
  BY RemoteKept
<1>3. ASSUME races' = {} PROVE RefShape' /\ PeerShape' /\ ViewerFollowsPeer'
  <2>1. PICK n \in Nat : n = Len(peers)
    BY PeerFacts DEF LvInv
  <2>2. PeerShape' /\ ViewerFollowsPeer'
    BY <1>3, <2>1, IdleShape
  <2>3. RefShape'
    BY DEF RefShape
  <2> QED  BY <2>2, <2>3
<1> QED  BY <1>1, <1>2, <1>3 DEF LvInv, RacesAside

LEMMA IceConfigFailsStep ==
  ASSUME LvInv, NEW s \in Asks, IceConfigFails(s)
  PROVE  LvInv'
<1> USE DEF IceConfigFails, PeerClosed
<1>1. LvTypes
  BY DEF LvInv
<1>2. ASSUME races' = {} PROVE fetching' = {} /\ \A p \in 1..Len(peers) : peers'[p].state = "closed"
  <2>1. races = {} /\ fetching # {}
    BY <1>2
  <2> QED  BY <2>1, Before, ClosesAll
<1> QED  BY <1>1, <1>2, ClosedPeersFacts, ResetStep DEF LvTypes

LEMMA PeerFailsStep ==
  ASSUME LvInv, NEW p \in 1..Len(peers), PeerFails(p)
  PROVE  LvInv'
<1> USE DEF PeerFails, PeerClosed
<1>1. LvTypes
  BY DEF LvInv
<1>2. ASSUME races' = {} PROVE fetching' = {} /\ \A q \in 1..Len(peers) : peers'[q].state = "closed"
  <2>1. races = {} /\ pcRef # 0
    BY <1>2
  <2> QED  BY <2>1, Before, ClosesAll
<1> QED  BY <1>1, <1>2, ClosedPeersFacts, ResetStep DEF LvTypes

LEMMA AnswerFailsStep ==
  ASSUME LvInv, NEW p \in 1..Len(peers), AnswerFails(p)
  PROVE  LvInv'
<1> USE DEF AnswerFails, PeerClosed
<1>1. LvTypes
  BY DEF LvInv
<1>2. PICK st \in PeerStates : st = IF p = pcRef \/ peers[p].state = "aborted" THEN "closed" ELSE "orphaned"
  BY DEF PeerStates
<1>3. PICK b \in Seq(PeerRecords) : b = ClosedPeers /\ Len(b) = Len(peers)
  BY <1>1, ClosedPeersFacts
<1>4. peers' = [b EXCEPT ![p] = [b[p] EXCEPT !.state = st]]
  BY <1>2, <1>3
<1>5. p \in 1..Len(b) /\ b[p] \in PeerRecords
  BY <1>3
<1>6. [b[p] EXCEPT !.state = st] \in PeerRecords /\ [b[p] EXCEPT !.state = st].state = st
  BY <1>5 DEF PeerRecords
<1>7. peers' \in Seq(PeerRecords) /\ Len(peers') = Len(peers) /\ peers'[p].state = st
      /\ \A q \in 1..Len(peers) : q # p => peers'[q] = b[q]
  <2>1. PICK x \in PeerRecords : x = [b[p] EXCEPT !.state = st]
    BY <1>6
  <2>2. peers' = [b EXCEPT ![p] = x]
    BY <1>4, <2>1
  <2>3. /\ [b EXCEPT ![p] = x] \in Seq(PeerRecords) /\ Len([b EXCEPT ![p] = x]) = Len(b)
        /\ \A q \in 1..Len(b) : [b EXCEPT ![p] = x][q] = IF q = p THEN x ELSE b[q]
    BY <1>5, ExceptSeq
  <2> QED  BY <1>3, <1>5, <1>6, <2>1, <2>2, <2>3
<1>8. ASSUME races' = {} PROVE fetching' = {} /\ \A q \in 1..Len(peers) : peers'[q].state = "closed"
  <2>1. races = {}
    BY <1>8
  <2>2. p = pcRef /\ pcRef # 0
    BY <1>1, <2>1, Before DEF PeerShape
  <2>3. \A q \in 1..Len(peers) : q # p => b[q].state = "closed"
    <3>1. \A q \in 1..Len(peers) : q # p => peers[q].state = "closed"
      BY <1>1, <2>1, <2>2, Before DEF PeerShape
    <3> QED  BY <1>1, <1>3, <2>2, <3>1, ClosedPeersFacts
  <2>4. st = "closed"
    BY <1>2, <2>2
  <2> QED  BY <1>7, <2>1, <2>2, <2>3, <2>4, Before
<1> QED  BY <1>1, <1>7, <1>8, ResetStep DEF LvTypes

\* Nothing is between its awaits.
LEMMA NotUnderway == ~ Underway => fetching = {} /\ \A p \in 1..Len(peers) : peers[p].state # "describing"
BY DEF Underway

LEMMA stopLiveStep ==
  ASSUME LvInv, stopLive
  PROVE  LvInv'
<1> USE DEF stopLive, closePeer, cleanupPeer, Race
<1>1. LvTypes
  BY DEF LvInv
<1>2. races \subseteq races' /\ races' \subseteq {"overlap", "late answer", "relabelled"}
  BY <1>1 DEF LvTypes
<1>3. ASSUME races' = {} PROVE fetching' = {} /\ \A q \in 1..Len(peers) : peers'[q].state = "closed"
  <2>1. races = {} /\ ~ Underway
    BY <1>3
  <2> QED  BY <1>1, <2>1, Before, NotUnderway, ClosesAll, PeerFacts
<1> QED  BY <1>1, <1>2, <1>3, ClosedPeersFacts, ResetStep

LEMMA DisconnectTimeoutStep ==
  ASSUME LvInv, DisconnectTimeout
  PROVE  LvInv'
<1> USE DEF DisconnectTimeout
<1>1. LvTypes
  BY DEF LvInv
<1>2. CASE pcRef = disconnectTimer
  <2>1. PeerClosed /\ peers' = ClosedPeers /\ UNCHANGED <<fetching, remote, races>> /\ disconnectTimer # 0
    BY <1>2
  <2> HIDE DEF DisconnectTimeout
  <2>2. ASSUME races' = {} PROVE fetching' = {} /\ \A q \in 1..Len(peers) : peers'[q].state = "closed"
    <3>1. races = {} /\ pcRef # 0
      BY <1>2, <2>1, <2>2
    <3>2. peers[pcRef].state = "shaky"
      BY <1>2, <2>1, <3>1, Before DEF PeerShape
    <3> QED  BY <2>1, <3>1, <3>2, Before, ClosesAll
  <2> QED  BY <1>1, <2>1, <2>2, ClosedPeersFacts, ResetStep DEF LvTypes, PeerClosed
<1>3. CASE pcRef # disconnectTimer
  <2>1. /\ disconnectTimer' = 0 /\ disconnectTimer # 0
        /\ UNCHANGED <<viewerState, activeRequestId, pendingSessionId, currentSessionId, pcRef, peers, fetching, remote, races>>
    BY <1>3 DEF refs
  <2>2. races # {}
    BY <1>3, <2>1, Before
  <2>3. LvTypes'
    <3>1. 0 \in 0..Len(peers)
      BY <1>1, PeerFacts
    <3> QED  BY <1>1, <2>1, <3>1 DEF LvTypes, remote
  <2> QED  BY <2>1, <2>2, <2>3, RemoteKept DEF LvInv, RacesAside
<1> QED  BY <1>2, <1>3

\* The current peer changes its state.
LEMMA CurrentPeerStep ==
  ASSUME LvInv, NEW p \in 1..Len(peers), NEW st \in PeerStates, peers' = [peers EXCEPT ![p].state = st],
         UNCHANGED <<currentSessionId, pcRef, fetching, refs, remote, races>>,
         viewerState' \in {"idle", "starting", "streaming"}, disconnectTimer' \in {0, p, disconnectTimer},
         races = {} /\ p = pcRef =>
           /\ viewerState' # "idle" /\ st \notin {"closed", "aborted"}
           /\ viewerState' = "streaming" => st \in {"connected", "shaky"}
           /\ disconnectTimer' \in {0, p} /\ (disconnectTimer' # 0 => st = "shaky"),
         peers[p].state \notin {"closed", "aborted"}
  PROVE  LvInv'
<1>1. LvTypes
  BY DEF LvInv
<1>2. /\ peers' \in Seq(PeerRecords) /\ Len(peers') = Len(peers)
      /\ \A i \in 1..Len(peers) : /\ peers'[i].session = peers[i].session
                                  /\ peers'[i].state = IF i = p THEN st ELSE peers[i].state
  BY <1>1, PeerSet
<1>3. UNCHANGED <<activeRequestId, pendingSessionId, use, call, offers, inbox>>
  BY DEF refs, remote
<1>4. LvTypes'
  <2>1. disconnectTimer' \in 0..Len(peers)
    BY <1>1, PeerFacts
  <2> QED  BY <1>1, <1>2, <1>3, <2>1 DEF LvTypes
<1>5. WireShape'
  BY RemoteKept
<1>6. ASSUME races = {} PROVE RefShape' /\ PeerShape' /\ ViewerFollowsPeer'
  <2>1. p = pcRef /\ pcRef # 0 /\ fetching = {} /\ peers[p].session = currentSessionId
    BY <1>6, Before
  <2>2. RefShape /\ PeerShape /\ ViewerFollowsPeer
    BY <1>6, Before
  <2>3. RefShape'
    BY <1>3, <2>2 DEF RefShape
  <2>4. PeerShape'
    BY <1>2, <2>1, <2>2, <1>6 DEF PeerShape
  <2>5. /\ peers'[pcRef].session = currentSessionId
        /\ \A i \in 1..Len(peers') : peers'[i].state \notin {"closed", "aborted"} <=> i = pcRef
        /\ disconnectTimer' \in {0, pcRef}
        /\ viewerState' = "streaming" => peers'[pcRef].state \in {"connected", "shaky"}
    BY <1>2, <1>6, <2>1, <2>2 DEF ViewerFollowsPeer
  <2>6. ViewerFollowsPeer'
    BY <1>6, <2>1, <2>5 DEF ViewerFollowsPeer
  <2> QED  BY <2>3, <2>4, <2>6
<1> QED  BY <1>4, <1>5, <1>6 DEF LvInv, RacesAside

LEMMA AnswerStep ==
  ASSUME LvInv, NEW p \in 1..Len(peers), Answer(p)
  PROVE  LvInv'
<1> USE DEF Answer
<1>1. viewerState \in {"idle", "starting", "streaming"}
  BY DEF LvInv, LvTypes
<1>2. races = {} /\ p = pcRef => viewerState = "starting" /\ disconnectTimer = 0
  BY <1>1, Before DEF ViewerFollowsPeer, PeerShape
<1> QED  BY <1>1, <1>2, CurrentPeerStep DEF PeerStates

LEMMA PeerConnectsStep ==
  ASSUME LvInv, NEW p \in 1..Len(peers), PeerConnects(p)
  PROVE  LvInv'
<1> USE DEF PeerConnects
<1>1. viewerState \in {"idle", "starting", "streaming"}
  BY DEF LvInv, LvTypes
<1> QED  BY <1>1, CurrentPeerStep DEF PeerStates

LEMMA PeerDisconnectsStep ==
  ASSUME LvInv, NEW p \in 1..Len(peers), PeerDisconnects(p)
  PROVE  LvInv'
<1> USE DEF PeerDisconnects
<1>1. viewerState \in {"idle", "starting", "streaming"}
  BY DEF LvInv, LvTypes
<1>2. races = {} /\ p = pcRef => viewerState # "idle"
  BY Before, PeerFacts DEF ViewerFollowsPeer, LvInv
<1> QED  BY <1>1, <1>2, CurrentPeerStep DEF PeerStates

\* The ICE configuration arrives.
LEMMA IceConfigArrivesStep ==
  ASSUME LvInv, NEW s \in Asks, IceConfigArrives(s)
  PROVE  LvInv'
<1> DEFINE x == [session |-> s, state |-> "describing"]
<1>1. /\ s \in fetching /\ fetching' = fetching \ {s} /\ peers' = Append(peers, x) /\ pcRef' = Len(peers) + 1
      /\ UNCHANGED <<viewerState, activeRequestId, pendingSessionId, currentSessionId, disconnectTimer, remote,
                     races, use, call, offers, inbox>>
  BY DEF IceConfigArrives, refs, remote
<1>2. LvTypes /\ peers \in Seq(PeerRecords) /\ Len(peers) \in Nat
  BY PeerFacts DEF LvInv
<1>3. x \in PeerRecords
  BY DEF PeerRecords, PeerStates
<1>4. /\ peers' \in Seq(PeerRecords) /\ Len(peers') = Len(peers) + 1
      /\ \A i \in 1..Len(peers) : peers'[i] = peers[i]
      /\ peers'[Len(peers) + 1] = x
  BY <1>1, <1>2, <1>3, AppendProperties
<1>5. LvTypes'
  <2>1. pcRef' \in 0..Len(peers') /\ disconnectTimer' \in 0..Len(peers')
    BY <1>1, <1>2, <1>4, PeerFacts
  <2> QED  BY <1>1, <1>2, <1>4, <2>1 DEF LvTypes
<1>6. WireShape'
  BY <1>1, RemoteKept
<1>7. ASSUME races = {} PROVE RefShape' /\ PeerShape' /\ ViewerFollowsPeer'
  <2>1. fetching = {s} /\ currentSessionId = s /\ pcRef = 0 /\ disconnectTimer = 0
    BY <1>1, <1>7, Before
  <2>2. RefShape /\ PeerShape /\ ViewerFollowsPeer
    BY <1>7, Before
  <2>3. RefShape'
    BY <1>1, <2>1, <2>2 DEF RefShape
  <2>4. \A i \in 1..Len(peers') : i \in 1..Len(peers) \/ i = Len(peers) + 1
    BY <1>2, <1>4
  <2>5. Len(peers) + 1 # 0 /\ \A i \in 1..Len(peers) : i # Len(peers) + 1 /\ i # 0
    BY <1>2
  <2>6. PeerShape'
    BY <1>1, <1>4, <2>1, <2>2, <2>4, <2>5 DEF PeerShape
  <2>7. viewerState = "starting"
    BY <1>2, <1>7, <2>1, <2>2 DEF ViewerFollowsPeer, LvTypes
  <2>8. peers'[pcRef'].session = currentSessionId
    BY <1>1, <1>4, <2>1
  <2>9. \A i \in 1..Len(peers') : peers'[i].state \notin {"closed", "aborted"} <=> i = pcRef'
    <3>1. \A i \in 1..Len(peers) : peers[i].state \in {"closed", "aborted"}
      BY <1>7, <2>1, <2>2, <2>5 DEF ViewerFollowsPeer
    <3> QED  BY <1>1, <1>4, <2>4, <2>5, <3>1
  <2>10. ViewerFollowsPeer'
    BY <1>1, <2>1, <2>5, <2>7, <2>8, <2>9 DEF ViewerFollowsPeer
  <2> QED  BY <2>3, <2>6, <2>10
<1> QED  BY <1>1, <1>5, <1>6, <1>7 DEF LvInv, RacesAside

\* A request that was not made yet: nothing is on its way for it.
LEMMA NewAsk ==
  ASSUME LvInv, NEW r \in Asks, use[r] = "none", NEW u \in Asks \cup {"start"},
         use' = [use EXCEPT ![r] = u], call' = [call EXCEPT ![r] = "waiting"], UNCHANGED <<offers, inbox>>
  PROVE  /\ WireShape'
         /\ use' \in [Asks -> Asks \cup {"none", "start"}] /\ call' \in [Asks -> {"none", "waiting", "over"}]
         /\ use'[r] = u /\ call'[r] = "waiting" /\ u # "none"
<1>1. /\ use \in [Asks -> Asks \cup {"none", "start"}] /\ call \in [Asks -> {"none", "waiting", "over"}]
      /\ inbox \in Seq(Packets) /\ WireShape
  BY DEF LvInv, LvTypes
<1>2. \A q \in Asks : /\ use'[q] = IF q = r THEN u ELSE use[q]
                      /\ call'[q] = IF q = r THEN "waiting" ELSE call[q]
  BY <1>1
<1>3. u # "none"
  BY LvAssumption
<1>4. offers[r] = "none"
  BY <1>1 DEF WireShape, AskFits
<1>5. \A q \in Asks : AskFits(q)'
  BY <1>1, <1>2, <1>3, <1>4, Zenon DEF WireShape, AskFits
<1>6. ASSUME NEW i \in 1..Len(inbox), NEW kind \in PacketKinds, NEW q \in Asks, inbox[i] = <<kind, q>>
      PROVE  PacketFits(i, kind, q)'
  <2>1. PacketFits(i, kind, q)
    BY <1>1, <1>6 DEF WireShape
  <2>2. q # r
    BY <1>4, <2>1 DEF PacketFits
  <2> QED  BY <1>2, <2>1, <2>2 DEF PacketFits
<1>7. WireShape'
  BY <1>5, <1>6 DEF WireShape
<1> QED  BY <1>1, <1>2, <1>3, <1>7

\* startLive: the session before it is closed first.
LEMMA startLiveStep ==
  ASSUME LvInv, NEW r \in Asks, startLive(r)
  PROVE  LvInv'
<1>1. /\ use[r] = "none" /\ activeRequestId' = r /\ pendingSessionId' = NoAsk /\ viewerState' = "starting"
      /\ use' = [use EXCEPT ![r] = "start"] /\ call' = [call EXCEPT ![r] = "waiting"]
      /\ races' = (IF Underway THEN races \cup {"overlap"} ELSE races)
      /\ UNCHANGED <<fetching, offers, inbox>>
  BY DEF startLive, Race
<1>2. LvTypes
  BY DEF LvInv
<1>3. /\ WireShape'
      /\ use' \in [Asks -> Asks \cup {"none", "start"}] /\ call' \in [Asks -> {"none", "waiting", "over"}]
      /\ use'[r] = "start" /\ call'[r] = "waiting"
  BY <1>1, NewAsk
<1>4. \/ closePeer
      \/ currentSessionId = NoAsk /\ UNCHANGED <<currentSessionId, pcRef, peers, disconnectTimer>>
  BY DEF startLive
<1>5. LvTypes'
  <2>1. currentSessionId' \in Asks \cup {NoAsk}
    BY <1>2, <1>4 DEF LvTypes, closePeer
  <2>2. peers' \in Seq(PeerRecords) /\ Len(peers') = Len(peers)
    BY <1>2, <1>4, ClosedPeersFacts, PeerFacts DEF closePeer, cleanupPeer
  <2>3. pcRef' \in 0..Len(peers') /\ disconnectTimer' \in 0..Len(peers')
    <3>1. 0 \in 0..Len(peers) /\ pcRef \in 0..Len(peers) /\ disconnectTimer \in 0..Len(peers)
      BY <1>2, NoPeer DEF LvTypes
    <3> QED  BY <1>4, <2>2, <3>1 DEF closePeer, cleanupPeer
  <2> QED  BY <1>1, <1>2, <1>3, <2>1, <2>2, <2>3 DEF LvTypes
<1>6. ASSUME races' = {} PROVE RefShape' /\ PeerShape' /\ ViewerFollowsPeer'
  <2>1. races = {} /\ ~ Underway
    BY <1>1, <1>6
  <2>2. fetching = {} /\ \A p \in 1..Len(peers) : peers[p].state # "describing"
    BY <2>1, NotUnderway
  <2>3. closePeer
    <3> SUFFICES ASSUME currentSessionId = NoAsk, UNCHANGED <<currentSessionId, pcRef, peers, disconnectTimer>>
                 PROVE  closePeer
      BY <1>4
    <3>1. pcRef = 0
      BY <2>1, Before, LvAssumption
    <3>2. disconnectTimer = 0
      BY <2>1, <3>1, Before
    <3> QED  BY <3>1, <3>2 DEF closePeer, cleanupPeer, ClosedPeers
  <2>4. PICK n \in Nat : n = Len(peers) /\ Len(peers') = n /\ \A p \in 1..n : peers'[p].state = "closed"
    BY <1>2, <2>1, <2>2, <2>3, Before, ClosesAll, ClosedPeersFacts, PeerFacts DEF closePeer, cleanupPeer
  <2>5. pcRef' = 0 /\ disconnectTimer' = 0 /\ currentSessionId' = NoAsk /\ fetching' = {}
    BY <1>1, <2>2, <2>3 DEF closePeer, cleanupPeer
  <2>6. \A p \in 1..n : p # 0
    OBVIOUS
  <2>7. RefShape'
    BY <1>1, <1>3, <2>5 DEF RefShape
  <2>8. PeerShape'
    BY <2>4, <2>5 DEF PeerShape
  <2>9. r # NoAsk
    BY LvAssumption
  <2>10. ViewerFollowsPeer'
    BY <1>1, <1>3, <2>4, <2>5, <2>6, <2>9 DEF ViewerFollowsPeer
  <2> QED  BY <2>7, <2>8, <2>10
<1> QED  BY <1>3, <1>5, <1>6 DEF LvInv, RacesAside

LEMMA updateLiveLayoutStep ==
  ASSUME LvInv, NEW r \in Asks, updateLiveLayout(r)
  PROVE  LvInv'
<1>1. PICK s : s = IF currentSessionId # NoAsk THEN currentSessionId ELSE pendingSessionId
  OBVIOUS
<1>2. /\ use[r] = "none" /\ s # NoAsk /\ activeRequestId' = r
      /\ use' = [use EXCEPT ![r] = s] /\ call' = [call EXCEPT ![r] = "waiting"]
      /\ races' = (IF currentSessionId = NoAsk THEN races \cup {"relabelled"} ELSE races)
      /\ UNCHANGED <<viewerState, pendingSessionId, currentSessionId, pcRef, peers, fetching, disconnectTimer,
                     offers, inbox>>
  BY <1>1 DEF updateLiveLayout, Race, provider
<1>3. LvTypes
  BY DEF LvInv
<1>4. s \in Asks
  BY <1>1, <1>2, <1>3 DEF LvTypes
<1>5. /\ WireShape'
      /\ use' \in [Asks -> Asks \cup {"none", "start"}] /\ call' \in [Asks -> {"none", "waiting", "over"}]
      /\ use'[r] = s /\ s # "none"
  BY <1>2, <1>4, NewAsk
<1>6. LvTypes'
  BY <1>2, <1>3, <1>5 DEF LvTypes
<1>7. ASSUME races' = {} PROVE RefShape' /\ PeerShape' /\ ViewerFollowsPeer'
  <2>1. races = {} /\ currentSessionId # NoAsk
    BY <1>2, <1>7
  <2>2. PeerShape /\ ViewerFollowsPeer
    BY <2>1, Before
  <2>3. RefShape'
    BY <1>2, <1>4, <1>5, <2>1, LvAssumption DEF RefShape
  <2>4. PeerShape'
    BY <1>2, <2>2 DEF PeerShape
  <2>5. pcRef # 0 \/ fetching # {}
    BY <2>1, <2>2 DEF PeerShape
  <2>6. ViewerFollowsPeer'
    BY <1>2, <2>1, <2>2, <2>5 DEF ViewerFollowsPeer
  <2> QED  BY <2>3, <2>4, <2>6
<1> QED  BY <1>5, <1>6, <1>7 DEF LvInv, RacesAside

\* A promise ends: nothing more is asked of the wire.
LEMMA CallOver ==
  ASSUME LvInv, NEW r \in Asks, call[r] = "waiting", call' = [call EXCEPT ![r] = "over"],
         UNCHANGED <<use, offers, inbox>>
  PROVE  WireShape' /\ call' \in [Asks -> {"none", "waiting", "over"}] /\ call'[r] = "over"
         /\ \A q \in Asks : q # r => call'[q] = call[q]
<1>1. call \in [Asks -> {"none", "waiting", "over"}] /\ WireShape /\ inbox \in Seq(Packets)
  BY DEF LvInv, LvTypes
<1>2. \A q \in Asks : call'[q] = IF q = r THEN "over" ELSE call[q]
  BY <1>1
<1>3. \A q \in Asks : /\ call'[q] = "waiting" => call[q] = "waiting"
                      /\ call[q] = "none" => call'[q] = "none"
  BY <1>1, <1>2
<1>4. \A q \in Asks : AskFits(q)'
  BY <1>1, <1>3, Zenon DEF WireShape, AskFits
<1>5. ASSUME NEW i \in 1..Len(inbox), NEW kind \in PacketKinds, NEW q \in Asks, inbox[i] = <<kind, q>>
      PROVE  PacketFits(i, kind, q)'
  <2>1. PacketFits(i, kind, q)
    BY <1>1, <1>5 DEF WireShape
  <2> QED  BY <1>3, <2>1 DEF PacketFits
<1>6. WireShape'
  BY <1>4, <1>5 DEF WireShape
<1> QED  BY <1>1, <1>2, <1>6

LEMMA StartFailsStep ==
  ASSUME LvInv, NEW r \in Asks, StartFails(r)
  PROVE  LvInv'
<1>1. /\ use[r] = "start" /\ call[r] = "waiting" /\ call' = [call EXCEPT ![r] = "over"]
      /\ viewerState' = "idle" /\ disconnectTimer' = 0 /\ pcRef' = 0 /\ peers' = ClosedPeers
      /\ currentSessionId' = NoAsk
      /\ races' = (IF r # activeRequestId THEN races \cup {"late answer"} ELSE races)
      /\ UNCHANGED <<activeRequestId, pendingSessionId, fetching, use, offers, inbox>>
  BY DEF StartFails, closePeer, cleanupPeer, Race, refs
<1>2. LvTypes
  BY DEF LvInv
<1>3. WireShape' /\ call' \in [Asks -> {"none", "waiting", "over"}] /\ call'[r] = "over"
  BY <1>1, CallOver
<1>4. LvTypes'
  <2>1. peers' \in Seq(PeerRecords) /\ Len(peers') = Len(peers)
    BY <1>1, <1>2, ClosedPeersFacts
  <2>2. 0 \in 0..Len(peers)
    BY <1>2, NoPeer
  <2> QED  BY <1>1, <1>2, <1>3, <2>1, <2>2 DEF LvTypes
<1>5. ASSUME races' = {} PROVE RefShape' /\ PeerShape' /\ ViewerFollowsPeer'
  <2>1. races = {} /\ r = activeRequestId
    BY <1>1, <1>5
  <2>2. RefShape /\ r # NoAsk
    BY <2>1, Before, LvAssumption
  <2>3. fetching = {} /\ pcRef = 0
    BY <1>1, <2>1, <2>2 DEF RefShape
  <2>4. PICK n \in Nat : n = Len(peers) /\ Len(peers') = n /\ \A p \in 1..n : peers'[p].state = "closed"
    BY <1>1, <1>2, <2>1, <2>3, Before, ClosesAll, ClosedPeersFacts, PeerFacts
  <2>5. PeerShape' /\ ViewerFollowsPeer'
    BY <1>1, <2>3, <2>4, IdleShape
  <2>6. RefShape'
    BY <1>1, <1>3, <2>1, <2>2 DEF RefShape
  <2> QED  BY <2>5, <2>6
<1> QED  BY <1>3, <1>4, <1>5 DEF LvInv, RacesAside

LEMMA UpdateFailsStep ==
  ASSUME LvInv, NEW r \in Asks, UpdateFails(r)
  PROVE  LvInv'
<1>1. /\ use[r] \in Asks /\ call[r] = "waiting" /\ call' = [call EXCEPT ![r] = "over"]
      /\ UNCHANGED <<viewerState, activeRequestId, pendingSessionId, currentSessionId, pcRef, peers, fetching,
                     disconnectTimer, use, offers, inbox, races>>
  BY DEF UpdateFails, refs, provider
<1>2. LvTypes
  BY DEF LvInv
<1>3. /\ WireShape' /\ call' \in [Asks -> {"none", "waiting", "over"}] /\ call'[r] = "over"
      /\ \A q \in Asks : q # r => call'[q] = call[q]
  BY <1>1, CallOver
<1>4. LvTypes'
  BY <1>1, <1>2, <1>3 DEF LvTypes
<1>5. ASSUME races = {} PROVE RefShape' /\ PeerShape' /\ ViewerFollowsPeer'
  <2>1. RefShape /\ PeerShape /\ ViewerFollowsPeer /\ activeRequestId \in Asks \cup {NoAsk}
    BY <1>2, <1>5, Before DEF LvTypes
  <2>2. use[r] # "start"
    BY <1>1, LvAssumption
  <2>3. activeRequestId # NoAsk /\ call'[activeRequestId] = "waiting" => call[activeRequestId] = "waiting"
    BY <1>1, <1>3, <2>1
  <2>4. RefShape'
    BY <1>1, <2>1, <2>3 DEF RefShape
  <2>5. PeerShape'
    BY <1>1, <2>1 DEF PeerShape
  <2>6. viewerState = "starting" =>
           \/ pcRef # 0 \/ fetching # {}
           \/ activeRequestId # NoAsk /\ (call'[activeRequestId] = "waiting" \/ OfferIsComing(activeRequestId))
    <3>1. CASE activeRequestId = r
      <4>1. currentSessionId # NoAsk
        BY <2>1, <2>2, <3>1, LvAssumption DEF RefShape
      <4> QED  BY <2>1, <4>1 DEF PeerShape
    <3>2. CASE activeRequestId # r
      <4>1. activeRequestId # NoAsk => call'[activeRequestId] = call[activeRequestId]
        BY <1>3, <2>1, <3>2
      <4> QED  BY <1>5, <2>1, <4>1 DEF ViewerFollowsPeer
    <3> QED  BY <3>1, <3>2
  <2>7. OfferIsComing(activeRequestId)' <=> OfferIsComing(activeRequestId)
    BY <1>1 DEF OfferIsComing
  <2>8. ViewerFollowsPeer'
    BY <1>1, <1>5, <2>1, <2>6, <2>7 DEF ViewerFollowsPeer
  <2> QED  BY <2>4, <2>5, <2>8
<1> QED  BY <1>1, <1>3, <1>4, <1>5 DEF LvInv, RacesAside

\* The device sends a packet: what was on its way still is, and stays in its order.
LEMMA PacketSent ==
  ASSUME LvInv, NEW k \in PacketKinds, NEW r \in Asks,
         NEW o \in {"due", "sent"}, offers' = [offers EXCEPT ![r] = o], inbox' = Append(inbox, <<k, r>>),
         UNCHANGED <<use, call>>,
         use[r] # "none", k \in {"start-live-ack", "sdp-offer"} <=> use[r] = "start",
         o = "due" <=> k = "start-live-ack",
         IF k = "sdp-offer" THEN offers[r] = "due" ELSE offers[r] = "none"
  PROVE  /\ WireShape' /\ inbox' \in Seq(Packets) /\ offers' \in [Asks -> {"none", "due", "sent"}]
         /\ \A q \in Asks : offers'[q] = IF q = r THEN o ELSE offers[q]
         /\ \A i \in 1..Len(inbox) : i \in 1..Len(inbox') /\ inbox'[i] = inbox[i]
         /\ \E i \in 1..Len(inbox') : inbox'[i] = <<k, r>>
<1>1. offers \in [Asks -> {"none", "due", "sent"}] /\ inbox \in Seq(Packets) /\ WireShape /\ Len(inbox) \in Nat
  <2>1. offers \in [Asks -> {"none", "due", "sent"}] /\ inbox \in Seq(Packets) /\ WireShape
    BY DEF LvInv, LvTypes
  <2> QED  BY <2>1
<1>2. offers' \in [Asks -> {"none", "due", "sent"}] /\ \A q \in Asks : offers'[q] = IF q = r THEN o ELSE offers[q]
  BY <1>1
<1>3. /\ inbox' \in Seq(Packets) /\ Len(inbox') = Len(inbox) + 1
      /\ \A i \in 1..Len(inbox) : inbox'[i] = inbox[i]
      /\ inbox'[Len(inbox) + 1] = <<k, r>>
  <2>1. <<k, r>> \in Packets
    BY DEF Packets, PacketKinds
  <2> QED  BY <1>1, <2>1, AppendProperties
<1>4. /\ \A i \in 1..Len(inbox) : i \in 1..Len(inbox') /\ inbox'[i] = inbox[i]
      /\ Len(inbox) + 1 \in 1..Len(inbox')
      /\ \A i \in 1..Len(inbox') : i \in 1..Len(inbox) \/ i = Len(inbox) + 1
  BY <1>1, <1>3
<1>5. ASSUME NEW q \in Asks PROVE AskFits(q)'
  <2>1. AskFits(q)
    BY <1>1 DEF WireShape
  <2>2. CASE q # r
    BY <1>2, <1>4, <2>1, <2>2 DEF AskFits
  <2>3. CASE q = r
    <3>1. offers'[q] = o /\ use[q] # "none"
      BY <1>2, <2>3
    <3>2. o = "sent" /\ use[q] = "start" => k = "sdp-offer"
      BY <2>3
    <3>3. o = "due" => use[q] = "start"
      BY <2>3
    <3>4. \E i \in 1..Len(inbox') : inbox'[i] = <<k, q>>
      BY <1>3, <1>4, <2>3
    <3> QED  BY <3>1, <3>2, <3>3, <3>4 DEF AskFits
  <2> QED  BY <2>2, <2>3
<1>6. ASSUME NEW i \in 1..Len(inbox'), NEW kind \in PacketKinds, NEW q \in Asks, inbox'[i] = <<kind, q>>
      PROVE  PacketFits(i, kind, q)'
  <2>1. CASE i \in 1..Len(inbox)
    <3>1. PacketFits(i, kind, q)
      BY <1>1, <1>4, <1>6, <2>1 DEF WireShape
    <3>2. offers'[q] # "none" /\ (offers[q] = "sent" => offers'[q] = "sent")
      BY <1>1, <1>2, <3>1 DEF PacketFits
    <3>3. \A j \in 1..(i - 1) : j \in 1..Len(inbox)
      BY <1>1, <2>1
    <3>4. \A j \in 1..(i - 1) : inbox'[j] = inbox[j]
      BY <1>4, <3>3
    <3> QED  BY <3>1, <3>2, <3>4 DEF PacketFits
  <2>2. CASE i = Len(inbox) + 1
    <3>1. kind = k /\ q = r
      BY <1>3, <1>6, <2>2
    <3>2. offers'[q] = o /\ o # "none" /\ (kind = "sdp-offer" => o = "sent")
      BY <1>2, <3>1
    <3>3. ASSUME kind = "sdp-offer", call[q] = "waiting" PROVE \E j \in 1..(i - 1) : inbox'[j] = <<"start-live-ack", q>>
      <4>1. offers[q] = "due" /\ use[q] = "start"
        BY <3>1, <3>3
      <4>2. PICK j \in 1..Len(inbox) : inbox[j] = <<"start-live-ack", q>>
        BY <1>1, <3>3, <4>1 DEF WireShape, AskFits
      <4>3. j \in 1..(i - 1)
        BY <1>1, <2>2, <4>2
      <4> QED  BY <1>4, <4>2, <4>3
    <3> QED  BY <3>1, <3>2, <3>3 DEF PacketFits
  <2> QED  BY <1>4, <2>1, <2>2
<1>7. WireShape'
  BY <1>5, <1>6 DEF WireShape
<1> QED  BY <1>2, <1>3, <1>4, <1>7

\* What is in the inbox.
LEMMA InInbox == \A q \in Seq(Packets) : \A x : x \in Range(q) <=> \E i \in 1..Len(q) : q[i] = x
BY DEF Range

\* A packet sent takes no offer away.
LEMMA OffersComing ==
  ASSUME LvInv, LvTypes', NEW a \in Asks,
         \A i \in 1..Len(inbox) : i \in 1..Len(inbox') /\ inbox'[i] = inbox[i],
         offers'[a] = offers[a], OfferIsComing(a)
  PROVE  OfferIsComing(a)'
<1>1. inbox \in Seq(Packets) /\ inbox' \in Seq(Packets)
  BY DEF LvInv, LvTypes
<1>2. <<"sdp-offer", a>> \in Range(inbox) => <<"sdp-offer", a>> \in Range(inbox')
  BY <1>1, InInbox
<1> QED  BY <1>2 DEF OfferIsComing

\* A step of the device, as the viewer sees it: nothing yet.
LEMMA DeviceStep ==
  ASSUME LvInv, LvTypes', WireShape',
         UNCHANGED <<viewerState, activeRequestId, pendingSessionId, currentSessionId, pcRef, peers, fetching,
                     disconnectTimer, use, call, races>>,
         activeRequestId # NoAsk /\ currentSessionId = NoAsk /\ OfferIsComing(activeRequestId) =>
           OfferIsComing(activeRequestId)'
  PROVE  LvInv'
<1>1. ASSUME races = {} PROVE RefShape' /\ PeerShape' /\ ViewerFollowsPeer'
  <2>1. RefShape /\ PeerShape /\ ViewerFollowsPeer
    BY <1>1, Before
  <2>2. RefShape' /\ PeerShape'
    BY <2>1 DEF RefShape, PeerShape
  <2>3. viewerState = "starting" =>
           \/ pcRef # 0 \/ fetching # {}
           \/ activeRequestId # NoAsk /\ (call[activeRequestId] = "waiting" \/ OfferIsComing(activeRequestId)')
    BY <1>1, <2>1 DEF ViewerFollowsPeer, PeerShape
  <2>4. ViewerFollowsPeer'
    BY <1>1, <2>1, <2>3 DEF ViewerFollowsPeer
  <2> QED  BY <2>2, <2>4
<1> QED  BY <1>1 DEF LvInv, RacesAside

LEMMA DeviceAcknowledgesStep ==
  ASSUME LvInv, NEW r \in Asks, DeviceAcknowledges(r)
  PROVE  LvInv'
<1>1. PICK k \in {"start-live-ack", "live-layout-ack"} : k = IF use[r] = "start" THEN "start-live-ack" ELSE "live-layout-ack"
  OBVIOUS
<1>2. PICK o \in {"due", "sent"} : o = IF use[r] = "start" THEN "due" ELSE "sent"
  OBVIOUS
<1>3. /\ use[r] # "none" /\ offers[r] = "none"
      /\ offers' = [offers EXCEPT ![r] = o] /\ inbox' = Append(inbox, <<k, r>>)
      /\ UNCHANGED <<viewerState, activeRequestId, pendingSessionId, currentSessionId, pcRef, peers, fetching,
                     disconnectTimer, use, call, races>>
  BY <1>1, <1>2 DEF DeviceAcknowledges, refs, provider
<1>4. /\ WireShape' /\ inbox' \in Seq(Packets) /\ offers' \in [Asks -> {"none", "due", "sent"}]
      /\ \A q \in Asks : offers'[q] = IF q = r THEN o ELSE offers[q]
      /\ \A i \in 1..Len(inbox) : i \in 1..Len(inbox') /\ inbox'[i] = inbox[i]
  BY <1>1, <1>2, <1>3, PacketSent DEF PacketKinds
<1>5. LvTypes'
  BY <1>3, <1>4 DEF LvInv, LvTypes
<1>6. CASE races # {}
  BY <1>3, <1>4, <1>5, <1>6 DEF LvInv, RacesAside
<1>7. CASE races = {}
  <2>1. ASSUME activeRequestId # NoAsk, currentSessionId = NoAsk, OfferIsComing(activeRequestId)
        PROVE  OfferIsComing(activeRequestId)'
    <3>1. PICK a \in Asks : a = activeRequestId /\ activeRequestId' = a
      BY <1>3, <2>1 DEF LvInv, LvTypes
    <3>2. CASE a # r
      <4>1. OfferIsComing(a)'
        BY <1>4, <1>5, <2>1, <3>1, <3>2, OffersComing
      <4> QED  BY <3>1, <4>1 DEF OfferIsComing
    <3>3. CASE a = r
      <4>1. use[a] = "start"
        BY <1>7, <2>1, <3>1, Before DEF RefShape
      <4>2. offers'[a] = "due"
        BY <1>2, <1>4, <3>3, <4>1
      <4> QED  BY <3>1, <4>2 DEF OfferIsComing
    <3> QED  BY <3>2, <3>3
  <2> QED  BY <1>3, <1>4, <1>5, <2>1, DeviceStep
<1> QED  BY <1>6, <1>7

LEMMA DeviceOffersStep ==
  ASSUME LvInv, NEW r \in Asks, DeviceOffers(r)
  PROVE  LvInv'
<1>1. /\ offers[r] = "due"
      /\ offers' = [offers EXCEPT ![r] = "sent"] /\ inbox' = Append(inbox, <<"sdp-offer", r>>)
      /\ UNCHANGED <<viewerState, activeRequestId, pendingSessionId, currentSessionId, pcRef, peers, fetching,
                     disconnectTimer, use, call, races>>
  BY DEF DeviceOffers, refs, provider
<1>2. use[r] = "start"
  BY <1>1 DEF LvInv, WireShape, AskFits
<1>3. /\ WireShape' /\ inbox' \in Seq(Packets) /\ offers' \in [Asks -> {"none", "due", "sent"}]
      /\ \A q \in Asks : offers'[q] = IF q = r THEN "sent" ELSE offers[q]
      /\ \A i \in 1..Len(inbox) : i \in 1..Len(inbox') /\ inbox'[i] = inbox[i]
      /\ \E i \in 1..Len(inbox') : inbox'[i] = <<"sdp-offer", r>>
  BY <1>1, <1>2, PacketSent DEF PacketKinds
<1>4. LvTypes'
  BY <1>1, <1>3 DEF LvInv, LvTypes
<1>5. ASSUME activeRequestId # NoAsk, OfferIsComing(activeRequestId)
      PROVE  OfferIsComing(activeRequestId)'
  <2>1. PICK a \in Asks : a = activeRequestId /\ activeRequestId' = a
    BY <1>1, <1>5 DEF LvInv, LvTypes
  <2>2. CASE a # r
    <3>1. OfferIsComing(a)'
      BY <1>3, <1>4, <1>5, <2>1, <2>2, OffersComing
    <3> QED  BY <2>1, <3>1 DEF OfferIsComing
  <2>3. CASE a = r
    <3>1. <<"sdp-offer", a>> \in Range(inbox')
      BY <1>3, <2>3, InInbox
    <3> QED  BY <2>1, <3>1 DEF OfferIsComing
  <2> QED  BY <2>2, <2>3
<1> QED  BY <1>1, <1>3, <1>4, <1>5, DeviceStep

\* The first packet is taken in, and the promise of its request is over by then.
LEMMA PacketTaken ==
  ASSUME LvInv, inbox # <<>>, inbox' = Tail(inbox), NEW k \in PacketKinds, NEW r \in Asks, Head(inbox) = <<k, r>>,
         UNCHANGED <<use, offers>>, call' \in [Asks -> {"none", "waiting", "over"}], call'[r] # "waiting",
         \A q \in Asks : q # r => call'[q] = call[q], call[r] = "none" => call'[r] = "none"
  PROVE  /\ WireShape' /\ inbox' \in Seq(Packets)
         /\ \A i \in 1..Len(inbox) : inbox[i] # <<k, r>> => \E j \in 1..Len(inbox') : inbox'[j] = inbox[i]
<1>1. WireShape /\ inbox \in Seq(Packets)
  BY DEF LvInv, LvTypes
<1>2. /\ inbox' \in Seq(Packets) /\ Len(inbox) \in Nat /\ Len(inbox') = Len(inbox) - 1
      /\ \A i \in 1..Len(inbox') : inbox'[i] = inbox[i + 1]
      /\ inbox[1] = <<k, r>>
  BY <1>1, HeadTailProperties
<1>3. ASSUME NEW i \in 1..Len(inbox), inbox[i] # <<k, r>> PROVE i - 1 \in 1..Len(inbox') /\ inbox'[i - 1] = inbox[i]
  <2>1. i # 1
    BY <1>2, <1>3
  <2>2. i - 1 \in 1..Len(inbox') /\ (i - 1) + 1 = i
    BY <1>2, <1>3, <2>1
  <2> QED  BY <1>2, <2>2
<1>4. ASSUME NEW q \in Asks PROVE AskFits(q)'
  <2>1. AskFits(q)
    BY <1>1 DEF WireShape
  <2>2. CASE q = r
    BY <2>1, <2>2 DEF AskFits
  <2>3. CASE q # r
    <3>1. <<"start-live-ack", q>> # <<k, r>> /\ <<"sdp-offer", q>> # <<k, r>>
      BY <2>3
    <3>2. \A x \in {<<"start-live-ack", q>>, <<"sdp-offer", q>>} :
             (\E i \in 1..Len(inbox) : inbox[i] = x) => \E j \in 1..Len(inbox') : inbox'[j] = x
      BY <1>3, <3>1
    <3> QED  BY <2>1, <2>3, <3>2 DEF AskFits
  <2> QED  BY <2>2, <2>3
<1>5. ASSUME NEW i \in 1..Len(inbox'), NEW kind \in PacketKinds, NEW q \in Asks, inbox'[i] = <<kind, q>>
      PROVE  PacketFits(i, kind, q)'
  <2>1. i + 1 \in 1..Len(inbox) /\ inbox[i + 1] = <<kind, q>>
    BY <1>2, <1>5
  <2>2. PacketFits(i + 1, kind, q)
    BY <1>1, <2>1 DEF WireShape
  <2>3. ASSUME kind = "sdp-offer", call'[q] = "waiting" PROVE \E j \in 1..(i - 1) : inbox'[j] = <<"start-live-ack", q>>
    <3>1. q # r /\ call[q] = "waiting"
      BY <2>3
    <3>2. PICK j \in 1..((i + 1) - 1) : inbox[j] = <<"start-live-ack", q>>
      BY <2>2, <2>3, <3>1 DEF PacketFits
    <3>3. inbox[j] # <<k, r>>
      BY <3>1, <3>2
    <3>4. j \in 1..Len(inbox) /\ j # 1
      BY <1>2, <1>5, <3>2, <3>3
    <3>5. j - 1 \in 1..(i - 1)
      BY <1>5, <3>2, <3>4
    <3> QED  BY <1>3, <3>2, <3>3, <3>4, <3>5
  <2> QED  BY <2>2, <2>3 DEF PacketFits
<1>6. WireShape'
  BY <1>4, <1>5 DEF WireShape
<1> QED  BY <1>2, <1>3, <1>6

\* The offer of a request is still coming, unless it is the packet taken in.
LEMMA StillComing ==
  ASSUME LvInv, NEW a \in Asks, NEW k, NEW r, UNCHANGED offers, inbox' \in Seq(Packets),
         \A i \in 1..Len(inbox) : inbox[i] # <<k, r>> => \E j \in 1..Len(inbox') : inbox'[j] = inbox[i],
         OfferIsComing(a), <<k, r>> # <<"sdp-offer", a>>
  PROVE  OfferIsComing(a)'
<1>1. inbox \in Seq(Packets)
  BY DEF LvInv, LvTypes
<1>2. <<"sdp-offer", a>> \in Range(inbox) => <<"sdp-offer", a>> \in Range(inbox')
  BY <1>1, InInbox
<1> QED  BY <1>2 DEF OfferIsComing

\* A packet that changes nothing in the viewer.
LEMMA PacketIgnored ==
  ASSUME LvInv, LvTypes', WireShape',
         UNCHANGED <<viewerState, activeRequestId, pendingSessionId, currentSessionId, pcRef, peers, fetching,
                     disconnectTimer, use, call, races>>,
         races = {} /\ activeRequestId # NoAsk /\ pcRef = 0 /\ OfferIsComing(activeRequestId) =>
           OfferIsComing(activeRequestId)'
  PROVE  LvInv'
<1>1. ASSUME races = {} PROVE RefShape' /\ PeerShape' /\ ViewerFollowsPeer'
  <2>1. RefShape /\ PeerShape /\ ViewerFollowsPeer
    BY <1>1, Before
  <2>2. RefShape' /\ PeerShape'
    BY <2>1 DEF RefShape, PeerShape
  <2>3. viewerState = "starting" =>
           \/ pcRef # 0 \/ fetching # {}
           \/ activeRequestId # NoAsk /\ (call[activeRequestId] = "waiting" \/ OfferIsComing(activeRequestId)')
    BY <1>1, <2>1 DEF ViewerFollowsPeer
  <2>4. ViewerFollowsPeer'
    BY <1>1, <2>1, <2>3 DEF ViewerFollowsPeer
  <2> QED  BY <2>2, <2>4
<1> QED  BY <1>1 DEF LvInv, RacesAside

\* The packet at the head of the inbox.
LEMMA HeadPacket ==
  ASSUME LvInv, inbox # <<>>
  PROVE  \E k \in PacketKinds, r \in Asks :
            /\ Head(inbox) = <<k, r>> /\ PacketFits(1, k, r)
            /\ \E i \in 1..Len(inbox) : inbox[i] = <<k, r>>
<1>1. WireShape /\ inbox \in Seq(Packets)
  BY DEF LvInv, LvTypes
<1>2. Head(inbox) = inbox[1] /\ 1 \in 1..Len(inbox) /\ inbox[1] \in Packets
  BY <1>1
<1>3. PICK k \in PacketKinds, r \in Asks : inbox[1] = <<k, r>>
  BY <1>2 DEF Packets, PacketKinds
<1>4. PacketFits(1, k, r)
  BY <1>1, <1>2, <1>3 DEF WireShape
<1> QED  BY <1>2, <1>3, <1>4

\* An acknowledgement whose promise is over, or an offer that is not for this viewer.
LEMMA UnheededStep ==
  ASSUME LvInv, inbox # <<>>, inbox' = Tail(inbox), NEW k \in PacketKinds, NEW r \in Asks, Head(inbox) = <<k, r>>,
         UNCHANGED <<viewerState, refs, provider, use, call, offers, races>>, call[r] # "waiting",
         races = {} /\ k = "sdp-offer" /\ r = activeRequestId => pcRef # 0
  PROVE  LvInv'
<1>1. UNCHANGED <<activeRequestId, pendingSessionId, currentSessionId, pcRef, peers, fetching, disconnectTimer>>
  BY DEF refs, provider
<1>2. LvTypes /\ call \in [Asks -> {"none", "waiting", "over"}] /\ activeRequestId \in Asks \cup {NoAsk}
  BY DEF LvInv, LvTypes
<1>3. /\ WireShape' /\ inbox' \in Seq(Packets)
      /\ \A i \in 1..Len(inbox) : inbox[i] # <<k, r>> => \E j \in 1..Len(inbox') : inbox'[j] = inbox[i]
  BY <1>2, PacketTaken DEF PacketKinds
<1>4. LvTypes'
  BY <1>1, <1>2, <1>3 DEF LvTypes
<1>5. ASSUME races = {}, activeRequestId # NoAsk, pcRef = 0, OfferIsComing(activeRequestId)
      PROVE  OfferIsComing(activeRequestId)'
  <2>1. PICK a \in Asks : a = activeRequestId /\ activeRequestId' = a
    BY <1>1, <1>2, <1>5
  <2>2. <<k, r>> # <<"sdp-offer", a>>
    BY <1>5, <2>1
  <2>3. OfferIsComing(a)
    BY <1>5, <2>1
  <2>4. OfferIsComing(a)'
    BY <1>3, <2>2, <2>3, StillComing
  <2> QED  BY <2>1, <2>4 DEF OfferIsComing
<1> QED  BY <1>1, <1>3, <1>4, <1>5, PacketIgnored

\* The acknowledgement of a start that still waits.
LEMMA StartAcknowledgedStep ==
  ASSUME LvInv, inbox # <<>>, inbox' = Tail(inbox), NEW r \in Asks, Head(inbox) = <<"start-live-ack", r>>,
         PacketFits(1, "start-live-ack", r), call[r] = "waiting", StartAcknowledged(r),
         UNCHANGED <<provider, use, offers>>
  PROVE  LvInv'
<1>1. /\ call' = [call EXCEPT ![r] = "over"] /\ pendingSessionId' = r /\ activeRequestId' = r
      /\ viewerState' = "starting"
      /\ races' = (IF r # activeRequestId THEN races \cup {"late answer"} ELSE races)
      /\ UNCHANGED <<currentSessionId, pcRef, peers, fetching, disconnectTimer>>
  BY DEF StartAcknowledged, Race, provider
<1>2. LvTypes /\ call \in [Asks -> {"none", "waiting", "over"}] /\ WireShape
  BY DEF LvInv, LvTypes
<1>3. call' \in [Asks -> {"none", "waiting", "over"}] /\ call'[r] = "over" /\ \A q \in Asks : q # r => call'[q] = call[q]
  BY <1>1, <1>2
<1>4. /\ WireShape' /\ inbox' \in Seq(Packets)
      /\ \A i \in 1..Len(inbox) : inbox[i] # <<"start-live-ack", r>> => \E j \in 1..Len(inbox') : inbox'[j] = inbox[i]
  BY <1>3, PacketTaken DEF PacketKinds
<1>5. LvTypes'
  BY <1>1, <1>2, <1>3, <1>4 DEF LvTypes
<1>6. ASSUME races' = {} PROVE RefShape' /\ PeerShape' /\ ViewerFollowsPeer'
  <2>1. races = {} /\ r = activeRequestId /\ r # NoAsk
    BY <1>1, <1>6, LvAssumption
  <2>2. RefShape /\ PeerShape /\ ViewerFollowsPeer
    BY <2>1, Before
  <2>3. use[r] = "start" /\ offers[r] # "none"
    BY DEF PacketFits
  <2>4. fetching = {} /\ pcRef = 0 /\ currentSessionId = NoAsk
    BY <2>1, <2>2, <2>3 DEF RefShape
  <2>5. RefShape'
    BY <1>1, <1>3, <2>1, <2>3, <2>4 DEF RefShape
  <2>6. PeerShape'
    BY <1>1, <2>2 DEF PeerShape
  <2>7. OfferIsComing(r)
    <3>1. CASE offers[r] = "due"
      BY <3>1 DEF OfferIsComing
    <3>2. CASE offers[r] # "due"
      <4>1. offers[r] = "sent"
        BY <1>2, <2>3, <3>2 DEF LvTypes
      <4>2. \E i \in 1..Len(inbox) : inbox[i] = <<"sdp-offer", r>>
        BY <1>2, <2>3, <4>1 DEF WireShape, AskFits
      <4> QED  BY <1>2, <4>2, InInbox DEF OfferIsComing, LvTypes
    <3> QED  BY <3>1, <3>2
  <2>8. OfferIsComing(r)'
    <3>1. <<"start-live-ack", r>> # <<"sdp-offer", r>>
      OBVIOUS
    <3> QED  BY <1>4, <2>7, <3>1, StillComing
  <2>9. \E a \in Asks : a = activeRequestId' /\ OfferIsComing(activeRequestId)'
    BY <1>1, <2>8 DEF OfferIsComing
  <2>10. ViewerFollowsPeer'
    BY <1>1, <2>1, <2>2, <2>4, <2>9, LvAssumption DEF ViewerFollowsPeer
  <2> QED  BY <2>5, <2>6, <2>10
<1> QED  BY <1>4, <1>5, <1>6 DEF LvInv, RacesAside

\* The acknowledgement of a layout that still waits.
LEMMA UpdateAcknowledgedStep ==
  ASSUME LvInv, inbox # <<>>, inbox' = Tail(inbox), NEW r \in Asks, Head(inbox) = <<"live-layout-ack", r>>,
         PacketFits(1, "live-layout-ack", r), call[r] = "waiting", UpdateAcknowledged(r),
         UNCHANGED <<provider, use, offers>>
  PROVE  LvInv'
<1>1. /\ call' = [call EXCEPT ![r] = "over"] /\ pendingSessionId' = use[r] /\ activeRequestId' = r
      /\ races' = (IF r # activeRequestId THEN races \cup {"late answer"} ELSE races)
      /\ UNCHANGED <<viewerState, currentSessionId, pcRef, peers, fetching, disconnectTimer>>
  BY DEF UpdateAcknowledged, Race, provider
<1>2. LvTypes /\ call \in [Asks -> {"none", "waiting", "over"}] /\ WireShape
  BY DEF LvInv, LvTypes
<1>3. call' \in [Asks -> {"none", "waiting", "over"}] /\ call'[r] = "over" /\ \A q \in Asks : q # r => call'[q] = call[q]
  BY <1>1, <1>2
<1>4. WireShape' /\ inbox' \in Seq(Packets)
  BY <1>3, PacketTaken DEF PacketKinds
<1>5. use[r] # "start" /\ use[r] # "none"
  BY <1>2 DEF PacketFits, WireShape, AskFits
<1>6. LvTypes'
  <2>1. use[r] \in Asks
    BY <1>2, <1>5 DEF LvTypes
  <2> QED  BY <1>1, <1>2, <1>3, <1>4, <2>1 DEF LvTypes
<1>7. ASSUME races' = {} PROVE RefShape' /\ PeerShape' /\ ViewerFollowsPeer'
  <2>1. races = {} /\ r = activeRequestId /\ r # NoAsk
    BY <1>1, <1>7, LvAssumption
  <2>2. RefShape /\ PeerShape /\ ViewerFollowsPeer
    BY <2>1, Before
  <2>3. currentSessionId # NoAsk
    BY <1>5, <2>1, <2>2 DEF RefShape
  <2>4. RefShape'
    BY <1>1, <1>5, <2>3 DEF RefShape
  <2>5. PeerShape'
    BY <1>1, <2>2 DEF PeerShape
  <2>6. pcRef # 0 \/ fetching # {}
    BY <2>2, <2>3 DEF PeerShape
  <2>7. ViewerFollowsPeer'
    BY <1>1, <2>1, <2>2, <2>6 DEF ViewerFollowsPeer
  <2> QED  BY <2>4, <2>5, <2>7
<1> QED  BY <1>4, <1>6, <1>7 DEF LvInv, RacesAside

\* An offer that is for this viewer.
LEMMA OfferStep ==
  ASSUME LvInv, inbox # <<>>, inbox' = Tail(inbox), NEW s \in Asks, Head(inbox) = <<"sdp-offer", s>>,
         PacketFits(1, "sdp-offer", s), call[s] # "waiting", AcceptsOffer(s), ~ (currentSessionId = s /\ pcRef # 0),
         handleSdpOffer(s), UNCHANGED <<use, call, offers>>
  PROVE  LvInv'
<1>1. /\ viewerState' = "starting" /\ pendingSessionId' = s /\ currentSessionId' = s
      /\ disconnectTimer' = 0 /\ pcRef' = 0 /\ peers' = ClosedPeers /\ fetching' = fetching \cup {s}
      /\ races' = (IF Underway THEN races \cup {"overlap"} ELSE races)
      /\ UNCHANGED activeRequestId
  BY DEF handleSdpOffer, cleanupPeer, Race
<1>2. LvTypes /\ call \in [Asks -> {"none", "waiting", "over"}] /\ WireShape
  BY DEF LvInv, LvTypes
<1>3. WireShape' /\ inbox' \in Seq(Packets)
  BY <1>2, PacketTaken DEF PacketKinds
<1>4. LvTypes'
  <2>1. peers' \in Seq(PeerRecords) /\ Len(peers') = Len(peers)
    BY <1>1, <1>2, ClosedPeersFacts
  <2>2. 0 \in 0..Len(peers)
    BY <1>2, NoPeer
  <2> QED  BY <1>1, <1>2, <1>3, <2>1, <2>2 DEF LvTypes
<1>5. ASSUME races' = {} PROVE RefShape' /\ PeerShape' /\ ViewerFollowsPeer'
  <2>1. races = {} /\ ~ Underway /\ s # NoAsk
    BY <1>1, <1>5, LvAssumption
  <2>2. fetching = {} /\ \A p \in 1..Len(peers) : peers[p].state # "describing"
    BY <2>1, NotUnderway
  <2>3. PICK n \in Nat : n = Len(peers) /\ Len(peers') = n /\ \A p \in 1..n : peers'[p].state = "closed"
    BY <1>1, <1>2, <2>1, <2>2, Before, ClosesAll, ClosedPeersFacts, PeerFacts
  <2>4. fetching' = {s}
    BY <1>1, <2>2
  <2>5. activeRequestId \in {NoAsk, s} /\ use[s] = "start"
    BY DEF AcceptsOffer, PacketFits
  <2>6. RefShape'
    BY <1>1, <2>5 DEF RefShape
  <2>7. PeerShape'
    BY <1>1, <2>3, <2>4 DEF PeerShape
  <2>8. \A p \in 1..n : p # 0
    OBVIOUS
  <2>9. ViewerFollowsPeer'
    BY <1>1, <2>3, <2>4, <2>8 DEF ViewerFollowsPeer
  <2> QED  BY <2>6, <2>7, <2>9
<1> QED  BY <1>3, <1>4, <1>5 DEF LvInv, RacesAside

LEMMA ReceiveStep ==
  ASSUME LvInv, Receive
  PROVE  LvInv'
<1>1. inbox # <<>> /\ inbox' = Tail(inbox) /\ UNCHANGED <<use, offers>>
  BY DEF Receive
<1>2. PICK k \in PacketKinds, r \in Asks :
         Head(inbox) = <<k, r>> /\ PacketFits(1, k, r)
  BY <1>1, HeadPacket
<1>3. \/ k = "start-live-ack" /\ StartAcknowledged(r) /\ UNCHANGED provider
      \/ k = "live-layout-ack" /\ UpdateAcknowledged(r) /\ UNCHANGED provider
      \/ /\ k = "sdp-offer" /\ UNCHANGED call
         /\ IF AcceptsOffer(r) THEN handleSdpOffer(r) ELSE UNCHANGED <<viewerState, refs, provider, races>>
  <2>1. Head(inbox)[1] = k /\ Head(inbox)[2] = r
    BY <1>2
  <2> QED  BY <2>1 DEF Receive
<1>4. CASE k = "start-live-ack"
  <2>1. StartAcknowledged(r) /\ UNCHANGED provider
    BY <1>3, <1>4
  <2>2. CASE call[r] = "waiting"
    BY <1>1, <1>2, <1>4, <2>1, <2>2, StartAcknowledgedStep
  <2>3. CASE call[r] # "waiting"
    <3>1. UNCHANGED <<viewerState, refs, call, races>>
      BY <2>1, <2>3 DEF StartAcknowledged
    <3> QED  BY <1>1, <1>2, <1>4, <2>1, <2>3, <3>1, UnheededStep
  <2> QED  BY <2>2, <2>3
<1>5. CASE k = "live-layout-ack"
  <2>1. UpdateAcknowledged(r) /\ UNCHANGED provider
    BY <1>3, <1>5
  <2>2. CASE call[r] = "waiting"
    BY <1>1, <1>2, <1>5, <2>1, <2>2, UpdateAcknowledgedStep
  <2>3. CASE call[r] # "waiting"
    <3>1. UNCHANGED <<viewerState, refs, call, races>>
      BY <2>1, <2>3 DEF UpdateAcknowledged
    <3> QED  BY <1>1, <1>2, <1>5, <2>1, <2>3, <3>1, UnheededStep
  <2> QED  BY <2>2, <2>3
<1>6. CASE k = "sdp-offer"
  <2>1. UNCHANGED call /\ IF AcceptsOffer(r) THEN handleSdpOffer(r) ELSE UNCHANGED <<viewerState, refs, provider, races>>
    BY <1>3, <1>6
  <2>2. call[r] # "waiting" /\ use[r] = "start"
    BY <1>2, <1>6 DEF PacketFits
  <2>3. CASE ~ AcceptsOffer(r)
    <3>1. UNCHANGED <<viewerState, refs, provider, races>>
      BY <2>1, <2>3
    <3>2. races = {} => r # activeRequestId
      <4> SUFFICES ASSUME races = {}, r = activeRequestId PROVE AcceptsOffer(r)
        BY <2>3
      <4>1. pendingSessionId \in {NoAsk, r} /\ currentSessionId \in {NoAsk, r}
        BY <2>2, Before, LvAssumption DEF RefShape
      <4> QED  BY <4>1 DEF AcceptsOffer
    <3> QED  BY <1>1, <1>2, <1>6, <2>1, <2>2, <3>1, <3>2, UnheededStep
  <2>4. CASE AcceptsOffer(r) /\ currentSessionId = r /\ pcRef # 0
    <3>1. UNCHANGED <<viewerState, refs, provider, races>>
      BY <2>1, <2>4 DEF handleSdpOffer
    <3> QED  BY <1>1, <1>2, <1>6, <2>1, <2>2, <2>4, <3>1, UnheededStep
  <2>5. CASE AcceptsOffer(r) /\ ~ (currentSessionId = r /\ pcRef # 0)
    BY <1>1, <1>2, <1>6, <2>1, <2>2, <2>5, OfferStep
  <2> QED  BY <2>3, <2>4, <2>5
<1> QED  BY <1>2, <1>4, <1>5, <1>6 DEF PacketKinds

-----------------------------------------------------------------------------
(* The viewer as a whole                                                    *)

LEMMA LvStepInv ==
  ASSUME LvInv, LvNext
  PROVE  LvInv'
BY startLiveStep, updateLiveLayoutStep, StartFailsStep, UpdateFailsStep, IceConfigArrivesStep,
   IceConfigFailsStep, DeviceAcknowledgesStep, DeviceOffersStep, AnswerStep, AnswerFailsStep,
   PeerConnectsStep, PeerDisconnectsStep, PeerFailsStep, stopLiveStep, DisconnectTimeoutStep, ReceiveStep
   DEF LvNext

LEMMA LvRests == LvInv /\ UNCHANGED lvVars => LvInv'
<1> SUFFICES ASSUME LvInv, UNCHANGED lvVars PROVE LvInv'
  OBVIOUS
<1>1. UNCHANGED <<viewerState, activeRequestId, pendingSessionId, currentSessionId, pcRef, peers,
                  fetching, disconnectTimer, use, call, offers, inbox, races>>
  BY DEF lvVars
<1>2. LvTypes'
  BY <1>1 DEF LvInv, LvTypes
<1>3. WireShape'
  BY <1>1, RemoteKept DEF remote
<1>4. OfferIsComing(activeRequestId)' <=> OfferIsComing(activeRequestId)
  BY <1>1 DEF OfferIsComing
<1> QED  BY <1>1, <1>2, <1>3, <1>4, PacketIgnored

LEMMA LvInvTypes == LvInv => LvTypeOK
BY DEF LvInv, LvTypes, LvTypeOK, PeerRecords, PeerStates

LEMMA LvInvFollows == LvInv => ViewerFollowsPeer
BY DEF LvInv, RacesAside, ViewerFollowsPeer

-----------------------------------------------------------------------------
(* The camera wall                                                          *)

\* Nothing twice in a list.
Distinct(s) == \A i, j \in 1..Len(s) : s[i] = s[j] => i = j

\* The wall's state: the enabled cameras, each once, and no more than there are.
LlInv ==
  /\ enabledCameras \in Seq(Cameras) /\ Distinct(enabledCameras)
  /\ Len(enabledCameras) <= Cardinality(Cameras)
  /\ layoutMode \in DOMAIN Capacity
  /\ layoutStartIndex \in 0..Cardinality(Cameras)
  /\ selectedCamera \in Cameras \cup {0}

LEMMA TwoOf ==
  ASSUME NEW a \in Int, NEW b \in Int
  PROVE  /\ Min({a, b}) = IF a <= b THEN a ELSE b
         /\ Max({a, b}) = IF a <= b THEN b ELSE a
<1>1. \A x \in {a, b} : (\A y \in {a, b} : x <= y) <=> x = IF a <= b THEN a ELSE b
  OBVIOUS
<1>2. \A x \in {a, b} : (\A y \in {a, b} : x >= y) <=> x = IF a <= b THEN b ELSE a
  OBVIOUS
<1>3. (IF a <= b THEN a ELSE b) \in {a, b} /\ (IF a <= b THEN b ELSE a) \in {a, b}
  OBVIOUS
<1> QED  BY <1>1, <1>2, <1>3 DEF Min, Max

\* Every set of cameras has its members in their order.
Increasing(s, n) == \A i, j \in 1..n : i < j => s[i] < s[j]

LEMMA ListedExists ==
  ASSUME NEW S \in SUBSET Cameras
  PROVE  \E s \in [1..Cardinality(S) -> S] : Increasing(s, Cardinality(S))
<1> DEFINE Lists(T) == \E s \in [1..Cardinality(T) -> T] : Increasing(s, Cardinality(T))
           Bad == {n \in Nat : \E T \in SUBSET Cameras : Cardinality(T) = n /\ ~ Lists(T)}
<1>1. \A T \in SUBSET Cameras : IsFiniteSet(T) /\ Cardinality(T) \in Nat /\ T \subseteq Nat
  BY LlAssumption, FS_Subset, FS_CardinalityType
<1>2. Bad = {}
  <2> SUFFICES ASSUME Bad # {} PROVE FALSE
    OBVIOUS
  <2>1. Bad \subseteq Nat
    OBVIOUS
  <2> DEFINE n == LeastOf(Bad)
  <2>2. n \in Bad /\ \A m \in Bad : n <= m
    BY <2>1, LeastFacts
  <2>3. PICK T \in SUBSET Cameras : Cardinality(T) = n /\ ~ Lists(T)
    BY <2>2
  <2>4. n \in Nat
    BY <2>2
  <2> HIDE DEF n
  <2>5. T # {}
    <3> SUFFICES ASSUME T = {} PROVE Lists(T)
      BY <2>3
    <3>1. Cardinality(T) = 0
      BY FS_EmptySet
    <3>2. 1..0 = {} /\ [i \in 1..0 |-> i] \in [1..0 -> T]
      OBVIOUS
    <3> QED  BY <3>1, <3>2 DEF Increasing
  <2> DEFINE x == LeastOf(T)
             R == T \ {x}
  <2>6. x \in T /\ \A y \in T : x <= y
    BY <1>1, <2>5, LeastFacts
  <2>7. x \in Nat /\ T \subseteq Nat
    BY <1>1, <2>6
  <2> HIDE DEF x
  <2>8. Cardinality(R) = n - 1 /\ R \in SUBSET Cameras
    BY <1>1, <2>3, <2>6, FS_RemoveElement
  <2>9. Cardinality(R) \in Nat
    BY <1>1, <2>8
  <2>10. n - 1 \notin Bad
    BY <2>2, <2>4
  <2>11. Lists(R)
    BY <2>8, <2>9, <2>10
  <2>12. PICK s \in [1..(n - 1) -> R] : Increasing(s, n - 1)
    BY <2>8, <2>11
  <2> DEFINE t == [i \in 1..n |-> IF i = 1 THEN x ELSE s[i - 1]]
  <2>13. \A i \in 1..n : i # 1 => i - 1 \in 1..(n - 1)
    BY <2>4
  <2>14. t \in [1..n -> T]
    BY <2>6, <2>12, <2>13
  <2>15. Increasing(t, n)
    <3> SUFFICES ASSUME NEW i \in 1..n, NEW j \in 1..n, i < j PROVE t[i] < t[j]
      BY DEF Increasing
    <3>1. j # 1 /\ t[j] = s[j - 1] /\ j - 1 \in 1..(n - 1)
      BY <2>13
    <3>2. CASE i = 1
      <4>1. t[i] = x /\ s[j - 1] \in R
        BY <2>12, <3>1, <3>2
      <4>2. PICK y \in T : y = s[j - 1] /\ y # x
        BY <4>1
      <4>3. x < y
        BY <2>6, <2>7, <4>2
      <4> HIDE DEF t
      <4> QED  BY <3>1, <4>1, <4>2, <4>3
    <3>3. CASE i # 1
      <4>1. t[i] = s[i - 1] /\ i - 1 \in 1..(n - 1) /\ i - 1 < j - 1
        BY <2>13, <3>3
      <4> HIDE DEF t
      <4> QED  BY <2>12, <3>1, <4>1 DEF Increasing
    <3> QED  BY <3>2, <3>3
  <2> HIDE DEF t
  <2> QED  BY <2>3, <2>14, <2>15
<1> QED  BY <1>1, <1>2

LEMMA ListedFacts ==
  ASSUME NEW S \in SUBSET Cameras
  PROVE  Listed[S] \in Seq(Cameras) /\ Distinct(Listed[S]) /\ Len(Listed[S]) <= Cardinality(Cameras)
<1> DEFINE n == Cardinality(S)
<1>1. n \in Nat /\ n <= Cardinality(Cameras) /\ Cameras \subseteq Nat /\ Cardinality(Cameras) \in Nat
  BY LlAssumption, FS_Subset, FS_CardinalityType
<1>2. PICK l : l = Listed[S] /\ l = CHOOSE s \in [1..n -> S] : \A i, j \in 1..n : i < j => s[i] < s[j]
  BY DEF Listed
<1>3. \E s \in [1..n -> S] : \A i, j \in 1..n : i < j => s[i] < s[j]
  BY ListedExists DEF Increasing
<1>4. l \in [1..n -> S] /\ \A i, j \in 1..n : i < j => l[i] < l[j]
  BY <1>2, <1>3
<1> HIDE DEF n
<1>5. l \in Seq(Cameras) /\ Len(l) = n
  <2>1. l \in [1..n -> Cameras]
    BY <1>4
  <2>2. PICK f \in [1..n -> Cameras] : f = l
    BY <2>1
  <2>3. f \in Seq(Cameras) /\ Len(f) = n
    BY <1>1
  <2> QED  BY <2>2, <2>3
<1>6. \A i \in 1..n : l[i] \in Nat
  BY <1>1, <1>4
<1>7. Distinct(l)
  <2> SUFFICES ASSUME NEW i \in 1..n, NEW j \in 1..n, l[i] = l[j] PROVE i = j
    BY <1>5 DEF Distinct
  <2>1. ~ (l[i] < l[j]) /\ ~ (l[j] < l[i])
    BY <1>6
  <2>2. ~ (i < j) /\ ~ (j < i)
    BY <1>4, <2>1
  <2> QED  BY <1>1, <2>2
<1> QED  BY <1>1, <1>2, <1>5, <1>7

\* Where a page may start.
LEMMA ClampFacts ==
  ASSUME NEW x \in Int, NEW n \in Nat, NEW mode \in DOMAIN Capacity
  PROVE  LET k == Capacity[mode]
             c == clampLiveLayoutStartIndex(x, n, mode)
         IN  /\ k \in Nat /\ k # 0 /\ c \in Nat /\ c <= n
             /\ n <= k => c = 0
             /\ n > k => /\ c <= n - k
                         /\ c = IF x < 0 THEN 0 ELSE IF x <= n - k THEN x ELSE n - k
<1>1. PICK k \in Nat \ {0} : k = Capacity[mode]
  BY LlAssumption
<1>2. CASE n <= k
  BY <1>1, <1>2 DEF clampLiveLayoutStartIndex
<1>3. CASE n > k
  <2>1. PICK a \in Int : a = Max({0, x}) /\ a = IF 0 <= x THEN x ELSE 0
    BY TwoOf
  <2>2. PICK b \in Int : b = Max({0, n - k}) /\ b = n - k
    <3>1. PICK d \in Int : d = n - k /\ 0 <= d
      BY <1>1, <1>3
    <3>2. Max({0, d}) = IF 0 <= d THEN d ELSE 0
      BY TwoOf
    <3>3. Max({0, d}) = d
      BY <3>1, <3>2
    <3> QED  BY <3>1, <3>3
  <2>3. Min({a, b}) = IF a <= b THEN a ELSE b
    BY TwoOf
  <2>4. ~ (n <= k) /\ clampLiveLayoutStartIndex(x, n, mode) = Min({a, b})
    BY <1>1, <1>3, <2>1, <2>2 DEF clampLiveLayoutStartIndex
  <2>5. PICK c : c = clampLiveLayoutStartIndex(x, n, mode) /\ c = IF a <= b THEN a ELSE b
    BY <2>3, <2>4
  <2>6. /\ c \in Nat /\ c <= n /\ c <= n - k
        /\ c = IF x < 0 THEN 0 ELSE IF x <= n - k THEN x ELSE n - k
    BY <1>1, <1>3, <2>1, <2>2, <2>5
  <2> QED  BY <1>1, <1>3, <2>4, <2>5, <2>6
<1> QED  BY <1>1, <1>2, <1>3

\* The page that starts there.
LEMMA VisibleFacts ==
  ASSUME NEW l \in Seq(Cameras), NEW x \in Int, NEW mode \in DOMAIN Capacity
  PROVE  LET c == clampLiveLayoutStartIndex(x, Len(l), mode)
             v == getVisibleLayoutCameras(l, x, mode)
         IN  /\ v \in Seq(Cameras) /\ Len(v) = IF Len(l) <= Capacity[mode] THEN Len(l) ELSE Capacity[mode]
             /\ c + Len(v) <= Len(l)
             /\ \A i \in 1..Len(v) : c + i \in 1..Len(l) /\ v[i] = l[c + i]
<1> DEFINE n == Len(l)
           c == clampLiveLayoutStartIndex(x, n, mode)
           k == Capacity[mode]
           v == getVisibleLayoutCameras(l, x, mode)
           m == IF n <= k THEN n ELSE c + k
<1>1. n \in Nat /\ \A i \in 1..n : l[i] \in Cameras
  OBVIOUS
<1>2. k \in Nat /\ k # 0 /\ c \in Nat /\ c <= n /\ (n <= k => c = 0) /\ (n > k => c <= n - k)
  BY <1>1, ClampFacts
<1>3. v = SubSeq(l, c + 1, Min({c + k, n}))
  BY DEF getVisibleLayoutCameras
<1> HIDE DEF n, c, k, v
<1>4. Min({c + k, n}) = m /\ m \in Int /\ m <= n
  <2>1. Min({c + k, n}) = IF c + k <= n THEN c + k ELSE n
    BY <1>1, <1>2, TwoOf
  <2> QED  BY <1>1, <1>2, <2>1
<1>5. m - (c + 1) + 1 = (IF n <= k THEN n ELSE k) /\ (IF c + 1 <= m THEN m - (c + 1) + 1 ELSE 0) = IF n <= k THEN n ELSE k
  BY <1>1, <1>2
<1>6. c + (IF n <= k THEN n ELSE k) <= n /\ \A i \in 1..(m - (c + 1) + 1) : (c + 1) + i - 1 = c + i /\ c + i \in 1..n
  BY <1>1, <1>2
<1> HIDE DEF m
<1>7. c + 1 \in Int /\ \A i \in (c + 1)..m : l[i] \in Cameras
  BY <1>1, <1>2, <1>4
<1>8. /\ v \in Seq(Cameras) /\ Len(v) = (IF c + 1 <= m THEN m - (c + 1) + 1 ELSE 0)
      /\ \A i \in 1..(m - (c + 1) + 1) : v[i] = l[(c + 1) + i - 1]
  <2>1. v = SubSeq(l, c + 1, m)
    BY <1>3, <1>4
  <2>2. PICK a \in Int : a = c + 1
    BY <1>7
  <2>3. \A i \in a..m : l[i] \in Cameras
    BY <1>7, <2>2
  <2>4. /\ SubSeq(l, a, m) \in Seq(Cameras) /\ Len(SubSeq(l, a, m)) = (IF a <= m THEN m - a + 1 ELSE 0)
        /\ \A i \in 1..(m - a + 1) : SubSeq(l, a, m)[i] = l[a + i - 1]
    BY <1>4, <2>3, SubSeqProperties
  <2> QED  BY <2>1, <2>2, <2>4
<1>9. Len(v) = IF n <= k THEN n ELSE k
  BY <1>5, <1>8
<1>10. \A i \in 1..Len(v) : c + i \in 1..n /\ v[i] = l[c + i]
  BY <1>5, <1>6, <1>8, <1>9
<1> QED  BY <1>6, <1>8, <1>9, <1>10 DEF n, c, k, v

\* The place of a camera in a list.
LEMMA IndexFacts ==
  ASSUME NEW l \in Seq(Cameras), NEW x
  PROVE  /\ IndexOf(l, x) \in 0..Len(l)
         /\ IndexOf(l, x) # 0 => l[IndexOf(l, x)] = x
         /\ IndexOf(l, x) = 0 <=> ~ \E i \in 1..Len(l) : l[i] = x
<1>1. Len(l) \in Nat
  OBVIOUS
<1>2. CASE \E i \in 1..Len(l) : l[i] = x
  <2>1. IndexOf(l, x) \in 1..Len(l) /\ l[IndexOf(l, x)] = x
    BY <1>2 DEF IndexOf
  <2> QED  BY <1>1, <1>2, <2>1
<1>3. CASE ~ \E i \in 1..Len(l) : l[i] = x
  BY <1>1, <1>3 DEF IndexOf
<1> QED  BY <1>2, <1>3

LEMMA WallTypes ==
  ASSUME LlInv
  PROVE  /\ enabledCameras \in Seq(Cameras) /\ Len(enabledCameras) \in Nat
         /\ Len(enabledCameras) <= Cardinality(Cameras) /\ Cardinality(Cameras) \in Nat
         /\ layoutMode \in DOMAIN Capacity /\ layoutStartIndex \in Int
         /\ Capacity[layoutMode] \in Nat /\ Capacity[layoutMode] # 0
         /\ \A i \in 1..Len(enabledCameras) : enabledCameras[i] \in Cameras /\ enabledCameras[i] # 0
<1>1. enabledCameras \in Seq(Cameras) /\ layoutMode \in DOMAIN Capacity
  BY DEF LlInv
<1>2. Cardinality(Cameras) \in Nat
  BY LlAssumption, FS_CardinalityType
<1>3. Len(enabledCameras) \in Nat /\ \A i \in 1..Len(enabledCameras) : enabledCameras[i] \in Cameras
  BY <1>1
<1> QED  BY <1>1, <1>2, <1>3, LlAssumption DEF LlInv

\* The camera selected is an enabled one, as long as there is one.
LEMMA SelectedFacts ==
  ASSUME LlInv
  PROVE  /\ Len(enabledCameras) = 0 => selectedCameraName = 0
         /\ Len(enabledCameras) > 0 =>
              /\ selectedCameraName # 0 /\ selectedCameraName \in Cameras
              /\ \E k \in 1..Len(enabledCameras) : enabledCameras[k] = selectedCameraName
<1>1. /\ enabledCameras \in Seq(Cameras) /\ Len(enabledCameras) \in Nat
      /\ \A i \in 1..Len(enabledCameras) : enabledCameras[i] \in Cameras /\ enabledCameras[i] # 0
  BY WallTypes
<1>2. CASE IndexOf(enabledCameras, selectedCamera) # 0
  <2>1. PICK k \in 1..Len(enabledCameras) : enabledCameras[k] = selectedCamera
    BY <1>1, <1>2, IndexFacts
  <2> QED  BY <1>1, <1>2, <2>1 DEF selectedCameraName
<1>3. CASE IndexOf(enabledCameras, selectedCamera) = 0
  <2>1. CASE enabledCameras = <<>>
    BY <1>3, <2>1 DEF selectedCameraName
  <2>2. CASE enabledCameras # <<>>
    <3>1. Len(enabledCameras) # 0 /\ 1 \in 1..Len(enabledCameras)
      BY <1>1, <2>2, EmptySeq
    <3> QED  BY <1>1, <1>3, <2>2, <3>1 DEF selectedCameraName
  <2> QED  BY <2>1, <2>2
<1> QED  BY <1>2, <1>3

\* Whole pages.
LEMMA WholePages ==
  ASSUME NEW n \in Nat, NEW k \in Nat \ {0}
  PROVE  n \div k \in Nat /\ (n \div k) * k \in Nat /\ (n \div k) * k <= n /\ n < (n \div k) * k + k
<1>1. n \div k \in Int /\ n \div k >= 0
  OBVIOUS
<1>2. (n \div k) * k <= n /\ n < (n \div k) * k + k
  OBVIOUS
<1>3. PICK d \in Nat : d = n \div k
  BY <1>1
<1>4. d * k \in Nat
  OBVIOUS
<1> QED  BY <1>1, <1>2, <1>3, <1>4

LEMMA NextPage ==
  ASSUME NEW m \in Nat, NEW n \in Nat, NEW k \in Nat \ {0}, m + k <= n
  PROVE  (m \div k) + 1 <= n \div k
OBVIOUS

\* The page of an enabled camera has it.
LEMMA PageOfCamera ==
  ASSUME NEW l \in Seq(Cameras), NEW x, NEW mode \in DOMAIN Capacity
  PROVE  LET p == getPageStartForCamera(x, l, mode) IN
         /\ p \in Nat /\ p <= Len(l) /\ (Len(l) <= Capacity[mode] => p = 0)
         /\ Len(l) > Capacity[mode] => p <= Len(l) - Capacity[mode]
         /\ Len(l) > Capacity[mode] /\ IndexOf(l, x) # 0 =>
              p + 1 <= IndexOf(l, x) /\ IndexOf(l, x) <= p + Capacity[mode]
<1>1. PICK n \in Nat : n = Len(l)
  OBVIOUS
<1>2. PICK k \in Nat \ {0} : k = Capacity[mode]
  BY LlAssumption
<1>3. PICK i \in 0..n : i = IndexOf(l, x)
  BY <1>1, IndexFacts
<1>4. PICK p : p = getPageStartForCamera(x, l, mode)
                /\ p = IF i = 0 THEN 0 ELSE clampLiveLayoutStartIndex(((i - 1) \div k) * k, n, mode)
  BY <1>1, <1>2, <1>3 DEF getPageStartForCamera
<1>5. CASE i = 0
  <2>1. p = 0
    BY <1>4, <1>5
  <2> QED  BY <1>1, <1>2, <1>3, <1>4, <1>5, <2>1
<1>6. CASE i # 0
  <2>1. PICK j \in Nat : j = i - 1
    BY <1>3, <1>6
  <2>2. PICK q \in Nat : q = (j \div k) * k /\ q <= j /\ j < q + k
    BY WholePages
  <2>3. p = clampLiveLayoutStartIndex(q, n, mode)
    BY <1>4, <1>6, <2>1, <2>2
  <2>4. /\ p \in Nat /\ p <= n /\ (n <= k => p = 0)
        /\ n > k => p <= n - k /\ p = IF q < 0 THEN 0 ELSE IF q <= n - k THEN q ELSE n - k
    <3>1. q \in Int
      BY <2>2
    <3>2. PICK c : c = clampLiveLayoutStartIndex(q, n, mode)
      OBVIOUS
    <3>3. /\ c \in Nat /\ c <= n /\ (n <= Capacity[mode] => c = 0)
          /\ n > Capacity[mode] => /\ c <= n - Capacity[mode]
                                   /\ c = IF q < 0 THEN 0 ELSE IF q <= n - Capacity[mode] THEN q ELSE n - Capacity[mode]
      BY <1>1, <3>1, <3>2, ClampFacts
    <3> QED  BY <1>2, <2>3, <3>2, <3>3
  <2>5. n > k => p + 1 <= i /\ i <= p + k
    <3>1. q \in Nat /\ q <= j /\ j < q + k /\ j = i - 1 /\ n \in Nat /\ k \in Nat /\ i \in 0..n
      BY <1>1, <1>2, <1>3, <2>1, <2>2
    <3> QED  BY <2>4, <3>1
  <2> QED  BY <1>1, <1>2, <1>3, <1>4, <2>4, <2>5
<1> QED  BY <1>5, <1>6

\* The page shown starts where a page may start, and has the camera selected.
SafeStart(p) ==
  /\ p \in Nat /\ p <= Len(enabledCameras)
  /\ Len(enabledCameras) <= Capacity[layoutMode] => p = 0
  /\ Len(enabledCameras) > Capacity[layoutMode] => p <= Len(enabledCameras) - Capacity[layoutMode]

LEMMA ClampKeeps ==
  ASSUME LlInv, NEW p, SafeStart(p)
  PROVE  clampLiveLayoutStartIndex(p, Len(enabledCameras), layoutMode) = p
<1>1. /\ Len(enabledCameras) \in Nat /\ layoutMode \in DOMAIN Capacity /\ p \in Int /\ p \in Nat
      /\ Capacity[layoutMode] \in Nat
  BY WallTypes DEF SafeStart
<1>2. PICK c : c = clampLiveLayoutStartIndex(p, Len(enabledCameras), layoutMode)
  OBVIOUS
<1>3. /\ Len(enabledCameras) <= Capacity[layoutMode] => c = 0
      /\ Len(enabledCameras) > Capacity[layoutMode] =>
           c = IF p < 0 THEN 0 ELSE IF p <= Len(enabledCameras) - Capacity[layoutMode] THEN p
               ELSE Len(enabledCameras) - Capacity[layoutMode]
  BY <1>1, <1>2, ClampFacts
<1> QED  BY <1>1, <1>2, <1>3 DEF SafeStart

LEMMA SafePage ==
  ASSUME LlInv
  PROVE  /\ SafeStart(safeLayoutStartIndex)
         /\ Len(enabledCameras) > 0 =>
              \E i \in 1..Len(getVisibleLayoutCameras(enabledCameras, safeLayoutStartIndex, layoutMode)) :
                 getVisibleLayoutCameras(enabledCameras, safeLayoutStartIndex, layoutMode)[i] = selectedCameraName
<1>1. /\ enabledCameras \in Seq(Cameras) /\ Len(enabledCameras) \in Nat /\ layoutMode \in DOMAIN Capacity
      /\ layoutStartIndex \in Int /\ Capacity[layoutMode] \in Nat /\ Capacity[layoutMode] # 0
  BY WallTypes
<1> DEFINE E == enabledCameras
           n == Len(enabledCameras)
           k == Capacity[layoutMode]
           base == clampLiveLayoutStartIndex(layoutStartIndex, n, layoutMode)
           page == getPageStartForCamera(selectedCameraName, E, layoutMode)
           V(x) == getVisibleLayoutCameras(E, x, layoutMode)
           lost == selectedCameraName # 0 /\ IndexOf(V(base), selectedCameraName) = 0
<1>2. safeLayoutStartIndex = IF lost THEN page ELSE base
  BY DEF safeLayoutStartIndex
<1>3. SafeStart(base)
  BY <1>1, ClampFacts DEF SafeStart
<1>4. SafeStart(page)
  BY <1>1, PageOfCamera DEF SafeStart
<1>5. ASSUME NEW p, SafeStart(p)
      PROVE  /\ V(p) \in Seq(Cameras) /\ Len(V(p)) = (IF n <= k THEN n ELSE k)
             /\ \A i \in 1..Len(V(p)) : p + i \in 1..n /\ V(p)[i] = E[p + i]
  <2>1. p \in Int /\ clampLiveLayoutStartIndex(p, n, layoutMode) = p
    BY <1>5, ClampKeeps DEF SafeStart
  <2> QED  BY <1>1, <2>1, VisibleFacts
<1>6. ASSUME n > 0 PROVE \E i \in 1..Len(V(safeLayoutStartIndex)) : V(safeLayoutStartIndex)[i] = selectedCameraName
  <2>1. selectedCameraName # 0 /\ \E j \in 1..n : E[j] = selectedCameraName
    BY <1>1, <1>6, SelectedFacts
  <2>2. CASE ~ lost
    <3>1. IndexOf(V(base), selectedCameraName) # 0
      BY <2>1, <2>2
    <3>2. \E i \in 1..Len(V(base)) : V(base)[i] = selectedCameraName
      BY <1>3, <1>5, <3>1, IndexFacts
    <3>3. safeLayoutStartIndex = base
      BY <1>2, <2>2
    <3> HIDE DEF base, V
    <3> QED  BY <3>2, <3>3
  <2>3. CASE lost
    <3>1. safeLayoutStartIndex = page
      BY <1>2, <2>3
    <3>2. PICK j \in 1..n : j = IndexOf(E, selectedCameraName) /\ E[j] = selectedCameraName
      BY <1>1, <2>1, IndexFacts
    <3>3. n > k => page + 1 <= j /\ j <= page + k
      BY <1>1, <3>2, PageOfCamera
    <3>4. page \in Nat /\ (n <= k => page = 0)
      BY <1>4 DEF SafeStart
    <3> HIDE DEF page, base, V, lost
    <3>5. PICK i \in 1..(IF n <= k THEN n ELSE k) : page + i = j
      <4>1. j - page \in 1..(IF n <= k THEN n ELSE k) /\ page + (j - page) = j
        BY <1>1, <3>2, <3>3, <3>4
      <4> QED  BY <4>1
    <3>6. i \in 1..Len(V(page)) /\ V(page)[i] = selectedCameraName
      BY <1>4, <1>5, <3>2, <3>5
    <3> QED  BY <3>1, <3>6
  <2> QED  BY <2>2, <2>3
<1>7. SafeStart(safeLayoutStartIndex)
  BY <1>2, <1>3, <1>4
<1> QED  BY <1>6, <1>7

\* The page as it is shown: the same cameras, the one selected first.
LEMMA ReorderFacts ==
  ASSUME NEW v \in Seq(Cameras), Distinct(v), NEW x \in Cameras, \E i \in 1..Len(v) : v[i] = x
  PROVE  LET t == reorderVisibleCameras(v, x) IN
         /\ t \in Seq(Cameras) /\ Len(t) = Len(v) /\ Distinct(t) /\ t[1] = x
         /\ \A i \in 1..Len(t) : \E j \in 1..Len(v) : t[i] = v[j]
         /\ \A j \in 1..Len(v) : \E i \in 1..Len(t) : t[i] = v[j]
<1>1. PICK n \in Nat : n = Len(v)
  OBVIOUS
<1>2. PICK k \in 1..n : k = IndexOf(v, x) /\ v[k] = x
  BY <1>1, IndexFacts
<1>3. CASE k = 1
  <2>1. reorderVisibleCameras(v, x) = v
    BY <1>2, <1>3 DEF reorderVisibleCameras
  <2> QED  BY <1>1, <1>2, <1>3, <2>1
<1>4. CASE k # 1
  <2> DEFINE u == RemoveAt(v, k)
             t == <<x>> \o u
             at == [i \in 1..n |-> IF i = 1 THEN k ELSE IF i - 1 < k THEN i - 1 ELSE i]
  <2>1. ~ (k <= 1)
    BY <1>2, <1>4
  <2>2. reorderVisibleCameras(v, x) = t
    BY <1>2, <2>1 DEF reorderVisibleCameras
  <2>3. u \in Seq(Cameras) /\ Len(u) = n - 1 /\ \A j \in 1..Len(u) : u[j] = IF j < k THEN v[j] ELSE v[j + 1]
    <3>1. k \in 1..Len(v)
      BY <1>1, <1>2
    <3> QED  BY <1>1, <3>1, WithoutFacts DEF RemoveAt
  <2> HIDE DEF u
  <2>4. <<x>> \in Seq(Cameras) /\ Len(<<x>>) = 1 /\ <<x>>[1] = x
    OBVIOUS
  <2>5. /\ t \in Seq(Cameras) /\ Len(t) = n /\ t[1] = x
        /\ \A i \in 1..n : i # 1 => t[i] = u[i - 1]
    BY <1>1, <2>3, <2>4, ConcatProperties
  <2> HIDE DEF t
  <2>6. \A i \in 1..n : at[i] \in 1..n /\ t[i] = v[at[i]]
    <3> SUFFICES ASSUME NEW i \in 1..n PROVE at[i] \in 1..n /\ t[i] = v[at[i]]
      OBVIOUS
    <3>1. at[i] \in 1..n
      BY <1>1, <1>2
    <3>2. CASE i = 1
      BY <1>2, <2>5, <3>1, <3>2
    <3>3. CASE i # 1
      <4>1. i - 1 \in 1..Len(u) /\ (i - 1) + 1 = i
        BY <1>1, <2>3, <3>3
      <4>2. u[i - 1] = IF i - 1 < k THEN v[i - 1] ELSE v[i]
        BY <2>3, <4>1
      <4> QED  BY <2>5, <3>3, <4>2
    <3> QED  BY <3>1, <3>2, <3>3
  <2>7. \A i, j \in 1..n : at[i] = at[j] => i = j
    BY <1>1, <1>2, <1>4
  <2>8. \A j \in 1..n : \E i \in 1..n : at[i] = j
    <3> SUFFICES ASSUME NEW j \in 1..n PROVE \E i \in 1..n : at[i] = j
      OBVIOUS
    <3>1. CASE j = k
      <4>1. 1 \in 1..n /\ at[1] = j
        BY <1>1, <1>2, <3>1
      <4> HIDE DEF at
      <4> QED  BY <4>1
    <3>2. CASE j < k
      <4>1. j + 1 \in 1..n /\ at[j + 1] = j
        BY <1>1, <1>2, <3>2
      <4> HIDE DEF at
      <4> QED  BY <4>1
    <3>3. CASE j > k
      <4>1. at[j] = j
        BY <1>1, <1>2, <1>4, <3>3
      <4> HIDE DEF at
      <4> QED  BY <4>1
    <3> QED  BY <1>1, <1>2, <3>1, <3>2, <3>3
  <2> HIDE DEF at
  <2>9. Distinct(t)
    <3> SUFFICES ASSUME NEW i \in 1..n, NEW j \in 1..n, t[i] = t[j] PROVE i = j
      BY <2>5 DEF Distinct
    <3>1. at[i] = at[j]
      BY <1>1, <2>6 DEF Distinct
    <3> QED  BY <2>7, <3>1
  <2>10. \A i \in 1..Len(t) : \E j \in 1..Len(v) : t[i] = v[j]
    BY <1>1, <2>5, <2>6
  <2>11. \A j \in 1..Len(v) : \E i \in 1..Len(t) : t[i] = v[j]
    <3> SUFFICES ASSUME NEW j \in 1..n PROVE \E i \in 1..n : t[i] = v[j]
      BY <1>1, <2>5
    <3>1. PICK i \in 1..n : at[i] = j
      BY <2>8
    <3>2. t[i] = v[at[i]]
      BY <2>6
    <3> QED  BY <3>1, <3>2
  <2> QED  BY <1>1, <2>2, <2>5, <2>9, <2>10, <2>11
<1> QED  BY <1>3, <1>4

\* A list without repetition has as many members as it is long.
LEMMA DistinctCount ==
  ASSUME NEW v \in Seq(Cameras), Distinct(v)
  PROVE  Cardinality(Range(v)) = Len(v)
<1>1. PICK n \in Nat : n = Len(v)
  OBVIOUS
<1>2. DOMAIN v = 1..n /\ Range(v) = {v[i] : i \in 1..n}
  BY <1>1 DEF Range
<1>3. v \in [1..n -> Range(v)]
  BY <1>1, <1>2
<1>4. v \in Bijection(1..n, Range(v))
  <2>1. v \in Injection(1..n, Range(v))
    BY <1>1, <1>3 DEF Injection, IsInjective, Distinct
  <2>2. v \in Surjection(1..n, Range(v))
    BY <1>2, <1>3 DEF Surjection
  <2> QED  BY <2>1, <2>2 DEF Bijection
<1>5. ExistsBijection(1..n, Range(v))
  BY <1>4 DEF ExistsBijection
<1>6. IsFiniteSet(1..n) /\ Cardinality(1..n) = n
  BY FS_Interval
<1> QED  BY <1>1, <1>5, <1>6, FS_Bijection

\* What the wall shows, of the list of the enabled cameras.
LEMMA ShownFacts ==
  ASSUME LlInv
  PROVE  LET n == Len(enabledCameras)
             k == Capacity[layoutMode]
         IN  /\ visibleCameras \in Seq(Cameras) /\ Distinct(visibleCameras)
             /\ Len(visibleCameras) = IF n <= k THEN n ELSE k
             /\ n > 0 => visibleCameras[1] = selectedCameraName
             /\ \A x \in Range(visibleCameras) : \E i \in 1..n : enabledCameras[i] = x
             /\ \A i \in 1..Len(visibleCameras) : enabledCameras[safeLayoutStartIndex + i] \in Range(visibleCameras)
<1> DEFINE E == enabledCameras
           n == Len(E)
           k == Capacity[layoutMode]
<1>1. /\ E \in Seq(Cameras) /\ n \in Nat /\ layoutMode \in DOMAIN Capacity /\ k \in Nat /\ k # 0 /\ Distinct(E)
  BY WallTypes DEF LlInv
<1>2. PICK p \in Nat : p = safeLayoutStartIndex /\ SafeStart(p)
  BY SafePage DEF SafeStart
<1>3. PICK v : v = getVisibleLayoutCameras(E, p, layoutMode)
  OBVIOUS
<1>4. /\ v \in Seq(Cameras) /\ Len(v) = (IF n <= k THEN n ELSE k)
      /\ \A i \in 1..Len(v) : p + i \in 1..n /\ v[i] = E[p + i]
  <2>1. p \in Int /\ clampLiveLayoutStartIndex(p, n, layoutMode) = p
    BY <1>2, ClampKeeps
  <2> QED  BY <1>1, <1>3, <2>1, VisibleFacts
<1>5. Distinct(v)
  <2> SUFFICES ASSUME NEW i \in 1..Len(v), NEW j \in 1..Len(v), v[i] = v[j] PROVE i = j
    BY DEF Distinct
  <2>1. p + i = p + j
    BY <1>1, <1>4 DEF Distinct
  <2>2. i \in Int /\ j \in Int
    BY <1>1, <1>4
  <2> QED  BY <1>2, <2>1, <2>2
<1>6. visibleCameras = reorderVisibleCameras(v, selectedCameraName)
  BY <1>2, <1>3 DEF visibleCameras
<1>7. CASE n = 0
  <2>1. Len(v) = 0 /\ IndexOf(v, selectedCameraName) = 0
    <3>1. Len(v) = 0
      BY <1>1, <1>4, <1>7
    <3>2. ~ \E i \in 1..Len(v) : v[i] = selectedCameraName
      BY <3>1
    <3>3. IndexOf(v, selectedCameraName) = 0
      BY <3>2 DEF IndexOf
    <3> QED  BY <3>1, <3>3
  <2>2. visibleCameras = v
    BY <1>6, <2>1 DEF reorderVisibleCameras
  <2>3. Range(v) = {}
    BY <1>4, <2>1 DEF Range
  <2> HIDE DEF n, k
  <2> QED  BY <1>1, <1>4, <1>5, <1>7, <2>1, <2>2, <2>3 DEF n, k
<1>8. CASE n > 0
  <2>1. PICK x \in Cameras : x = selectedCameraName
    BY <1>8, SelectedFacts
  <2>2. \E i \in 1..Len(v) : v[i] = x
    BY <1>2, <1>3, <1>8, <2>1, SafePage
  <2>3. PICK t : t = visibleCameras
    OBVIOUS
  <2>4. /\ t \in Seq(Cameras) /\ Len(t) = Len(v) /\ Distinct(t) /\ t[1] = x
        /\ \A i \in 1..Len(t) : \E j \in 1..Len(v) : t[i] = v[j]
        /\ \A j \in 1..Len(v) : \E i \in 1..Len(t) : t[i] = v[j]
    BY <1>4, <1>5, <1>6, <2>1, <2>2, <2>3, ReorderFacts, ZenonT(30)
  <2>5. \A y : y \in Range(t) <=> \E i \in 1..Len(t) : t[i] = y
    BY <2>4 DEF Range
  <2>6. \A y \in Range(t) : \E i \in 1..n : E[i] = y
    <3> SUFFICES ASSUME NEW y \in Range(t) PROVE \E i \in 1..n : E[i] = y
      OBVIOUS
    <3>1. PICK i \in 1..Len(t) : t[i] = y
      BY <2>5
    <3>2. PICK j \in 1..Len(v) : t[i] = v[j]
      BY <2>4
    <3>3. p + j \in 1..n /\ v[j] = E[p + j]
      BY <1>4
    <3> QED  BY <3>1, <3>2, <3>3
  <2>7. \A i \in 1..Len(t) : E[p + i] \in Range(t)
    <3> SUFFICES ASSUME NEW i \in 1..Len(v) PROVE E[p + i] \in Range(t)
      BY <2>4
    <3>1. PICK j \in 1..Len(t) : t[j] = v[i]
      BY <2>4
    <3>2. t[j] \in Range(t)
      BY <2>5
    <3> QED  BY <1>4, <3>1, <3>2
  <2> QED  BY <1>2, <1>4, <2>1, <2>3, <2>4, <2>6, <2>7
<1> QED  BY <1>1, <1>7, <1>8

\* The wall shows the camera selected, on a page as full as it can be, and paging moves.
LEMMA LlInvShows == LlInv => WallShowsSelection
<1> SUFFICES ASSUME LlInv PROVE WallShowsSelection
  OBVIOUS
<1>1. PICK n \in Nat : n = Len(enabledCameras)
  BY WallTypes
<1>2. PICK k \in Nat \ {0} : k = Capacity[layoutMode]
  BY WallTypes
<1>3. PICK p \in Nat : p = safeLayoutStartIndex /\ (n <= k => p = 0) /\ (n > k => p <= n - k)
  BY <1>1, <1>2, SafePage DEF SafeStart
<1>4. PICK t : t = visibleCameras
  OBVIOUS
<1>5. /\ t \in Seq(Cameras) /\ Distinct(t) /\ Len(t) = (IF n <= k THEN n ELSE k)
      /\ n > 0 => t[1] = selectedCameraName
      /\ \A x \in Range(t) : \E i \in 1..n : enabledCameras[i] = x
      /\ \A i \in 1..Len(t) : enabledCameras[p + i] \in Range(t)
  BY <1>1, <1>2, <1>3, <1>4, ShownFacts
<1>6. Len(t) = Min({k, n})
  <2>1. k \in Int /\ n \in Int /\ (IF k <= n THEN k ELSE n) = IF n <= k THEN n ELSE k
    BY <1>1, <1>2
  <2>2. Min({k, n}) = IF k <= n THEN k ELSE n
    BY <2>1, TwoOf
  <2> QED  BY <1>5, <2>1, <2>2
<1>7. Cardinality(Range(t)) = Len(t)
  BY <1>5, DistinctCount
<1>8. Range(t) \subseteq Range(enabledCameras)
  <2>1. \A i \in 1..n : enabledCameras[i] \in Range(enabledCameras)
    BY <1>1, WallTypes DEF Range
  <2> QED  BY <1>5, <2>1
<1>9. ASSUME n > 0, p + k >= n PROVE enabledCameras[n] \in Range(t)
  <2>1. Len(t) \in 1..Len(t) /\ p + Len(t) = n
    BY <1>1, <1>2, <1>3, <1>5, <1>9
  <2> QED  BY <1>5, <2>1
<1>10. ASSUME n > 0, ~ (p > 0) PROVE enabledCameras[1] \in Range(t)
  <2>1. 1 \in 1..Len(t) /\ p + 1 = 1
    BY <1>1, <1>2, <1>3, <1>5, <1>10
  <2> QED  BY <1>5, <2>1
<1>11. \A d \in {-1, 1} : PageStart(d) = clampLiveLayoutStartIndex(p + d * k, n, layoutMode)
  BY <1>1, <1>2, <1>3 DEF PageStart
<1>12. layoutMode \in DOMAIN Capacity
  BY DEF LlInv
<1>13. ASSUME p + k < n PROVE PageStart(1) > p
  <2>1. PICK x \in Int : x = p + k /\ x = p + 1 * k
    BY <1>2, <1>3
  <2>2. PICK c : c = clampLiveLayoutStartIndex(x, n, layoutMode)
    OBVIOUS
  <2>3. n > k => c = IF x < 0 THEN 0 ELSE IF x <= n - k THEN x ELSE n - k
    BY <1>1, <1>2, <1>12, <2>2, ClampFacts
  <2>4. PageStart(1) = c
    BY <1>11, <2>1, <2>2
  <2>5. c > p
    BY <1>1, <1>2, <1>3, <1>13, <2>1, <2>3
  <2> QED  BY <2>4, <2>5
<1>14. ASSUME p > 0 PROVE PageStart(-1) < p
  <2>1. PICK x \in Int : x = p - k /\ x = p + (-1) * k
    BY <1>2, <1>3
  <2>2. PICK c : c = clampLiveLayoutStartIndex(x, n, layoutMode)
    OBVIOUS
  <2>3. n > k => c = IF x < 0 THEN 0 ELSE IF x <= n - k THEN x ELSE n - k
    BY <1>1, <1>2, <1>12, <2>2, ClampFacts
  <2>4. PageStart(-1) = c
    BY <1>11, <2>1, <2>2
  <2>5. c < p
    BY <1>1, <1>2, <1>3, <1>14, <2>1, <2>3
  <2> QED  BY <2>4, <2>5
<1>15. activePageNumber \in 1..getLiveLayoutPageCount(n, layoutMode)
  <2>1. PICK m \in Nat : m = n + k - 1
    BY <1>1, <1>2
  <2>2. PICK q \in Nat : q = m \div k
    BY <1>2, WholePages
  <2>3. PICK g : g = getLiveLayoutPageCount(n, layoutMode) /\ g = IF 1 <= q THEN q ELSE 1
    <3>1. Max({1, q}) = IF 1 <= q THEN q ELSE 1
      BY TwoOf
    <3>2. getLiveLayoutPageCount(n, layoutMode) = Max({1, q})
      BY <1>2, <2>1, <2>2 DEF getLiveLayoutPageCount
    <3> QED  BY <3>1, <3>2
  <2>4. g \in Nat /\ 1 <= g /\ q <= g
    BY <2>2, <2>3
  <2>5. CASE t = <<>>
    <3>1. activePageNumber = 1
      BY <1>4, <2>5 DEF activePageNumber
    <3> QED  BY <2>3, <2>4, <3>1
  <2>6. CASE t # <<>>
    <3>1. PICK d \in Nat : d = p \div k
      BY <1>2, <1>3, WholePages
    <3>2. activePageNumber = d + 1
      BY <1>2, <1>3, <1>4, <2>6, <3>1 DEF activePageNumber
    <3>3. n > 0
      BY <1>1, <1>2, <1>5, <2>6, EmptySeq
    <3>4. p + k <= m
      BY <1>1, <1>2, <1>3, <2>1, <3>3
    <3>5. (p \div k) + 1 <= m \div k
      BY <1>2, <1>3, <2>1, <3>4, NextPage
    <3>6. d + 1 <= q
      BY <2>2, <3>1, <3>5
    <3>7. d + 1 \in 1..g
      BY <2>4, <3>1, <3>6
    <3> QED  BY <2>3, <3>2, <3>7
  <2> QED  BY <2>5, <2>6
<1>16. canPageForward <=> p + k < n
  BY <1>1, <1>2, <1>3 DEF canPageForward
<1>17. canPageBackward <=> p > 0
  BY <1>3 DEF canPageBackward
<1>18. n > 0 /\ ~ canPageForward => enabledCameras[n] \in Range(t)
  <2>1. ~ (p + k < n) => p + k >= n
    BY <1>1, <1>2, <1>3
  <2> QED  BY <1>9, <1>16, <2>1
<1>19. n > 0 /\ ~ canPageBackward => enabledCameras[1] \in Range(t)
  BY <1>10, <1>17
<1>20. canPageForward => PageStart(1) > safeLayoutStartIndex
  BY <1>3, <1>13, <1>16
<1>21. canPageBackward => PageStart(-1) < safeLayoutStartIndex
  BY <1>3, <1>14, <1>17
<1>22. n > 0 => t[1] = selectedCameraName
  BY <1>5
<1> QED  BY ONLY <1>1, <1>2, <1>4, <1>6, <1>7, <1>8, <1>15, <1>18, <1>19, <1>20, <1>21, <1>22
         DEF WallShowsSelection

-----------------------------------------------------------------------------
(* The wall's steps keep its state                                           *)

\* The wall opens empty.
LEMMA LlInitially == LlInit => LlInv
<1> SUFFICES ASSUME LlInit PROVE LlInv
  OBVIOUS
<1>1. Cardinality(Cameras) \in Nat
  BY LlAssumption, FS_CardinalityType
<1>2. <<>> \in Seq(Cameras) /\ Len(<<>>) = 0 /\ Distinct(<<>>)
  BY DEF Distinct
<1>3. "single" \in DOMAIN Capacity
  BY LlAssumption
<1> QED  BY <1>1, <1>2, <1>3 DEF LlInit, LlInv

\* A page of any of the handlers starts in the list.
LEMMA StartInList ==
  ASSUME LlInv, NEW p \in Nat, p <= Len(enabledCameras)
  PROVE  p \in 0..Cardinality(Cameras)
<1>1. Len(enabledCameras) \in Nat /\ Len(enabledCameras) <= Cardinality(Cameras) /\ Cardinality(Cameras) \in Nat
  BY WallTypes
<1> QED  BY <1>1

LEMMA StatusKeeps ==
  ASSUME LlInv, NEW enabled \in SUBSET Cameras, StatusArrives(enabled)
  PROVE  LlInv'
<1>1. enabledCameras' = Listed[enabled] /\ UNCHANGED <<layoutMode, layoutStartIndex, selectedCamera>>
  BY DEF StatusArrives
<1>2. Listed[enabled] \in Seq(Cameras) /\ Distinct(Listed[enabled])
      /\ Len(Listed[enabled]) <= Cardinality(Cameras)
  BY ListedFacts
<1> QED  BY <1>1, <1>2 DEF LlInv, Distinct

LEMMA CameraSelectKeeps ==
  ASSUME LlInv, NEW camera \in Cameras, handleCameraSelect(camera)
  PROVE  LlInv'
<1>1. /\ selectedCamera' = camera /\ UNCHANGED <<enabledCameras, layoutMode>>
      /\ layoutStartIndex' = getPageStartForCamera(camera, enabledCameras, layoutMode)
  BY DEF handleCameraSelect
<1>2. enabledCameras \in Seq(Cameras) /\ layoutMode \in DOMAIN Capacity
  BY WallTypes
<1>3. layoutStartIndex' \in 0..Cardinality(Cameras)
  BY <1>1, <1>2, PageOfCamera, StartInList
<1> QED  BY <1>1, <1>3 DEF LlInv, Distinct

LEMMA LayoutChangeKeeps ==
  ASSUME LlInv, NEW mode \in DOMAIN Capacity, handleLayoutChange(mode)
  PROVE  LlInv'
<1>1. /\ layoutMode' = mode /\ UNCHANGED <<enabledCameras, selectedCamera>>
      /\ \/ layoutStartIndex' = getPageStartForCamera(selectedCameraName, enabledCameras, mode)
         \/ layoutStartIndex' = clampLiveLayoutStartIndex(layoutStartIndex, Len(enabledCameras), mode)
  BY DEF handleLayoutChange
<1>2. enabledCameras \in Seq(Cameras) /\ Len(enabledCameras) \in Nat /\ layoutStartIndex \in Int
  BY WallTypes
<1>3. layoutStartIndex' \in 0..Cardinality(Cameras)
  <2>1. CASE layoutStartIndex' = getPageStartForCamera(selectedCameraName, enabledCameras, mode)
    BY <1>2, <2>1, PageOfCamera, StartInList
  <2>2. CASE layoutStartIndex' = clampLiveLayoutStartIndex(layoutStartIndex, Len(enabledCameras), mode)
    BY <1>2, <2>2, ClampFacts, StartInList
  <2> QED  BY <1>1, <2>1, <2>2
<1> QED  BY <1>1, <1>3 DEF LlInv, Distinct

LEMMA PageShiftKeeps ==
  ASSUME LlInv, NEW direction \in {-1, 1}, handlePageShift(direction)
  PROVE  LlInv'
<1> DEFINE next == getVisibleLayoutCameras(enabledCameras, PageStart(direction), layoutMode)
<1>1. /\ layoutStartIndex' = PageStart(direction) /\ UNCHANGED <<enabledCameras, layoutMode>>
      /\ selectedCamera' = IF next # <<>> THEN next[1] ELSE selectedCamera
  BY DEF handlePageShift
<1>2. /\ enabledCameras \in Seq(Cameras) /\ Len(enabledCameras) \in Nat /\ layoutMode \in DOMAIN Capacity
      /\ Capacity[layoutMode] \in Nat
  BY WallTypes
<1>3. PICK x \in Int : x = safeLayoutStartIndex + direction * Capacity[layoutMode]
  <2>1. safeLayoutStartIndex \in Nat
    BY SafePage DEF SafeStart
  <2> QED  BY <1>2, <2>1
<1>4. PICK p \in Nat : p = PageStart(direction) /\ p <= Len(enabledCameras)
  <2>1. PageStart(direction) = clampLiveLayoutStartIndex(x, Len(enabledCameras), layoutMode)
    BY <1>3 DEF PageStart
  <2> QED  BY <1>2, <2>1, ClampFacts
<1>5. layoutStartIndex' \in 0..Cardinality(Cameras)
  BY <1>1, <1>4, StartInList
<1>6. next \in Seq(Cameras)
  <2>1. p \in Int
    BY <1>4
  <2> QED  BY <1>2, <1>4, <2>1, VisibleFacts
<1>7. next # <<>> => next[1] \in Cameras
  <2> HIDE DEF next
  <2>1. next # <<>> => Len(next) # 0 /\ Len(next) \in Nat
    BY <1>6, EmptySeq
  <2> QED  BY <1>6, <2>1
<1> HIDE DEF next
<1>8. selectedCamera \in Cameras \cup {0}
  BY DEF LlInv
<1>9. selectedCamera' \in Cameras \cup {0}
  BY <1>1, <1>7, <1>8
<1> QED  BY <1>1, <1>5, <1>9 DEF LlInv, Distinct

LEMMA LlRests == LlInv /\ UNCHANGED llVars => LlInv'
BY DEF LlInv, llVars, Distinct

\* Every step of the wall keeps it.
LEMMA LlStepInv == LlInv /\ [LlNext]_llVars => LlInv'
<1> SUFFICES ASSUME LlInv, [LlNext]_llVars PROVE LlInv'
  OBVIOUS
<1>1. CASE UNCHANGED llVars
  BY <1>1, LlRests
<1>2. CASE \E enabled \in SUBSET Cameras : StatusArrives(enabled)
  BY <1>2, StatusKeeps
<1>3. CASE \E camera \in Cameras : handleCameraSelect(camera)
  BY <1>3, CameraSelectKeeps
<1>4. CASE \E mode \in DOMAIN Capacity : handleLayoutChange(mode)
  BY <1>4, LayoutChangeKeeps
<1>5. CASE \E direction \in {-1, 1} : handlePageShift(direction)
  BY <1>5, PageShiftKeeps
<1> QED  BY <1>1, <1>2, <1>3, <1>4, <1>5 DEF LlNext

\* The wall's state has its shape.
LEMMA LlInvTypes == LlInv => LlTypeOK
<1> SUFFICES ASSUME LlInv PROVE LlTypeOK
  OBVIOUS
<1>1. PICK e \in Seq(Cameras) : e = enabledCameras
  BY DEF LlInv
<1>2. Range(e) \subseteq Cameras
  BY DEF Range
<1> QED  BY <1>1, <1>2 DEF LlInv, LlTypeOK

-----------------------------------------------------------------------------
(* The service contracts: what the tables say                                *)

LEMMA MergedAt ==
  ASSUME NEW f, NEW g, NEW x \in DOMAIN (f ++ g)
  PROVE  \/ x \in DOMAIN f /\ (f ++ g)[x] = f[x]
         \/ x \in DOMAIN g /\ (f ++ g)[x] = g[x]
BY DEF ++

LEMMA MergedDomain ==
  ASSUME NEW f, NEW g
  PROVE  /\ DOMAIN (f ++ g) = DOMAIN f \cup DOMAIN g
         /\ \A x \in DOMAIN f : (f ++ g)[x] = f[x]
BY DEF ++

LEMMA RowFacts ==
  ASSUME NEW x, NEW y
  PROVE  DOMAIN (x ** y) = {x} /\ (x ** y)[x] = y
BY DEF **

\* The messages that are errors, by name.
ErrorNames ==
  {"audio-manager-error", "cloud-transfer-error", "ptz-error", "roi-config-error", "runtime-manager-error",
   "video-recorder-error", "workflow-engine-error"}

\* Every payload carries the request's id, and an error just those of the error types.
PayloadRow(t, P) ==
  /\ "requestId" \in P /\ ("error" \in P <=> t \in ErrorNames)
  /\ t \notin {"service-unavailable", "error"}
PayloadTable(f) == \A t \in DOMAIN f : PayloadRow(t, f[t])

LEMMA PayloadMerge ==
  ASSUME NEW f, NEW g, PayloadTable(f), PayloadTable(g)
  PROVE  PayloadTable(f ++ g)
BY MergedAt DEF PayloadTable

LEMMA PayloadOne ==
  ASSUME NEW t, NEW P, PayloadRow(t, P)
  PROVE  PayloadTable(t ** P)
BY DEF PayloadTable, **

LEMMA PayloadSome ==
  ASSUME NEW T, NEW P, \A t \in T : PayloadRow(t, P)
  PROVE  PayloadTable([t \in T |-> P])
BY DEF PayloadTable

LEMMA PayloadsFit == PayloadTable(Payloads)
<1>1. PayloadTable(audio_managerPayloads)
  <2>1. PayloadTable([t \in {"audio-manager-job", "audio-manager-result"} |-> {"requestId", "job"}])
    BY PayloadSome DEF PayloadRow, ErrorNames
  <2>2. /\ PayloadTable("audio-manager-list" ** {"requestId", "jobs"})
        /\ PayloadTable("audio-manager-status" ** {"requestId", "stats"})
        /\ PayloadTable("audio-manager-error" ** {"requestId", "error"})
    BY PayloadOne DEF PayloadRow, ErrorNames
  <2> QED  BY <2>1, <2>2, PayloadMerge DEF audio_managerPayloads
<1>2. PayloadTable(cloud_transferPayloads)
  <2>1. /\ PayloadTable("cloud-transfer-transfer" ** {"requestId", "transfer"})
        /\ PayloadTable("cloud-transfer-list" ** {"requestId", "items"})
        /\ PayloadTable("cloud-transfer-stats" ** {"requestId", "stats"})
        /\ PayloadTable("cloud-transfer-status" ** {"requestId", "stats", "sharedDir"})
        /\ PayloadTable("cloud-transfer-error" ** {"requestId", "error"})
    BY PayloadOne DEF PayloadRow, ErrorNames
  <2> QED  BY <2>1, PayloadMerge DEF cloud_transferPayloads
<1>3. PayloadTable(live_feedPayloads)
  <2>1. /\ PayloadTable("start-live-ack" ** {"requestId", "ok", "sessionId"})
        /\ PayloadTable("live-layout-updated" ** {"requestId", "sessionId", "layout"})
        /\ PayloadTable("sdp-offer" ** {"requestId", "sessionId", "sdp"})
        /\ PayloadTable("ice-candidate" ** {"requestId", "sessionId", "candidate"})
    BY PayloadOne DEF PayloadRow, ErrorNames
  <2> QED  BY <2>1, PayloadMerge DEF live_feedPayloads
<1>4. PayloadTable(ptz_controlPayloads)
  <2>1. /\ PayloadTable("ptz-status" ** {"requestId", "cameras", "position"})
        /\ PayloadTable("ptz-position" ** {"requestId", "position"})
        /\ PayloadTable("ptz-command-ack" ** {"requestId", "ok", "position"})
        /\ PayloadTable("ptz-error" ** {"requestId", "error"})
    BY PayloadOne DEF PayloadRow, ErrorNames
  <2> QED  BY <2>1, PayloadMerge DEF ptz_controlPayloads
<1>5. PayloadTable(roi_configPayloads)
  <2>1. /\ PayloadTable("roi-config-status" ** {"requestId", "counts"})
        /\ PayloadTable("roi-config-document" ** {"requestId", "document"})
        /\ PayloadTable("roi-config-error" ** {"requestId", "error"})
    BY PayloadOne DEF PayloadRow, ErrorNames
  <2> QED  BY <2>1, PayloadMerge DEF roi_configPayloads
<1>6. PayloadTable(runtime_managerPayloads)
  <2>1. PayloadTable(runtime_managerStatus)
    BY PayloadOne DEF PayloadRow, ErrorNames, runtime_managerStatus, RuntimeSystemSnapshot
  <2>2. PayloadTable([t \in {"runtime-manager-service-action", "runtime-manager-update"} |->
                        {"requestId", "serviceName", "service"}])
    BY PayloadSome DEF PayloadRow, ErrorNames
  <2>3. /\ PayloadTable("runtime-manager-service-definition" ** {"requestId", "serviceName", "definition"})
        /\ PayloadTable("runtime-manager-log" ** {"requestId", "serviceName", "lines"})
        /\ PayloadTable("runtime-manager-config-list" ** {"requestId", "configs"})
        /\ PayloadTable("runtime-manager-config" ** {"requestId", "config"})
        /\ PayloadTable("runtime-manager-file" ** {"requestId", "path"})
        /\ PayloadTable("runtime-manager-error" ** {"requestId", "error"})
    BY PayloadOne DEF PayloadRow, ErrorNames
  <2> QED  BY <2>1, <2>2, <2>3, PayloadMerge DEF runtime_managerPayloads
<1>7. PayloadTable(video_recorderPayloads)
  <2>1. /\ PayloadTable("video-recorder-job" ** {"requestId", "job"})
        /\ PayloadTable("video-recorder-photo" ** {"requestId", "photo"})
        /\ PayloadTable("video-recorder-list" ** {"requestId", "items"})
        /\ PayloadTable("video-recorder-status" ** {"requestId", "stats", "cameras"})
        /\ PayloadTable("video-recorder-error" ** {"requestId", "error"})
    BY PayloadOne DEF PayloadRow, ErrorNames
  <2> QED  BY <2>1, PayloadMerge DEF video_recorderPayloads
<1>8. PayloadTable(workflow_enginePayloads)
  <2>1. /\ PayloadTable("workflow-engine-result" ** {"requestId", "run"})
        /\ PayloadTable("workflow-engine-status" ** {"requestId", "queue", "stats"})
        /\ PayloadTable("workflow-engine-error" ** {"requestId", "error"})
    BY PayloadOne DEF PayloadRow, ErrorNames
  <2> QED  BY <2>1, PayloadMerge DEF workflow_enginePayloads
<1> QED  BY <1>1, <1>2, <1>3, <1>4, <1>5, <1>6, <1>7, <1>8, PayloadMerge DEF Payloads

\* The messages there are.
OkNames ==
  {"audio-manager-job", "audio-manager-list", "audio-manager-status",
   "cloud-transfer-transfer", "cloud-transfer-list", "cloud-transfer-stats", "cloud-transfer-status",
   "start-live-ack", "live-layout-updated", "ptz-status", "ptz-position", "ptz-command-ack",
   "roi-config-status", "roi-config-document", "runtime-manager-status", "runtime-manager-service-action",
   "runtime-manager-update", "runtime-manager-service-definition", "runtime-manager-log",
   "runtime-manager-config-list", "runtime-manager-config", "runtime-manager-file",
   "video-recorder-job", "video-recorder-photo", "video-recorder-list", "video-recorder-status",
   "workflow-engine-result", "workflow-engine-status"}
EventNames == {"audio-manager-result", "sdp-offer", "ice-candidate"}

LEMMA PayloadNames == OkNames \cup ErrorNames \cup EventNames \subseteq DOMAIN Payloads
<1>1. DOMAIN Payloads =
        DOMAIN audio_managerPayloads \cup DOMAIN cloud_transferPayloads \cup DOMAIN live_feedPayloads
        \cup DOMAIN ptz_controlPayloads \cup DOMAIN roi_configPayloads \cup DOMAIN runtime_managerPayloads
        \cup DOMAIN video_recorderPayloads \cup DOMAIN workflow_enginePayloads
  BY DEF Payloads, ++
<1>2. DOMAIN audio_managerPayloads =
        {"audio-manager-job", "audio-manager-result", "audio-manager-list", "audio-manager-status", "audio-manager-error"}
  BY SMTT(30) DEF audio_managerPayloads, ++, **
<1>3. DOMAIN cloud_transferPayloads =
        {"cloud-transfer-transfer", "cloud-transfer-list", "cloud-transfer-stats", "cloud-transfer-status",
         "cloud-transfer-error"}
  <2> DEFINE first ==
         "cloud-transfer-transfer" ** {"requestId", "transfer"} ++ "cloud-transfer-list" ** {"requestId", "items"}
         ++ "cloud-transfer-stats" ** {"requestId", "stats"}
  <2>1. DOMAIN first = {"cloud-transfer-transfer", "cloud-transfer-list", "cloud-transfer-stats"}
    BY DEF ++, **
  <2>2. cloud_transferPayloads =
          first ++ "cloud-transfer-status" ** {"requestId", "stats", "sharedDir"}
          ++ "cloud-transfer-error" ** {"requestId", "error"}
    BY DEF cloud_transferPayloads
  <2> HIDE DEF first
  <2> QED  BY <2>1, <2>2 DEF ++, **
<1>4. DOMAIN live_feedPayloads = {"start-live-ack", "live-layout-updated", "sdp-offer", "ice-candidate"}
  BY DEF live_feedPayloads, ++, **
<1>5. DOMAIN ptz_controlPayloads = {"ptz-status", "ptz-position", "ptz-command-ack", "ptz-error"}
  BY DEF ptz_controlPayloads, ++, **
<1>6. DOMAIN roi_configPayloads = {"roi-config-status", "roi-config-document", "roi-config-error"}
  BY DEF roi_configPayloads, ++, **
<1>7. DOMAIN runtime_managerPayloads =
        {"runtime-manager-status", "runtime-manager-service-action", "runtime-manager-update",
         "runtime-manager-service-definition", "runtime-manager-log", "runtime-manager-config-list",
         "runtime-manager-config", "runtime-manager-file", "runtime-manager-error"}
  <2> DEFINE first ==
         runtime_managerStatus
         ++ [t \in {"runtime-manager-service-action", "runtime-manager-update"} |-> {"requestId", "serviceName", "service"}]
         ++ "runtime-manager-service-definition" ** {"requestId", "serviceName", "definition"}
         ++ "runtime-manager-log" ** {"requestId", "serviceName", "lines"}
  <2>1. DOMAIN first = {"runtime-manager-status", "runtime-manager-service-action", "runtime-manager-update",
                        "runtime-manager-service-definition", "runtime-manager-log"}
    BY DEF runtime_managerStatus, ++, **
  <2>2. runtime_managerPayloads =
          first ++ "runtime-manager-config-list" ** {"requestId", "configs"}
          ++ "runtime-manager-config" ** {"requestId", "config"}
          ++ "runtime-manager-file" ** {"requestId", "path"} ++ "runtime-manager-error" ** {"requestId", "error"}
    BY DEF runtime_managerPayloads
  <2> HIDE DEF first
  <2> QED  BY <2>1, <2>2 DEF ++, **
<1>8. DOMAIN video_recorderPayloads =
        {"video-recorder-job", "video-recorder-photo", "video-recorder-list", "video-recorder-status",
         "video-recorder-error"}
  <2> DEFINE first ==
         "video-recorder-job" ** {"requestId", "job"} ++ "video-recorder-photo" ** {"requestId", "photo"}
         ++ "video-recorder-list" ** {"requestId", "items"}
  <2>1. DOMAIN first = {"video-recorder-job", "video-recorder-photo", "video-recorder-list"}
    BY DEF ++, **
  <2>2. video_recorderPayloads =
          first ++ "video-recorder-status" ** {"requestId", "stats", "cameras"}
          ++ "video-recorder-error" ** {"requestId", "error"}
    BY DEF video_recorderPayloads
  <2> HIDE DEF first
  <2> QED  BY <2>1, <2>2 DEF ++, **
<1>9. DOMAIN workflow_enginePayloads = {"workflow-engine-result", "workflow-engine-status", "workflow-engine-error"}
  BY DEF workflow_enginePayloads, ++, **
<1> QED  BY <1>1, <1>2, <1>3, <1>4, <1>5, <1>6, <1>7, <1>8, <1>9 DEF OkNames, ErrorNames, EventNames

\* The result of a job tells what its acceptance tells.
LEMMA ResultPayload == Payloads["audio-manager-result"] = Payloads["audio-manager-job"]
<1> DEFINE jobs == [t \in {"audio-manager-job", "audio-manager-result"} |-> {"requestId", "job"}]
<1>1. DOMAIN jobs = {"audio-manager-job", "audio-manager-result"} /\ \A t \in DOMAIN jobs : jobs[t] = {"requestId", "job"}
  OBVIOUS
<1> HIDE DEF jobs
<1>2. \A t \in DOMAIN jobs : t \in DOMAIN audio_managerPayloads /\ audio_managerPayloads[t] = jobs[t]
  BY SMTT(30) DEF audio_managerPayloads, jobs, ++
<1>3. \A t \in DOMAIN audio_managerPayloads : Payloads[t] = audio_managerPayloads[t]
  BY DEF Payloads, ++
<1> QED  BY <1>1, <1>2, <1>3

\* The events a service sends of its own, and the outputs that answer a call.
EventOutputsThereAre ==
  {defineServiceContractOutput("event", "audio-manager-result", "response"),
   defineServiceContractOutput("event", "sdp-offer", "webrtc/offer"),
   defineServiceContractOutput("event", "ice-candidate", "webrtc/ice")}
OutputsThereAre ==
  {defineServiceContractOutput("success", t, "response") : t \in OkNames}
  \cup {defineServiceContractOutput("error", t, "response") : t \in ErrorNames} \cup EventOutputsThereAre

LEMMA OutputFacts ==
  ASSUME NEW o \in OutputsThereAre
  PROVE  /\ o.kind = "success" => o.messageType \in OkNames /\ o.subtopic = "response"
         /\ o.kind = "error" => o.messageType \in ErrorNames /\ o.subtopic = "response"
         /\ o.kind \notin {"success", "error"} => o \in EventOutputsThereAre
<1>1. CASE o \in EventOutputsThereAre
  BY <1>1 DEF EventOutputsThereAre, defineServiceContractOutput
<1>2. ASSUME NEW t \in OkNames, o = defineServiceContractOutput("success", t, "response")
      PROVE  o.kind = "success" /\ o.messageType = t /\ o.subtopic = "response"
  BY <1>2 DEF defineServiceContractOutput
<1>3. ASSUME NEW t \in ErrorNames, o = defineServiceContractOutput("error", t, "response")
      PROVE  o.kind = "error" /\ o.messageType = t /\ o.subtopic = "response"
  BY <1>3 DEF defineServiceContractOutput
<1>4. \/ o \in EventOutputsThereAre
      \/ \E t \in OkNames : o = defineServiceContractOutput("success", t, "response")
      \/ \E t \in ErrorNames : o = defineServiceContractOutput("error", t, "response")
  BY DEF OutputsThereAre
<1> QED  BY <1>1, <1>2, <1>3, <1>4

\* A method has one answer, whose parts its events on the same subtopic share.
MethodRow(m, O) ==
  /\ O \subseteq OutputsThereAre
  /\ \A o, x \in O : o.kind = "success" /\ x.kind = "success" => o = x
  /\ \A o \in O : o.messageType = "audio-manager-result" =>
       defineServiceContractOutput("success", "audio-manager-job", "response") \in O
  /\ m = "play-audio" =>
       {defineServiceContractOutput("event", "audio-manager-result", "response"),
        defineServiceContractOutput("error", "audio-manager-error", "response")} \subseteq O
ContractTable(f) == \A m \in DOMAIN f : MethodRow(m, f[m])

LEMMA ContractMerge ==
  ASSUME NEW f, NEW g, ContractTable(f), ContractTable(g)
  PROVE  ContractTable(f ++ g)
BY MergedAt DEF ContractTable

LEMMA ContractOne ==
  ASSUME NEW m, NEW O, MethodRow(m, O)
  PROVE  ContractTable(m ** O)
BY DEF ContractTable, **

LEMMA TwoOutputs ==
  ASSUME NEW m, m # "play-audio", NEW ok \in OkNames, NEW bad \in ErrorNames
  PROVE  MethodRow(m, defineServiceContractMethod(ok, bad))
<1>1. "audio-manager-result" \notin OkNames \cup ErrorNames
  BY DEF OkNames, ErrorNames
<1> QED  BY <1>1 DEF MethodRow, defineServiceContractMethod, defineServiceContractOutput, OutputsThereAre

LEMMA OneOutput ==
  ASSUME NEW m, m # "play-audio", NEW ok \in OkNames
  PROVE  MethodRow(m, Only(ok))
<1>1. "audio-manager-result" \notin OkNames
  BY DEF OkNames
<1> QED  BY <1>1 DEF MethodRow, Only, defineServiceContractOutput, OutputsThereAre

LEMMA ContractTwo ==
  ASSUME NEW m, m # "play-audio", NEW ok \in OkNames, NEW bad \in ErrorNames
  PROVE  ContractTable(m ** defineServiceContractMethod(ok, bad))
BY TwoOutputs, ContractOne

LEMMA ContractOnly ==
  ASSUME NEW m, m # "play-audio", NEW ok \in OkNames
  PROVE  ContractTable(m ** Only(ok))
BY OneOutput, ContractOne

LEMMA ContractMethods ==
  ASSUME NEW M, "play-audio" \notin M, NEW ok \in OkNames, NEW bad \in ErrorNames
  PROVE  ContractTable(Methods(M, ok, bad))
BY TwoOutputs DEF ContractTable, Methods

LEMMA AudioContract == ContractTable(audio_managerContract)
<1>1. "audio-manager-job" \in OkNames /\ "audio-manager-list" \in OkNames /\ "audio-manager-status" \in OkNames
      /\ "audio-manager-error" \in ErrorNames /\ "audio-manager-result" \notin OkNames \cup ErrorNames
  BY DEF OkNames, ErrorNames
<1>2. MethodRow("play-audio", defineServiceContractMethod("audio-manager-job", "audio-manager-error")
                              \cup {defineServiceContractOutput("event", "audio-manager-result", "response")})
  BY <1>1 DEF MethodRow, defineServiceContractMethod, defineServiceContractOutput, OutputsThereAre, EventOutputsThereAre
<1>3. /\ ContractTable("get-job" ** defineServiceContractMethod("audio-manager-job", "audio-manager-error"))
      /\ ContractTable("list-jobs" ** Only("audio-manager-list"))
      /\ ContractTable("get-status" ** Only("audio-manager-status"))
  BY <1>1, ContractTwo, ContractOnly
<1>4. ContractTable("play-audio" ** (defineServiceContractMethod("audio-manager-job", "audio-manager-error")
                              \cup {defineServiceContractOutput("event", "audio-manager-result", "response")}))
  BY <1>2, ContractOne
<1> QED  BY <1>3, <1>4, ContractMerge DEF audio_managerContract

LEMMA TransferContract == ContractTable(cloud_transferContract)
<1>1. /\ "cloud-transfer-transfer" \in OkNames /\ "cloud-transfer-list" \in OkNames
      /\ "cloud-transfer-stats" \in OkNames /\ "cloud-transfer-status" \in OkNames /\ "cloud-transfer-error" \in ErrorNames
  BY DEF OkNames, ErrorNames
<1>2. ContractTable(cloud_transferQueueing)
  BY <1>1, ContractMethods DEF cloud_transferQueueing
<1>3. /\ ContractTable("list-transfers" ** defineServiceContractMethod("cloud-transfer-list", "cloud-transfer-error"))
      /\ ContractTable("get-stats" ** defineServiceContractMethod("cloud-transfer-stats", "cloud-transfer-error"))
      /\ ContractTable("get-status" ** defineServiceContractMethod("cloud-transfer-status", "cloud-transfer-error"))
  BY <1>1, ContractTwo
<1> QED  BY <1>2, <1>3, ContractMerge DEF cloud_transferContract

LEMMA FeedContract == ContractTable(live_feedContract)
<1> DEFINE opened == {defineServiceContractOutput("event", "sdp-offer", "webrtc/offer"),
                      defineServiceContractOutput("event", "ice-candidate", "webrtc/ice")}
<1>1. "start-live-ack" \in OkNames /\ "live-layout-updated" \in OkNames
  BY DEF OkNames
<1>2. MethodRow("start-live", Only("start-live-ack") \cup opened)
  BY <1>1 DEF MethodRow, Only, defineServiceContractOutput, OutputsThereAre, EventOutputsThereAre
<1>3. ContractTable("start-live" ** (Only("start-live-ack") \cup opened))
  BY <1>2, ContractOne
<1>4. ContractTable("update-live-layout" ** Only("live-layout-updated"))
  BY <1>1, ContractOnly
<1>5. ContractTable([m \in {"stop-live", "sdp-answer", "ice-candidate"} |-> {}])
  BY DEF ContractTable, MethodRow
<1> QED  BY <1>3, <1>4, <1>5, ContractMerge DEF live_feedContract

LEMMA PtzContract == ContractTable(ptz_controlContract)
<1>1. /\ "ptz-status" \in OkNames /\ "ptz-position" \in OkNames /\ "ptz-command-ack" \in OkNames
      /\ "ptz-error" \in ErrorNames
  BY DEF OkNames, ErrorNames
<1>2. ContractTable(ptz_controlReads)
  <2>1. /\ ContractTable("get-status" ** defineServiceContractMethod("ptz-status", "ptz-error"))
        /\ ContractTable("get-position" ** defineServiceContractMethod("ptz-position", "ptz-error"))
    BY <1>1, ContractTwo
  <2> QED  BY <2>1, ContractMerge DEF ptz_controlReads
<1>3. /\ ContractTable(ptz_controlMoves)
      /\ ContractTable(Methods({"set-zoom", "set-position", "go-home"}, "ptz-command-ack", "ptz-error"))
  BY <1>1, ContractMethods DEF ptz_controlMoves
<1> QED  BY <1>2, <1>3, ContractMerge DEF ptz_controlContract

LEMMA RoiContract == ContractTable(roi_configContract)
<1>1. "roi-config-status" \in OkNames /\ "roi-config-document" \in OkNames /\ "roi-config-error" \in ErrorNames
  BY DEF OkNames, ErrorNames
<1>2. /\ ContractTable("get-status" ** defineServiceContractMethod("roi-config-status", "roi-config-error"))
      /\ ContractTable(Methods({"get-config", "save-config"}, "roi-config-document", "roi-config-error"))
  BY <1>1, ContractTwo, ContractMethods
<1> QED  BY <1>2, ContractMerge DEF roi_configContract

LEMMA RuntimeContract == ContractTable(runtime_managerContract)
<1>1. /\ "runtime-manager-status" \in OkNames /\ "runtime-manager-config" \in OkNames
      /\ "runtime-manager-config-list" \in OkNames /\ "runtime-manager-service-definition" \in OkNames
      /\ "runtime-manager-log" \in OkNames /\ "runtime-manager-file" \in OkNames
      /\ "runtime-manager-service-action" \in OkNames /\ "runtime-manager-update" \in OkNames
      /\ "runtime-manager-error" \in ErrorNames
  BY DEF OkNames, ErrorNames
<1>2. ContractTable(runtime_managerReads)
  <2>1. /\ ContractTable("get-status" ** defineServiceContractMethod("runtime-manager-status", "runtime-manager-error"))
        /\ ContractTable("get-config" ** defineServiceContractMethod("runtime-manager-config", "runtime-manager-error"))
        /\ ContractTable("list-configs" ** defineServiceContractMethod("runtime-manager-config-list", "runtime-manager-error"))
    BY <1>1, ContractTwo
  <2> QED  BY <2>1, ContractMerge DEF runtime_managerReads
<1>3. ContractTable(runtime_managerInspects)
  <2>1. /\ ContractTable("get-service-definition" **
                         defineServiceContractMethod("runtime-manager-service-definition", "runtime-manager-error"))
        /\ ContractTable("get-service-log" ** defineServiceContractMethod("runtime-manager-log", "runtime-manager-error"))
    BY <1>1, ContractTwo
  <2> QED  BY <2>1, ContractMerge DEF runtime_managerInspects
<1>4. ContractTable(runtime_managerPuts)
  <2>1. /\ ContractTable("put-config" ** defineServiceContractMethod("runtime-manager-config", "runtime-manager-error"))
        /\ ContractTable("put-runtime-file" ** defineServiceContractMethod("runtime-manager-file", "runtime-manager-error"))
    BY <1>1, ContractTwo
  <2> QED  BY <2>1, ContractMerge DEF runtime_managerPuts
<1>5. ContractTable(runtime_managerActions)
  BY <1>1, ContractMethods DEF runtime_managerActions
<1>6. ContractTable(runtime_managerChanges)
  <2>1. /\ ContractTable(Methods({"stop-service", "upsert-service"}, "runtime-manager-service-action", "runtime-manager-error"))
        /\ ContractTable("update-service" ** defineServiceContractMethod("runtime-manager-update", "runtime-manager-error"))
    BY <1>1, ContractTwo, ContractMethods
  <2> QED  BY <2>1, ContractMerge DEF runtime_managerChanges
<1> QED  BY <1>2, <1>3, <1>4, <1>5, <1>6, ContractMerge DEF runtime_managerContract

LEMMA RecorderContract == ContractTable(video_recorderContract)
<1>1. /\ "video-recorder-job" \in OkNames /\ "video-recorder-list" \in OkNames /\ "video-recorder-status" \in OkNames
      /\ "video-recorder-photo" \in OkNames /\ "video-recorder-error" \in ErrorNames
  BY DEF OkNames, ErrorNames
<1>2. ContractTable(video_recorderJobs)
  BY <1>1, ContractMethods DEF video_recorderJobs
<1>3. ContractTable(video_recorderQueries)
  <2>1. /\ ContractTable("list-jobs" ** defineServiceContractMethod("video-recorder-list", "video-recorder-error"))
        /\ ContractTable("get-status" ** defineServiceContractMethod("video-recorder-status", "video-recorder-error"))
    BY <1>1, ContractTwo
  <2> QED  BY <2>1, ContractMerge DEF video_recorderQueries
<1>4. ContractTable("capture-photo" ** defineServiceContractMethod("video-recorder-photo", "video-recorder-error"))
  BY <1>1, ContractTwo
<1> QED  BY <1>2, <1>3, <1>4, ContractMerge DEF video_recorderContract

LEMMA EngineContract == ContractTable(workflow_engineContract)
<1>1. /\ "workflow-engine-result" \in OkNames /\ "workflow-engine-status" \in OkNames
      /\ "workflow-engine-error" \in ErrorNames
  BY DEF OkNames, ErrorNames
<1>2. /\ ContractTable("enqueue-detection" ** defineServiceContractMethod("workflow-engine-result", "workflow-engine-error"))
      /\ ContractTable("get-status" ** Only("workflow-engine-status"))
  BY <1>1, ContractTwo, ContractOnly
<1> QED  BY <1>2, ContractMerge DEF workflow_engineContract

\* The contracts of all services.
ServiceTable(F) == \A s \in DOMAIN F : ContractTable(F[s])

LEMMA ServiceMerge ==
  ASSUME NEW F, NEW G, ServiceTable(F), ServiceTable(G)
  PROVE  ServiceTable(F ++ G)
BY MergedAt DEF ServiceTable

LEMMA ServiceOne ==
  ASSUME NEW s, NEW f, ContractTable(f)
  PROVE  ServiceTable(s ** f)
BY DEF ServiceTable, **

LEMMA ContractsFit ==
  \A s \in DOMAIN Contracts : \A m \in DOMAIN Contracts[s] : MethodRow(m, Contracts[s][m])
<1>1. /\ ServiceTable("audio-manager" ** audio_managerContract) /\ ServiceTable("cloud-transfer" ** cloud_transferContract)
      /\ ServiceTable("live-feed" ** live_feedContract) /\ ServiceTable("ptz-control" ** ptz_controlContract)
      /\ ServiceTable("roi-config" ** roi_configContract) /\ ServiceTable("runtime-manager" ** runtime_managerContract)
      /\ ServiceTable("video-recorder" ** video_recorderContract)
      /\ ServiceTable("workflow-engine" ** workflow_engineContract)
  BY ServiceOne, AudioContract, TransferContract, FeedContract, PtzContract, RoiContract, RuntimeContract,
     RecorderContract, EngineContract
<1>2. ServiceTable(Contracts)
  BY <1>1, ServiceMerge DEF Contracts
<1> QED  BY <1>2 DEF ServiceTable, ContractTable

-----------------------------------------------------------------------------
(* The service contracts: a call gets its own answer                          *)

CallStates == {"none", "waiting", "resolved", "rejected", "timed out"}
PacketsThereAre ==
  [service : DOMAIN Contracts, type : DOMAIN Payloads \cup {Unavailable},
   subtopic : {"response", "webrtc/offer", "webrtc/ice"},
   id : CallIds \cup {0}, parts : {Payloads[t] : t \in DOMAIN Payloads} \cup {{"requestId", "error"}}]
Gots == {<<>>} \cup {<<p>> : p \in PacketsThereAre}
CallServices == {""} \cup DOMAIN Contracts
CallMethods == {""} \cup UNION {DOMAIN Contracts[s] : s \in DOMAIN Contracts}
CallRecords == [service : CallServices, method : CallMethods, state : CallStates, got : Gots]

\* A call c in state k was made of a method there is, and settled by a packet of its own.
CallSound(c, k) ==
  /\ k.state # "none" => k.service \in DOMAIN Contracts /\ k.method \in DOMAIN Contracts[k.service]
  /\ k.state = "resolved" =>
       k.got[1].id = c /\ \A t \in SuccessTypes(k.service, k.method) : k.got[1].parts = Payloads[t]
  /\ k.state = "rejected" => k.got[1].id = c /\ k.got[1].type \in ErrorTypes(k.service, k.method)

\* A packet is of the service called, carries what its type says, and where it
\* travels as a response its type is one the method expects; or it is a refusal of cloud-comm.
AnswersFor(p, s, m) ==
  p.type # Unavailable =>
  /\ p.service = s /\ p.type \in DOMAIN Payloads /\ p.parts = Payloads[p.type]
  /\ p.subtopic = "response" => \E o \in getServiceContractResponseOutputs(s, m) : o.messageType = p.type

ScInv ==
  /\ calls \in [CallIds -> CallRecords]
  /\ handled \subseteq CallIds /\ answered \subseteq CallIds /\ air \subseteq PacketsThereAre
  /\ \A c \in CallIds : CallSound(c, calls[c])
  /\ \A c \in answered : calls[c].state \notin {"none", "waiting"}
  /\ \A p \in air : p.id # 0 =>
       calls[p.id].state # "none" /\ AnswersFor(p, calls[p.id].service, calls[p.id].method)
  /\ \A h \in heard : h[1] = h[2].type

LEMMA NamesApart ==
  /\ \A t \in OkNames \cup EventNames : t \in DOMAIN Payloads /\ ~ isErrorResponseType(t)
  /\ \A t \in ErrorNames : t \in DOMAIN Payloads /\ isErrorResponseType(t)
<1>1. (OkNames \cup EventNames) \cap ErrorNames = {}
  BY DEF OkNames, EventNames, ErrorNames
<1>2. \A t \in DOMAIN Payloads :
        ("error" \in Payloads[t] <=> t \in ErrorNames) /\ t \notin {"service-unavailable", "error"}
  BY PayloadsFit DEF PayloadTable, PayloadRow
<1> QED  BY <1>1, <1>2, PayloadNames DEF isErrorResponseType, ErrorSuffixed

\* No method expects a refusal of cloud-comm.
LEMMA NoneExpectsRefusal ==
  ASSUME NEW s \in DOMAIN Contracts, NEW m \in DOMAIN Contracts[s], NEW o \in getServiceContractResponseOutputs(s, m)
  PROVE  o.messageType \in DOMAIN Payloads /\ o.messageType # Unavailable
<1>1. o \in OutputsThereAre
  BY ContractsFit DEF MethodRow, getServiceContractResponseOutputs
<1>2. o.messageType \in DOMAIN Payloads
  <2>1. CASE o.kind \in {"success", "error"}
    BY <1>1, <2>1, OutputFacts, PayloadNames
  <2>2. CASE o.kind \notin {"success", "error"}
    <3>1. o \in EventOutputsThereAre
      BY <1>1, <2>2, OutputFacts
    <3>2. o.messageType \in EventNames
      BY <3>1 DEF EventOutputsThereAre, EventNames, defineServiceContractOutput
    <3> QED  BY <3>2, PayloadNames
  <2> QED  BY <2>1, <2>2
<1>3. Unavailable \notin DOMAIN Payloads
  BY PayloadsFit DEF PayloadTable, PayloadRow, Unavailable
<1> QED  BY <1>2, <1>3

LEMMA ExpectedFacts ==
  ASSUME NEW s \in DOMAIN Contracts, NEW m \in DOMAIN Contracts[s], NEW o \in getServiceContractResponseOutputs(s, m)
  PROVE  /\ isErrorResponseType(o.messageType) => o.messageType \in ErrorTypes(s, m)
         /\ ~ isErrorResponseType(o.messageType) =>
              \A t \in SuccessTypes(s, m) : Payloads[o.messageType] = Payloads[t]
<1> DEFINE O == Contracts[s][m]
<1>1. o \in O /\ o.subtopic = "response"
  BY DEF getServiceContractResponseOutputs
<1>2. MethodRow(m, O)
  BY ContractsFit
<1>3. o \in OutputsThereAre
  BY <1>1, <1>2 DEF MethodRow
<1>4. ASSUME NEW x \in O, x.kind = "success" PROVE \A t \in SuccessTypes(s, m) : t = x.messageType
  BY <1>2, <1>4 DEF SuccessTypes, MethodRow
<1>5. CASE o.kind = "success"
  <2>1. o.messageType \in OkNames
    BY <1>3, <1>5, OutputFacts
  <2>2. \A t \in SuccessTypes(s, m) : t = o.messageType
    BY <1>1, <1>4, <1>5
  <2> QED  BY <2>1, <2>2, NamesApart
<1>6. CASE o.kind = "error"
  <2>1. o.messageType \in ErrorNames
    BY <1>3, <1>6, OutputFacts
  <2>2. o.messageType \in ErrorTypes(s, m)
    BY <1>1, <1>6 DEF ErrorTypes
  <2> QED  BY <2>1, <2>2, NamesApart
<1>7. CASE o.kind \notin {"success", "error"}
  <2>1. o \in EventOutputsThereAre
    BY <1>3, <1>7, OutputFacts
  <2>2. o.messageType = "audio-manager-result"
    BY <1>1, <2>1 DEF EventOutputsThereAre, defineServiceContractOutput
  <2>3. o.messageType \in EventNames
    BY <2>2 DEF EventNames
  <2>4. PICK x \in O : x = defineServiceContractOutput("success", "audio-manager-job", "response")
    BY <1>1, <1>2, <2>2 DEF MethodRow
  <2>5. x.kind = "success" /\ x.messageType = "audio-manager-job"
    BY <2>4 DEF defineServiceContractOutput
  <2>6. \A t \in SuccessTypes(s, m) : t = "audio-manager-job"
    BY <1>4, <2>5
  <2> QED  BY <2>2, <2>3, <2>6, NamesApart, ResultPayload
<1> QED  BY <1>5, <1>6, <1>7

\* What a service sends, whatever it does with a call.
LEMMA PacketFacts ==
  ASSUME NEW s \in DOMAIN Contracts, NEW t \in DOMAIN Payloads,
         NEW sub \in {"response", "webrtc/offer", "webrtc/ice"}, NEW c \in CallIds \cup {0}
  PROVE  LET p == Packet(s, t, sub, c, Payloads[t]) IN
         /\ p \in PacketsThereAre /\ p.service = s /\ p.type = t /\ p.subtopic = sub /\ p.id = c
         /\ p.parts = Payloads[p.type]
BY DEF Packet, PacketsThereAre

LEMMA ReplyFacts ==
  ASSUME NEW s \in DOMAIN Contracts, NEW m \in DOMAIN Contracts[s], NEW o \in getServiceContractResponseOutputs(s, m),
         NEW c \in CallIds \cup {0}
  PROVE  LET p == Reply(s, o.messageType, c) IN p \in PacketsThereAre /\ p.id = c /\ AnswersFor(p, s, m)
<1>2. o.messageType \in DOMAIN Payloads
  BY NoneExpectsRefusal
<1> DEFINE p == Reply(s, o.messageType, c)
<1>3. /\ p \in PacketsThereAre /\ p.service = s /\ p.type = o.messageType /\ p.id = c
      /\ p.parts = Payloads[p.type]
  BY <1>2, PacketFacts DEF Reply
<1> HIDE DEF p
<1>4. AnswersFor(p, s, m)
  BY <1>2, <1>3 DEF AnswersFor
<1> QED  BY <1>3, <1>4 DEF p

LEMMA ServedFacts ==
  ASSUME NEW s \in DOMAIN Contracts, NEW m \in DOMAIN Contracts[s], NEW c \in CallIds,
         NEW A \in ServedBy(s, m, c), NEW p \in A
  PROVE  p \in PacketsThereAre /\ p.id \in {c, 0} /\ AnswersFor(p, s, m)
<1> DEFINE R == getServiceContractResponseOutputs(s, m)
           ok == {Reply(s, t, c) : t \in SuccessTypes(s, m)}
           bad == {Reply(s, t, c) : t \in ErrorTypes(s, m)}
           lost == {Reply(s, t, 0) : t \in ErrorTypes(s, m)}
           Fine(q) == q \in PacketsThereAre /\ q.id \in {c, 0} /\ AnswersFor(q, s, m)
<1>1. MethodRow(m, Contracts[s][m])
  BY ContractsFit
<1>2. \A t \in SuccessTypes(s, m) \cup ErrorTypes(s, m) : \E o \in R : o.messageType = t
  <2>1. \A o \in Contracts[s][m] : o.kind = "error" => o.subtopic = "response"
    BY <1>1, OutputFacts DEF MethodRow
  <2> QED  BY <2>1 DEF SuccessTypes, ErrorTypes, getServiceContractResponseOutputs
<1>3. ASSUME NEW o \in R, NEW i \in {c, 0} PROVE Fine(Reply(s, o.messageType, i))
  BY ReplyFacts
<1>4. \A q \in ok \cup bad \cup lost : Fine(q)
  <2> SUFFICES ASSUME NEW t \in SuccessTypes(s, m) \cup ErrorTypes(s, m), NEW i \in {c, 0} PROVE Fine(Reply(s, t, i))
    OBVIOUS
  <2>1. PICK o \in R : o.messageType = t
    BY <1>2
  <2> HIDE DEF Fine, R
  <2> QED  BY <1>3, <2>1
<1>5. CASE m = "play-audio"
  <2>1. PICK e \in R : e.messageType = "audio-manager-error"
    BY <1>1, <1>5 DEF MethodRow, defineServiceContractOutput, getServiceContractResponseOutputs
  <2>2. PICK r \in R : r.messageType = "audio-manager-result"
    BY <1>1, <1>5 DEF MethodRow, defineServiceContractOutput, getServiceContractResponseOutputs
  <2>3. Fine(Reply(s, "audio-manager-error", c)) /\ Fine(Reply(s, "audio-manager-result", c))
    BY <1>3, <2>1, <2>2
  <2>4. p \in ok \/ p = Reply(s, "audio-manager-error", c) \/ p = Reply(s, "audio-manager-result", c)
    BY <1>5 DEF ServedBy, PlayAudioServed
  <2> HIDE DEF Fine
  <2>5. Fine(p)
    BY <1>4, <2>3, <2>4
  <2> QED  BY <2>5 DEF Fine
<1>6. CASE m = "start-live"
  <2>1. p \in ok \/ p = Packet(s, "sdp-offer", "webrtc/offer", c, Payloads["sdp-offer"])
        \/ p = Packet(s, "ice-candidate", "webrtc/ice", c, Payloads["ice-candidate"])
    BY <1>6 DEF ServedBy, StartLiveServed
  <2>2. "sdp-offer" \in DOMAIN Payloads /\ "ice-candidate" \in DOMAIN Payloads
    BY PayloadNames DEF EventNames
  <2>3. CASE p \in ok
    BY <1>4, <2>3
  <2>4. CASE p = Packet(s, "sdp-offer", "webrtc/offer", c, Payloads["sdp-offer"])
    <3>1. p \in PacketsThereAre /\ p.id = c /\ p.service = s /\ p.type \in DOMAIN Payloads
          /\ p.parts = Payloads[p.type] /\ p.subtopic = "webrtc/offer"
      BY <2>2, <2>4, PacketFacts
    <3> QED  BY <3>1 DEF AnswersFor
  <2>5. CASE p = Packet(s, "ice-candidate", "webrtc/ice", c, Payloads["ice-candidate"])
    <3>1. p \in PacketsThereAre /\ p.id = c /\ p.service = s /\ p.type \in DOMAIN Payloads
          /\ p.parts = Payloads[p.type] /\ p.subtopic = "webrtc/ice"
      BY <2>2, <2>5, PacketFacts
    <3> QED  BY <3>1 DEF AnswersFor
  <2> QED  BY <2>1, <2>3, <2>4, <2>5
<1>7. CASE m = "update-live-layout"
  <2>1. p \in ok
    BY <1>7 DEF ServedBy, UpdateLayoutServed
  <2> QED  BY <1>4, <2>1
<1>8. CASE m \notin {"play-audio", "start-live", "update-live-layout"}
  <2>1. A \in {ok} \cup {{Reply(s, t, c)} : t \in ErrorTypes(s, m)}
              \cup (IF s \in {"roi-config", "ptz-control"} THEN {{Reply(s, t, 0)} : t \in ErrorTypes(s, m)} ELSE {})
    BY <1>8 DEF ServedBy, UndecodedServed
  <2>2. p \in ok \cup bad \cup lost
    BY <2>1
  <2> HIDE DEF ok, bad, lost
  <2> QED  BY <1>4, <2>2
<1> QED  BY <1>5, <1>6, <1>7, <1>8

\* A service has one output of each event.
LEMMA EventFacts ==
  ASSUME NEW s \in DOMAIN Contracts, NEW o \in EventOutputs(s)
  PROVE  Cardinality(getServiceContractEventOutput(s, o.messageType)) = 1
<1>1. \A x \in EventOutputs(s) : x \in EventOutputsThereAre
  <2> SUFFICES ASSUME NEW x \in EventOutputs(s) PROVE x \in EventOutputsThereAre
    OBVIOUS
  <2>1. PICK m \in DOMAIN Contracts[s] : x \in Contracts[s][m] /\ x.kind = "event"
    BY DEF EventOutputs
  <2>2. x \in OutputsThereAre
    BY <2>1, ContractsFit DEF MethodRow
  <2> QED  BY <2>1, <2>2, OutputFacts
<1>2. \A x, y \in EventOutputsThereAre : x.messageType = y.messageType => x = y
  BY DEF EventOutputsThereAre, defineServiceContractOutput
<1>3. getServiceContractEventOutput(s, o.messageType) = {o}
  BY <1>1, <1>2 DEF getServiceContractEventOutput
<1> QED  BY <1>3, FS_Singleton

\* No call is made yet.
LEMMA ScInitially == ScInit => ScInv
<1> SUFFICES ASSUME ScInit PROVE ScInv
  OBVIOUS
<1>1. calls = [c \in CallIds |-> Idle] /\ handled = {} /\ air = {} /\ answered = {} /\ heard = {}
  BY DEF ScInit
<1>2. Idle \in CallRecords /\ Idle.state = "none"
  BY DEF Idle, CallRecords, CallServices, CallMethods, CallStates, Gots
<1>3. \A c \in CallIds : CallSound(c, calls[c])
  BY <1>1, <1>2 DEF CallSound
<1> QED  BY <1>1, <1>2, <1>3 DEF ScInv

\* A packet sent for a call stays its packet, as long as the call keeps what it asked for.
LEMMA PacketsStay ==
  ASSUME ScInv, calls' \in [CallIds -> CallRecords],
         \A c \in CallIds : calls[c].state # "none" =>
            calls'[c].state # "none" /\ calls'[c].service = calls[c].service /\ calls'[c].method = calls[c].method
  PROVE  \A p \in air : p.id # 0 =>
            calls'[p.id].state # "none" /\ AnswersFor(p, calls'[p.id].service, calls'[p.id].method)
<1> SUFFICES ASSUME NEW p \in air, p.id # 0
             PROVE  calls'[p.id].state # "none" /\ AnswersFor(p, calls'[p.id].service, calls'[p.id].method)
  OBVIOUS
<1>1. PICK c \in CallIds : c = p.id
  BY DEF ScInv, PacketsThereAre
<1>2. calls[c].state # "none" /\ AnswersFor(p, calls[c].service, calls[c].method)
  BY <1>1 DEF ScInv
<1>3. calls'[c].state # "none" /\ calls'[c].service = calls[c].service /\ calls'[c].method = calls[c].method
  BY <1>2
<1> QED  BY <1>1, <1>2, <1>3

LEMMA RequestKeeps ==
  ASSUME ScInv, NEW c \in CallIds, NEW s \in DOMAIN Contracts, NEW m \in ResponseMethods(s), request(c, s, m)
  PROVE  ScInv'
<1> DEFINE new == [service |-> s, method |-> m, state |-> "waiting", got |-> <<>>]
<1>1. /\ calls[c].state = "none" /\ calls' = [calls EXCEPT ![c] = new]
      /\ UNCHANGED <<handled, air, answered, heard>>
  BY DEF request
<1>2. m \in DOMAIN Contracts[s]
  BY DEF ResponseMethods
<1>3. /\ new \in CallRecords /\ new.state = "waiting" /\ new.service = s /\ new.method = m
  BY <1>2 DEF CallRecords, CallServices, CallMethods, CallStates, Gots
<1>4. CallSound(c, new)
  BY <1>2, <1>3 DEF CallSound
<1> HIDE DEF new
<1>5. calls \in [CallIds -> CallRecords]
  BY DEF ScInv
<1>6. calls' \in [CallIds -> CallRecords] /\ calls'[c] = new /\ \A d \in CallIds : d # c => calls'[d] = calls[d]
  BY <1>1, <1>3, <1>5
<1>7. \A p \in air : p.id # 0 =>
        calls'[p.id].state # "none" /\ AnswersFor(p, calls'[p.id].service, calls'[p.id].method)
  <2>1. \A d \in CallIds : calls[d].state # "none" => calls'[d] = calls[d]
    BY <1>1, <1>6
  <2> QED  BY <1>6, <2>1, PacketsStay
<1>8. \A d \in CallIds : CallSound(d, calls'[d])
  BY <1>4, <1>6 DEF ScInv
<1>9. \A d \in answered : calls'[d].state \notin {"none", "waiting"}
  <2>1. c \notin answered /\ answered \subseteq CallIds
    BY <1>1 DEF ScInv
  <2> QED  BY <1>6, <2>1 DEF ScInv
<1> QED  BY <1>1, <1>6, <1>7, <1>8, <1>9 DEF ScInv

LEMMA HandlesKeeps ==
  ASSUME ScInv, NEW c \in CallIds, DeviceHandles(c)
  PROVE  ScInv'
<1>1. calls[c].state # "none" /\ handled' = handled \cup {c} /\ UNCHANGED <<calls, answered, heard>>
  BY DEF DeviceHandles
<1>2. PICK A \in ServedBy(calls[c].service, calls[c].method, c) : air' = air \cup A
  BY DEF DeviceHandles
<1>3. PICK s \in DOMAIN Contracts : s = calls[c].service /\ calls[c].method \in DOMAIN Contracts[s]
  BY <1>1 DEF ScInv, CallSound
<1>4. PICK m \in DOMAIN Contracts[s] : m = calls[c].method
  BY <1>3
<1>5. \A p \in A : p \in PacketsThereAre /\ p.id \in {c, 0} /\ AnswersFor(p, s, m)
  BY <1>2, <1>3, <1>4, ServedFacts
<1>6. \A p \in A : p.id # 0 => calls[p.id].state # "none" /\ AnswersFor(p, calls[p.id].service, calls[p.id].method)
  BY <1>1, <1>3, <1>4, <1>5
<1>7. \A p \in air : p.id # 0 => calls[p.id].state # "none" /\ AnswersFor(p, calls[p.id].service, calls[p.id].method)
  BY DEF ScInv
<1>8. \A p \in air' : p.id # 0 => calls'[p.id].state # "none" /\ AnswersFor(p, calls'[p.id].service, calls'[p.id].method)
  BY <1>1, <1>2, <1>6, <1>7
<1>9. air' \subseteq PacketsThereAre /\ handled' \subseteq CallIds
  BY <1>1, <1>2, <1>5 DEF ScInv
<1> QED  BY <1>1, <1>8, <1>9 DEF ScInv

LEMMA RefusesKeeps ==
  ASSUME ScInv, NEW c \in CallIds, RefusesCommand(c)
  PROVE  ScInv'
<1> DEFINE q == Packet(calls[c].service, Unavailable, "response", c, {"requestId", "error"})
<1>1. /\ calls[c].state # "none" /\ handled' = handled \cup {c} /\ air' = air \cup {q}
      /\ UNCHANGED <<calls, answered, heard>>
  BY DEF RefusesCommand
<1>2. calls[c].service \in DOMAIN Contracts
  BY <1>1 DEF ScInv, CallSound
<1>3. q \in PacketsThereAre /\ q.id = c /\ q.type = Unavailable
  BY <1>2 DEF Packet, PacketsThereAre
<1> HIDE DEF q
<1>4. \A p \in air' : p.id # 0 => calls[p.id].state # "none" /\ AnswersFor(p, calls[p.id].service, calls[p.id].method)
  <2>1. AnswersFor(q, calls[c].service, calls[c].method)
    BY <1>3 DEF AnswersFor
  <2> QED  BY <1>1, <1>3, <2>1 DEF ScInv
<1>5. air' \subseteq PacketsThereAre /\ handled' \subseteq CallIds
  BY <1>1, <1>3 DEF ScInv
<1> QED  BY <1>1, <1>4, <1>5 DEF ScInv

LEMMA TimesOutKeeps ==
  ASSUME ScInv, NEW c \in CallIds, TimesOut(c)
  PROVE  ScInv'
<1>1. /\ calls[c].state = "waiting" /\ calls' = [calls EXCEPT ![c].state = "timed out"]
      /\ UNCHANGED <<handled, air, answered, heard>>
  BY DEF TimesOut
<1>2. calls \in [CallIds -> CallRecords] /\ calls[c] \in CallRecords
  BY DEF ScInv
<1> DEFINE new == [calls[c] EXCEPT !.state = "timed out"]
<1>3. /\ new \in CallRecords /\ new.state = "timed out"
      /\ new.service = calls[c].service /\ new.method = calls[c].method
  <2>1. "timed out" \in CallStates
    BY DEF CallStates
  <2> QED  BY <1>2, <2>1 DEF CallRecords
<1>a. calls' = [calls EXCEPT ![c] = new]
  BY <1>1
<1> HIDE DEF new
<1>4. CallSound(c, new)
  BY <1>1, <1>3 DEF ScInv, CallSound
<1>5. calls' \in [CallIds -> CallRecords] /\ calls'[c] = new /\ \A d \in CallIds : d # c => calls'[d] = calls[d]
  BY <1>2, <1>3, <1>a
<1>6. \A p \in air : p.id # 0 =>
        calls'[p.id].state # "none" /\ AnswersFor(p, calls'[p.id].service, calls'[p.id].method)
  BY <1>3, <1>5, PacketsStay
<1>7. \A d \in CallIds : CallSound(d, calls'[d])
  BY <1>4, <1>5 DEF ScInv
<1>8. \A d \in answered : calls'[d].state \notin {"none", "waiting"}
  BY <1>3, <1>5 DEF ScInv
<1> QED  BY <1>1, <1>5, <1>6, <1>7, <1>8 DEF ScInv

LEMMA LostKeeps ==
  ASSUME ScInv, NEW p \in air, Lost(p)
  PROVE  ScInv'
<1>1. air' \subseteq air /\ UNCHANGED <<calls, handled, answered, heard>>
  BY DEF Lost
<1> QED  BY <1>1 DEF ScInv

LEMMA ArrivesKeeps ==
  ASSUME ScInv, NEW p \in air, Arrives(p)
  PROVE  ScInv'
<1> DEFINE c == p.id
           error == isErrorResponseType(p.type)
           mine == /\ c # 0 /\ calls[c].state = "waiting" /\ "requestId" \in p.parts /\ calls[c].service = p.service
                   /\ \E o \in getServiceContractResponseOutputs(calls[c].service, calls[c].method) :
                        o.messageType = p.type /\ o.subtopic = p.subtopic
<1>1. /\ air' = air \ {p} /\ heard' = heard \cup Hears(p) /\ handled' = handled
      /\ calls' = IF mine THEN [calls EXCEPT ![c].state = IF error THEN "rejected" ELSE "resolved", ![c].got = <<p>>]
                  ELSE calls
      /\ answered' = IF c # 0 /\ p.subtopic = "response" /\ p.type # Unavailable THEN answered \cup {c} ELSE answered
  BY DEF Arrives
<1>2. p \in PacketsThereAre /\ c \in CallIds \cup {0} /\ calls \in [CallIds -> CallRecords]
  BY DEF ScInv, PacketsThereAre
<1>3. \A h \in heard' : h[1] = h[2].type
  BY <1>1 DEF ScInv, Hears
<1>4. c # 0 => calls[c].state # "none" /\ AnswersFor(p, calls[c].service, calls[c].method)
  BY DEF ScInv
<1>5. \A q \in air' : q \in air
  BY <1>1
<1>6. air' \subseteq PacketsThereAre /\ handled' \subseteq CallIds
  BY <1>1 DEF ScInv
<1>7. answered' \subseteq CallIds
  BY <1>1, <1>2 DEF ScInv
<1>8. CASE mine
  <2>1. PICK s \in DOMAIN Contracts : s = calls[c].service /\ calls[c].method \in DOMAIN Contracts[s]
    BY <1>2, <1>4, <1>8 DEF ScInv, CallSound
  <2>2. PICK m \in DOMAIN Contracts[s] : m = calls[c].method
    BY <2>1
  <2>3. PICK o \in getServiceContractResponseOutputs(s, m) : o.messageType = p.type
    BY <1>8, <2>1, <2>2
  <2>4. p.parts = Payloads[p.type]
    BY <1>4, <1>8, <2>3, NoneExpectsRefusal DEF AnswersFor
  <2>5. calls[c] \in CallRecords /\ c \in CallIds
    BY <1>2, <1>8
  <2> DEFINE ends == IF error THEN "rejected" ELSE "resolved"
  <2>6. ends \in CallStates /\ (ends = "rejected" => error) /\ (ends = "resolved" => ~ error)
        /\ ends \notin {"none", "waiting"}
    BY DEF CallStates
  <2>7. calls' = [calls EXCEPT ![c].state = ends, ![c].got = <<p>>]
    BY <1>1, <1>8
  <2> HIDE DEF ends, mine
  <2> DEFINE new == [calls[c] EXCEPT !.state = ends, !.got = <<p>>]
  <2>8. new \in CallRecords /\ new.state = ends /\ new.service = s /\ new.method = m /\ new.got = <<p>>
    <3>1. <<p>> \in Gots
      BY <1>2 DEF Gots
    <3> QED  BY <2>1, <2>2, <2>5, <2>6, <3>1 DEF CallRecords
  <2>a. calls' = [calls EXCEPT ![c] = new]
    BY <1>2, <2>5, <2>7
  <2> HIDE DEF new
  <2>9. calls' \in [CallIds -> CallRecords] /\ calls'[c] = new /\ \A d \in CallIds : d # c => calls'[d] = calls[d]
    BY <1>2, <2>5, <2>8, <2>a
  <2>10. CallSound(c, new)
    <3>1. new.got[1] = p
      BY <2>8
    <3>2. new.state = "resolved" => \A t \in SuccessTypes(s, m) : p.parts = Payloads[t]
      BY <2>3, <2>4, <2>6, <2>8, ExpectedFacts
    <3>3. new.state = "rejected" => p.type \in ErrorTypes(s, m)
      BY <2>3, <2>6, <2>8, ExpectedFacts
    <3> QED  BY <2>1, <2>2, <2>8, <3>1, <3>2, <3>3 DEF CallSound
  <2>11. \A q \in air : q.id # 0 =>
           calls'[q.id].state # "none" /\ AnswersFor(q, calls'[q.id].service, calls'[q.id].method)
    <3>1. \A d \in CallIds : calls[d].state # "none" =>
            calls'[d].state # "none" /\ calls'[d].service = calls[d].service /\ calls'[d].method = calls[d].method
      BY <2>1, <2>2, <2>6, <2>8, <2>9
    <3> QED  BY <2>9, <3>1, PacketsStay
  <2>12. \A d \in CallIds : CallSound(d, calls'[d])
    BY <2>9, <2>10 DEF ScInv
  <2>13. \A d \in answered' : calls'[d].state \notin {"none", "waiting"}
    <3>1. \A d \in answered' : d = c \/ d \in answered
      BY <1>1
    <3> QED  BY <2>6, <2>8, <2>9, <3>1 DEF ScInv
  <2> QED  BY <1>3, <1>5, <1>6, <1>7, <2>9, <2>11, <2>12, <2>13 DEF ScInv
<1>9. CASE ~ mine
  <2>1. calls' = calls
    BY <1>1, <1>9
  <2>2. \A d \in answered' : calls[d].state \notin {"none", "waiting"}
    <3>1. ASSUME c # 0, p.subtopic = "response", p.type # Unavailable PROVE calls[c].state \notin {"none", "waiting"}
      <4>1. calls[c].state # "none" /\ AnswersFor(p, calls[c].service, calls[c].method)
        BY <1>4, <3>1
      <4>2. PICK o \in getServiceContractResponseOutputs(calls[c].service, calls[c].method) : o.messageType = p.type
        BY <3>1, <4>1 DEF AnswersFor
      <4>3. o.subtopic = p.subtopic
        BY <3>1, <4>2 DEF getServiceContractResponseOutputs
      <4>4. "requestId" \in p.parts
        <5>1. p.type \in DOMAIN Payloads
          BY <3>1, <4>1 DEF AnswersFor
        <5> QED  BY <3>1, <4>1, <5>1, PayloadsFit DEF AnswersFor, PayloadTable, PayloadRow
      <4>5. calls[c].service = p.service
        BY <3>1, <4>1 DEF AnswersFor
      <4> QED  BY <1>9, <3>1, <4>1, <4>2, <4>3, <4>4, <4>5
    <3> HIDE DEF mine
    <3> QED  BY <1>1, <3>1 DEF ScInv
  <2> HIDE DEF mine
  <2> QED  BY <1>3, <1>5, <1>6, <1>7, <2>1, <2>2 DEF ScInv
<1> QED  BY <1>8, <1>9

LEMMA ScRests == ScInv /\ UNCHANGED scVars => ScInv'
BY DEF ScInv, scVars

\* Every step of the typed client and of the services keeps it.
LEMMA ScStepInv == ScInv /\ [ScNext]_scVars => ScInv'
<1> SUFFICES ASSUME ScInv, [ScNext]_scVars PROVE ScInv'
  OBVIOUS
<1>1. CASE UNCHANGED scVars
  BY <1>1, ScRests
<1>2. CASE \E c \in CallIds, s \in DOMAIN Contracts : \E m \in ResponseMethods(s) : request(c, s, m)
  BY <1>2, RequestKeeps
<1>3. CASE \E c \in CallIds : DeviceHandles(c) \/ RefusesCommand(c) \/ TimesOut(c)
  BY <1>3, HandlesKeeps, RefusesKeeps, TimesOutKeeps
<1>4. CASE \E p \in air : Arrives(p) \/ Lost(p)
  BY <1>4, ArrivesKeeps, LostKeeps
<1> QED  BY <1>1, <1>2, <1>3, <1>4 DEF ScNext

\* Every call gets its own answer, for what it is.
LEMMA ScInvAnswers == ScInv => CallerGetsItsAnswer
<1> SUFFICES ASSUME ScInv PROVE CallerGetsItsAnswer
  OBVIOUS
<1>1. \A c \in CallIds : CallSound(c, calls[c]) /\ (c \in answered => calls[c].state # "waiting")
  BY DEF ScInv
<1>2. \A h \in heard : h[1] = h[2].type
  BY DEF ScInv
<1> QED  BY <1>1, <1>2, EventFacts DEF CallerGetsItsAnswer, CallSound

LEMMA ScInvTypes == ScInv => ScTypeOK
BY DEF ScInv, ScTypeOK, CallRecords, CallStates, PacketsThereAre

-----------------------------------------------------------------------------
(* The shape of the ROI configurator's page                                 *)

RoiForm == roiBusy \in BOOLEAN /\ cameraInput \in RoiCameras \cup {0} /\ Len(ops) <= MaxRoiOps

LEMMA RoiFormInitially == RoiInit => RoiForm
<1> SUFFICES ASSUME RoiInit PROVE RoiForm
  OBVIOUS
<1>1. Len(ops) = 0 /\ roiBusy = FALSE /\ cameraInput = 0
  BY DEF RoiInit
<1>2. MaxRoiOps \in Nat
  BY RoiAssumption
<1>3. Len(ops) <= MaxRoiOps
  BY <1>1, <1>2
<1> QED  BY <1>1, <1>3 DEF RoiForm

LEMMA RoiFormRests == RoiForm /\ UNCHANGED roiVars => RoiForm'
BY DEF RoiForm, roiVars

LEMMA RoiFormStep ==
  ASSUME RoiInv, RoiForm, RoiNext
  PROVE  RoiForm'
<1>1. ops \in Seq(OpRecords) /\ Len(ops) \in Nat /\ MaxRoiOps \in Nat
  BY RoiAssumption DEF RoiInv, RoiTypes
<1>2. ASSUME NEW e, Len(ops) < MaxRoiOps, ops' = Append(ops, e), roiBusy' = TRUE, cameraInput' = cameraInput
      PROVE  RoiForm'
  <2>1. Len(ops') = Len(ops) + 1
    BY <1>1, <1>2
  <2> QED  BY <1>1, <1>2, <2>1 DEF RoiForm
<1>3. ASSUME NEW d, NEW after, NEW touched, persistDocument(d, after, touched) PROVE RoiForm'
  BY <1>2, <1>3 DEF persistDocument, saveDocument
<1>4. ASSUME NEW c \in RoiCameras \cup {0}, NEW b, NEW r, NEW drawn, Selects(c, b, r, drawn) PROVE RoiForm'
  BY <1>4 DEF Selects, RoiForm
<1>5. cameraInput \in RoiCameras \cup {0}
  BY DEF RoiForm
<1>6. ASSUME NEW byButton \in BOOLEAN, Refreshes(byButton) PROVE RoiForm'
  BY <1>2, <1>6 DEF Refreshes
<1>7. ASSUME handleCaptureBase \/ WriteBase \/ handleDeleteBase \/ handleCreateOrUpdateRoi \/ handleDeleteRoi
      PROVE  RoiForm'
  BY <1>3, <1>7 DEF handleCaptureBase, WriteBase, handleDeleteBase, handleCreateOrUpdateRoi, handleDeleteRoi
<1>8. ASSUME \/ \E c \in RoiCameras : onSelectCamera(c)
             \/ \E b \in Bases : onSelectBase(b)
             \/ \E r \in Rois : onSelectRoi(r) \/ PicksOnCanvas(r)
             \/ onDraws \/ ClearSelection
      PROVE  RoiForm'
  BY <1>4, <1>5, <1>8 DEF onSelectCamera, onSelectBase, onSelectRoi, PicksOnCanvas, onDraws, ClearSelection
<1>9. ASSUME NEW k \in 1..Len(ops), ops' = Without(k) PROVE Len(ops') <= MaxRoiOps
  <2>1. Len(Without(k)) = Len(ops) - 1
    BY <1>1, WithoutFacts DEF Without
  <2> QED  BY <1>1, <1>9, <2>1 DEF RoiForm
<1>10. ASSUME NEW k \in 1..Len(ops), NEW e, ops' = [ops EXCEPT ![k] = e] PROVE Len(ops') <= MaxRoiOps
  <2>1. DOMAIN ops' = 1..Len(ops)
    BY <1>1, <1>10
  <2>2. ops' \in [1..Len(ops) -> OpRecords \cup {e}]
    BY <1>1, <1>10
  <2>3. Len(ops') = Len(ops)
    BY <1>1, <2>1, <2>2
  <2> QED  BY <1>1, <2>3 DEF RoiForm
<1>11. CASE DeviceHandlesRoi
  <2>1. PICK k \in 1..Len(ops) : k = First("up")
    BY <1>1, <1>11, FirstFacts DEF DeviceHandlesRoi
  <2>2. \E e : ops' = [ops EXCEPT ![k] = e]
    <3>1. CASE ops' = [ops EXCEPT ![k].at = "down", ![k].document = stored']
      <4>1. ops' = [ops EXCEPT ![k] = [ops[k] EXCEPT !.at = "down", !.document = stored']]
        BY <1>1, <3>1
      <4> QED  BY <4>1
    <3>2. CASE ops' = [ops EXCEPT ![k].at = "lost"]
      <4>1. ops' = [ops EXCEPT ![k] = [ops[k] EXCEPT !.at = "lost"]]
        BY <1>1, <3>2
      <4> QED  BY <4>1
    <3> QED  BY <1>11, <2>1, <3>1, <3>2 DEF DeviceHandlesRoi
  <2>3. UNCHANGED <<roiBusy, cameraInput>>
    BY <1>11 DEF DeviceHandlesRoi
  <2> QED  BY <1>10, <2>2, <2>3 DEF RoiForm
<1>12. CASE applyPayload
  <2>1. PICK k \in 1..Len(ops) : k = First("down")
    BY <1>1, <1>12, FirstFacts DEF applyPayload
  <2>2. ops' = Without(k) /\ cameraInput' = cameraInput /\ roiBusy' \in {roiBusy, FALSE}
    BY <1>12, <2>1 DEF applyPayload, Without
  <2>3. Len(ops') <= MaxRoiOps
    BY <1>9, <2>2
  <2> QED  BY <2>2, <2>3 DEF RoiForm
<1>13. ASSUME NEW k \in DOMAIN ops, Fails(k) PROVE RoiForm'
  <2>1. k \in 1..Len(ops)
    BY <1>1
  <2>2. cameraInput' = cameraInput /\ roiBusy' = FALSE
    BY <1>13 DEF Fails
  <2>3. Len(ops') <= MaxRoiOps
    <3>1. CASE ops' = Without(k)
      BY <1>9, <2>1, <3>1
    <3>2. CASE ops' = [ops EXCEPT ![k].waits = FALSE]
      <4>1. ops' = [ops EXCEPT ![k] = [ops[k] EXCEPT !.waits = FALSE]]
        BY <1>1, <3>2
      <4> QED  BY <1>10, <2>1, <4>1
    <3> QED  BY <1>13, <3>1, <3>2 DEF Fails, Without
  <2> QED  BY <2>2, <2>3 DEF RoiForm
<1> QED  BY <1>6, <1>7, <1>8, <1>11, <1>12, <1>13 DEF RoiNext

\* The configurator's state has its shape.
LEMMA RoiFormTypes == RoiInv /\ RoiForm => RoiTypeOK
<1> SUFFICES ASSUME RoiInv, RoiForm PROVE RoiTypeOK
  OBVIOUS
<1>1. edits \in Nat /\ stored \subseteq Items(edits)
  BY DEF RoiInv, RoiTypes, IsDocument
<1>2. \A i \in stored : i.camera \in RoiCameras /\ i.edit \in 0..edits
  BY <1>1 DEF Items
<1>3. \A i \in stored : i.camera \in RoiCameras /\ i.edit <= edits
  BY <1>1, <1>2
<1> QED  BY <1>3 DEF RoiTypeOK, RoiForm

-----------------------------------------------------------------------------
(* The pages together                                                       *)

\* The invariant of the live page at work.
LivePagesInv ==
  /\ part = "transport" => LtInv
  /\ part = "contracts" => ScInv
  /\ part = "viewer" => LvInv
  /\ part = "wall" => LlInv

\* Every live page keeps its invariant through all of its steps and those of its environment: for
\* any devices, requests, sessions, cameras, layouts and bounds.
THEOREM LivePagesInvariance == Spec => []LivePagesInv
<1>1. Init => LivePagesInv
  BY LtInitially, ScInitially, LvInitially, LlInitially DEF Init, LivePagesInv
<1>2. LivePagesInv /\ [Next]_vars => LivePagesInv'
  <2> SUFFICES ASSUME LivePagesInv, [Next]_vars PROVE LivePagesInv'
    OBVIOUS
  <2> USE DEF Next, vars, OthersOff, GwStep, GlStep, LtStep, LvStep, LlStep, PtzStep, RmStep, ScStep,
              DpStep, RoiStep, RcvStep
  <2>1. part' = part
    OBVIOUS
  <2>2. part = "transport" => [LtNext]_ltVars
    OBVIOUS
  <2>3. part = "contracts" => [ScNext]_scVars
    OBVIOUS
  <2>4. part = "viewer" => [LvNext]_lvVars
    OBVIOUS
  <2>5. part = "wall" => [LlNext]_llVars
    OBVIOUS
  <2> HIDE DEF Next, vars, OthersOff, GwStep, GlStep, LtStep, LvStep, LlStep, PtzStep, RmStep, ScStep,
               DpStep, RoiStep, RcvStep
  <2>6. (part = "transport" => LtInv') /\ (part = "contracts" => ScInv')
    BY <2>2, <2>3, LtStepInv, LtRests, ScStepInv, ScRests DEF LivePagesInv
  <2>7. (part = "viewer" => LvInv') /\ (part = "wall" => LlInv')
    BY <2>4, <2>5, LvStepInv, LvRests, LlStepInv, LlRests DEF LivePagesInv
  <2> QED  BY <2>1, <2>6, <2>7 DEF LivePagesInv
<1> QED  BY <1>1, <1>2, PTL DEF Spec

\* A request is answered, timed out or failed and never forgotten, a client whose effect ran once has
\* one socket, a page shows its own device, a call its service answered ends with the answer to that
\* very call, the viewer follows its peer until one of its three races has happened, and the wall
\* shows the camera selected: for any devices, requests, sessions, cameras, layouts and bounds.
THEOREM LivePagesAccountForAll == Spec => []LivePagesKeepTrack
<1>1. LivePagesInv => LivePagesKeepTrack
  BY LtInvKeeps, ScInvAnswers, LvInvFollows, LlInvShows DEF LivePagesInv, LivePagesKeepTrack
<1> QED  BY <1>1, LivePagesInvariance, PTL

\* The ROI configurator keeps the shape of its state.
RoiFormInv == part = "roi" => RoiForm

THEOREM RoiFormInvariance == Spec => []RoiFormInv
<1>1. Init => RoiFormInv
  BY RoiFormInitially DEF Init, RoiFormInv
<1>2. DevicePagesInv /\ RoiFormInv /\ [Next]_vars => RoiFormInv'
  <2> SUFFICES ASSUME DevicePagesInv, RoiFormInv, [Next]_vars PROVE RoiFormInv'
    OBVIOUS
  <2> USE DEF Next, vars, OthersOff, GwStep, GlStep, LtStep, LvStep, LlStep, PtzStep, RmStep, ScStep,
              DpStep, RoiStep, RcvStep
  <2>1. part' = part
    OBVIOUS
  <2>2. part = "roi" => [RoiNext]_roiVars
    OBVIOUS
  <2> HIDE DEF Next, vars, OthersOff, GwStep, GlStep, LtStep, LvStep, LlStep, PtzStep, RmStep, ScStep,
               DpStep, RoiStep, RcvStep
  <2>3. part = "roi" => RoiForm'
    BY <2>2, RoiFormStep, RoiFormRests DEF DevicePagesInv, RoiFormInv
  <2> QED  BY <2>1, <2>3 DEF RoiFormInv
<1> QED  BY <1>1, <1>2, DevicePagesInvariance, PTL DEF Spec

\* Every component between a browser and a device keeps its types: for any values of the constants.
THEOREM WebLiveTypes == Spec => []WebLiveTypeOK
<1>1. GatewayInv /\ DevicePagesInv /\ LivePagesInv /\ RoiFormInv => WebLiveTypeOK
  <2> SUFFICES ASSUME GatewayInv, DevicePagesInv, LivePagesInv, RoiFormInv PROVE WebLiveTypeOK
    OBVIOUS
  <2>1. (part = "gateway" => GwTypeOK) /\ (part = "limits" => GlTypeOK)
    BY DEF GatewayInv, GwInv, GlInv
  <2>2. (part = "transport" => LtTypeOK) /\ (part = "viewer" => LvTypeOK) /\ (part = "wall" => LlTypeOK)
        /\ (part = "contracts" => ScTypeOK)
    BY LtInvTypes, LvInvTypes, LlInvTypes, ScInvTypes DEF LivePagesInv
  <2>3. (part = "ptz" => PtzTypeOK) /\ (part = "runtime" => RmTypeOK) /\ (part = "panels" => DpTypeOK)
    BY PtzInvStops DEF DevicePagesInv, RmInv, RmTypes, DpInv, DpTypes
  <2>4. (part = "roi" => RoiTypeOK) /\ (part = "canvas" => RcvTypeOK)
    BY RoiFormTypes DEF DevicePagesInv, RoiFormInv, RcvInv
  <2> QED  BY <2>1, <2>2, <2>3, <2>4 DEF WebLiveTypeOK
<1> QED  BY <1>1, GatewayInvariance, DevicePagesInvariance, LivePagesInvariance, RoiFormInvariance, PTL
=============================================================================
