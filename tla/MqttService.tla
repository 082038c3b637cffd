---------------------------- MODULE MqttService ----------------------------
(***************************************************************************)
(* The MQTT side of cloud-comm (device/internal/cloudcomm/mqtt.go): one     *)
(* paho client at a time, replaced by a reconnect loop that the publishers, *)
(* the health monitor and the connection-lost handlers all ask for.         *)
(*                                                                          *)
(* The paho library is modelled by what this code uses of it: IsConnected   *)
(* turns false when the connection breaks, and the connection-lost handler  *)
(* runs some time after that; Disconnect ends a connection without a        *)
(* handler; a publication is acknowledged, fails or times out.  A client    *)
(* and its generation are one number.                                       *)
(***************************************************************************)
EXTENDS Integers, FiniteSets

CONSTANTS
  Publishers, \* goroutines that call PublishEnvelope, one call each
  Loops,      \* room for reconnectLoop goroutines
  MaxClients, \* bound: paho clients connected
  MaxDrops    \* bound: connections the network breaks

ASSUME BoundsAssumption == MaxClients \in Nat /\ MaxDrops \in Nat
\* Clients are numbers; publishers are not.
ASSUME PublishersAssumption == Publishers \cap Int = {}

Clients == 1..MaxClients
None == 0  \* a nil mqtt.Client
MaxAttempts == 2

VARIABLES
  started,      \* startOnce has run
  client,       \* m.client
  ready,        \* m.readyCh is closed
  closed,       \* m.closedCh is closed
  detached,     \* Disconnect has taken m.client away
  reconnecting, \* m.reconnecting
  loop,         \* where each reconnectLoop stands
  fresh,        \* the client each reconnectLoop has just connected
  live,         \* clients for which IsConnected holds
  pc,           \* where each publisher and each connection-lost handler stands
  held,         \* the client each publisher, or handler, works on
  attempt,      \* the attempt each publisher is in
  sent,         \* how often the broker has received each publication
  made,         \* clients connected so far
  drops,        \* connections broken so far
  panicked      \* the process has died of a panic

connVars == <<started, client, ready, closed, detached>>
loopVars == <<reconnecting, loop, fresh>>
netVars  == <<live, made, drops>>
pubVars  == <<pc, held, attempt, sent>>
vars == <<connVars, loopVars, netVars, pubVars, panicked>>

Init ==
  /\ started = FALSE /\ client = None /\ ready = FALSE
  /\ closed = FALSE /\ detached = FALSE
  /\ reconnecting = FALSE
  /\ loop = [l \in Loops |-> "off"] /\ fresh = [l \in Loops |-> None]
  /\ live = {} /\ made = 0 /\ drops = 0
  /\ pc = [g \in Publishers \cup Clients |-> IF g \in Publishers THEN "idle" ELSE "off"]
  /\ held = [g \in Publishers \cup Clients |-> IF g \in Publishers THEN None ELSE g]
  /\ attempt = [k \in Publishers |-> 1] /\ sent = [k \in Publishers |-> 0]
  /\ panicked = FALSE

Goto(g, label) == pc' = [pc EXCEPT ![g] = label]
GotoLoop(l, label) == loop' = [loop EXCEPT ![l] = label]
hasConnectedClient == client # None /\ client \in live

-----------------------------------------------------------------------------
(* ensureReconnectLoop and reconnectLoop                                    *)

\* Mutant: the reconnecting flag is not consulted.
EnsureAlways ==
  \/ closed /\ UNCHANGED loopVars
  \/ /\ ~closed
     /\ reconnecting' = TRUE
     /\ \E l \in Loops : loop[l] = "off" /\ GotoLoop(l, "check")
     /\ UNCHANGED fresh

EnsureReconnectLoop ==
  \/ /\ reconnecting \/ closed
     /\ UNCHANGED loopVars
  \/ /\ ~reconnecting /\ ~closed
     /\ reconnecting' = TRUE
     /\ \E l \in Loops : loop[l] = "off" /\ GotoLoop(l, "check")
     /\ UNCHANGED fresh

Start ==
  /\ ~started
  /\ started' = TRUE
  /\ EnsureReconnectLoop
  /\ UNCHANGED <<client, ready, closed, detached, netVars, pubVars, panicked>>

\* Mutant: the monitor is never started.
MonitorAsleep == FALSE /\ UNCHANGED vars

\* StartHealthMonitor, every 15 s.
HealthMonitor ==
  /\ started
  /\ ~hasConnectedClient
  /\ EnsureReconnectLoop
  /\ UNCHANGED <<connVars, netVars, pubVars, panicked>>

LoopCheck(l) ==
  /\ loop[l] = "check"
  /\ GotoLoop(l, IF closed \/ hasConnectedClient THEN "exit" ELSE "dial")
  /\ UNCHANGED <<connVars, reconnecting, fresh, netVars, pubVars, panicked>>

\* Connect and subscribe succeed.
LoopConnect(l) ==
  /\ loop[l] = "dial"
  /\ made < MaxClients
  /\ made' = made + 1
  /\ live' = live \cup {made + 1}
  /\ fresh' = [fresh EXCEPT ![l] = made + 1]
  /\ GotoLoop(l, "activate")
  /\ UNCHANGED <<connVars, reconnecting, drops, pubVars, panicked>>

\* One of them fails or times out: the new client is disconnected, and the
\* loop sleeps unless it is closed.
LoopRefused(l) ==
  /\ loop[l] = "dial"
  /\ GotoLoop(l, IF closed THEN "exit" ELSE "check")
  /\ UNCHANGED <<connVars, reconnecting, fresh, netVars, pubVars, panicked>>

\* activateClient.  Closing the ready channel wakes whoever sleeps on it.  One
\* that is already closed is closed again, and the process dies of it;
\* oldClient.Disconnect comes after.
LoopActivate(l) ==
  /\ loop[l] = "activate"
  /\ client' = fresh[l]
  /\ panicked' = ready
  /\ ready' = TRUE
  /\ live' = IF client = None THEN live ELSE live \ {client}
  /\ pc' = [g \in DOMAIN pc |-> IF pc[g] = "sleep" THEN "woken" ELSE pc[g]]
  /\ GotoLoop(l, "exit")
  /\ UNCHANGED <<started, closed, detached, reconnecting, fresh, made, drops, held,
                 attempt, sent>>

\* The deferred reset of reconnecting.
LoopExit(l) ==
  /\ loop[l] = "exit"
  /\ reconnecting' = FALSE
  /\ GotoLoop(l, "off")
  /\ fresh' = [fresh EXCEPT ![l] = None]
  /\ UNCHANGED <<connVars, netVars, pubVars, panicked>>

-----------------------------------------------------------------------------
(* markDisconnected(generation), called by a publisher or a handler          *)

AfterMark(g) == IF g \in Publishers THEN "retry" ELSE "off"

\* Mutant: the generation is not compared.
DetachAny(g) ==
  /\ pc[g] = "mark"
  /\ \/ client = None /\ Goto(g, AfterMark(g)) /\ UNCHANGED <<client, ready, held>>
     \/ /\ client # None
        /\ client' = None /\ ready' = FALSE
        /\ held' = [held EXCEPT ![g] = client]
        /\ Goto(g, "close")
  /\ UNCHANGED <<started, closed, detached, loopVars, netVars, attempt, sent, panicked>>

Detach(g) ==
  /\ pc[g] = "mark"
  /\ \/ client # held[g] /\ Goto(g, AfterMark(g)) /\ UNCHANGED <<client, ready>>
     \/ /\ client = held[g]
        /\ client' = None /\ ready' = FALSE
        /\ Goto(g, "close")
  /\ UNCHANGED <<started, closed, detached, loopVars, netVars, held, attempt, sent,
                 panicked>>

\* Mutant: a client that still is connected is left alone.
ForgetOld(g) ==
  /\ pc[g] = "close"
  /\ Goto(g, "ensure")
  /\ UNCHANGED <<connVars, loopVars, netVars, held, attempt, sent, panicked>>

\* Disconnect, if the client still is connected.
CloseOld(g) ==
  /\ pc[g] = "close"
  /\ live' = live \ {held[g]}
  /\ Goto(g, "ensure")
  /\ UNCHANGED <<connVars, loopVars, made, drops, held, attempt, sent, panicked>>

Ensure(g) ==
  /\ pc[g] = "ensure"
  /\ EnsureReconnectLoop
  /\ Goto(g, AfterMark(g))
  /\ UNCHANGED <<connVars, netVars, held, attempt, sent, panicked>>

-----------------------------------------------------------------------------
(* PublishEnvelope and waitForClient                                        *)

Publish(k) ==
  /\ pc[k] = "idle"
  /\ Goto(k, "wait")
  /\ UNCHANGED <<connVars, loopVars, netVars, held, attempt, sent, panicked>>

\* waitForClient: closed; a connected client; or a loop is asked for, and the
\* wait goes on until the ready channel that was read with the client is
\* closed, as it already is behind a client that is lost, or a second has passed.
WaitForClient(k) ==
  /\ pc[k] = "wait"
  /\ \/ /\ closed
        /\ Goto(k, "retry") /\ UNCHANGED <<held, loopVars>>
     \/ /\ ~closed /\ hasConnectedClient
        /\ held' = [held EXCEPT ![k] = client]
        /\ Goto(k, "publish") /\ UNCHANGED loopVars
     \/ /\ ~closed /\ ~hasConnectedClient
        /\ EnsureReconnectLoop
        /\ Goto(k, IF ready THEN "woken" ELSE "sleep") /\ UNCHANGED held
  /\ UNCHANGED <<connVars, netVars, attempt, sent, panicked>>

Woken(k) ==
  /\ pc[k] = "woken"
  /\ Goto(k, "wait")
  /\ UNCHANGED <<connVars, loopVars, netVars, held, attempt, sent, panicked>>

\* Mutant: the wait has no timer.
SleepsOn(k) ==
  /\ pc[k] \in {"sleep", "woken"}
  /\ closed
  /\ Goto(k, "retry")
  /\ UNCHANGED <<connVars, loopVars, netVars, held, attempt, sent, panicked>>

\* The timer, or closedCh.
TimeOut(k) ==
  /\ pc[k] \in {"sleep", "woken"}
  /\ Goto(k, "retry")
  /\ UNCHANGED <<connVars, loopVars, netVars, held, attempt, sent, panicked>>

\* Mutant: a publication the broker did not acknowledge is reported as sent.
AckAssumed(k, received, acked) ==
  /\ pc[k] = "publish"
  /\ received => held[k] \in live
  /\ sent' = [sent EXCEPT ![k] = IF received THEN @ + 1 ELSE @]
  /\ Goto(k, "ok")
  /\ UNCHANGED <<connVars, loopVars, netVars, held, attempt, panicked>>

\* client.Publish at QoS 1: the broker receives it or not, and the
\* acknowledgement comes or not within ten seconds.
TryPublish(k, received, acked) ==
  /\ pc[k] = "publish"
  /\ received => held[k] \in live
  /\ acked => received
  /\ sent' = [sent EXCEPT ![k] = IF received THEN @ + 1 ELSE @]
  /\ Goto(k, IF acked THEN "ok" ELSE "mark")
  /\ UNCHANGED <<connVars, loopVars, netVars, held, attempt, panicked>>

\* Mutant: one attempt too many.
RetryOnceMore(k) ==
  /\ pc[k] = "retry"
  /\ IF attempt[k] <= MaxAttempts
     THEN attempt' = [attempt EXCEPT ![k] = @ + 1] /\ Goto(k, "wait")
     ELSE Goto(k, "failed") /\ UNCHANGED attempt
  /\ held' = [held EXCEPT ![k] = None]
  /\ UNCHANGED <<connVars, loopVars, netVars, sent, panicked>>

\* The second attempt is made even when the service is closed.
Retry(k) ==
  /\ pc[k] = "retry"
  /\ IF attempt[k] < MaxAttempts
     THEN attempt' = [attempt EXCEPT ![k] = @ + 1] /\ Goto(k, "wait")
     ELSE Goto(k, "failed") /\ UNCHANGED attempt
  /\ held' = [held EXCEPT ![k] = None]
  /\ UNCHANGED <<connVars, loopVars, netVars, sent, panicked>>

-----------------------------------------------------------------------------
(* The network, and Disconnect                                              *)

\* The connection breaks; its connection-lost handler is on its way.
ConnectionLost(c) ==
  /\ c \in live
  /\ drops < MaxDrops
  /\ drops' = drops + 1
  /\ live' = live \ {c}
  /\ Goto(c, "mark")
  /\ UNCHANGED <<connVars, loopVars, made, held, attempt, sent, panicked>>

CloseFlag ==
  /\ ~closed
  /\ closed' = TRUE
  /\ UNCHANGED <<started, client, ready, detached, loopVars, netVars, pubVars, panicked>>

Disconnect ==
  /\ closed /\ ~detached
  /\ detached' = TRUE
  /\ client' = None /\ ready' = FALSE
  /\ live' = live \ {client}
  /\ UNCHANGED <<started, closed, loopVars, made, drops, pubVars, panicked>>

-----------------------------------------------------------------------------

LoopStep(l) ==
  LoopCheck(l) \/ LoopConnect(l) \/ LoopRefused(l) \/ LoopActivate(l) \/ LoopExit(l)
MarkStep(g) == Detach(g) \/ CloseOld(g) \/ Ensure(g)
PublishStep(k) ==
  \/ WaitForClient(k) \/ Woken(k) \/ TimeOut(k) \/ Retry(k) \/ MarkStep(k)
  \/ \E received, acked \in BOOLEAN : TryPublish(k, received, acked)

\* A panic ends the process.
Next ==
  /\ ~panicked
  /\ \/ Start \/ HealthMonitor \/ CloseFlag \/ Disconnect
     \/ \E l \in Loops : LoopStep(l)
     \/ \E c \in Clients : ConnectionLost(c) \/ MarkStep(c)
     \/ \E k \in Publishers : Publish(k) \/ PublishStep(k)

Spec == Init /\ [][Next]_vars

(***************************************************************************)
(* Every goroutine that can step does so, and the monitor ticks.  Behind a  *)
(* lost client that is still in place waitForClient spins on a ready        *)
(* channel that is closed; it ends because select picks at random among the *)
(* channels that are ready, so the timer is not passed over for ever.       *)
(* Nothing is assumed of the broker.                                        *)
(***************************************************************************)
Fairness ==
  /\ WF_vars(~panicked /\ Start)
  /\ WF_vars(~panicked /\ HealthMonitor)
  /\ WF_vars(~panicked /\ Disconnect)
  /\ \A l \in Loops : WF_vars(~panicked /\ LoopStep(l))
  /\ \A c \in Clients : WF_vars(~panicked /\ MarkStep(c))
  /\ \A k \in Publishers : /\ WF_vars(~panicked /\ PublishStep(k))
                           /\ SF_vars(~panicked /\ TimeOut(k))

FairSpec == Spec /\ Fairness

-----------------------------------------------------------------------------
(* Properties                                                               *)

Place == {"idle", "wait", "sleep", "woken", "publish", "retry", "ok", "failed", "off",
          "mark", "close", "ensure"}

\* The shape of the state.
TypeOK ==
  /\ started \in BOOLEAN /\ ready \in BOOLEAN /\ closed \in BOOLEAN
  /\ detached \in BOOLEAN /\ reconnecting \in BOOLEAN /\ panicked \in BOOLEAN
  /\ client \in 0..MaxClients /\ made \in 0..MaxClients /\ drops \in Nat
  /\ loop \in [Loops -> {"off", "check", "dial", "activate", "exit"}]
  /\ fresh \in [Loops -> 0..MaxClients]
  /\ live \subseteq Clients
  /\ pc \in [Publishers \cup Clients -> Place]
  /\ held \in [Publishers \cup Clients -> 0..MaxClients]
  /\ attempt \in [Publishers -> 1..MaxAttempts]
  /\ sent \in [Publishers -> Nat]

\* Whoever asks for a reconnect loop, there is one at a time, and the flag
\* stands exactly while it exists.
OneReconnectLoop ==
  /\ \A l, m \in Loops : loop[l] # "off" /\ loop[m] # "off" => l = m
  /\ reconnecting <=> \E l \in Loops : loop[l] # "off"

\* Until Disconnect, no paho client is left connected behind the service's
\* back: each is the current one, or about to become it, or about to be
\* disconnected.  A second one would share the ClientID and take over the
\* broker's session.
NoClientLeft ==
  ~closed /\ ~panicked =>
    \A c \in live :
      \/ c = client
      \/ \E l \in Loops : loop[l] = "activate" /\ fresh[l] = c
      \/ \E g \in Publishers \cup Clients : pc[g] = "close" /\ held[g] = c

\* markDisconnected takes away only a client that has been lost or has failed
\* to acknowledge a publication, never one that has replaced it.
OnlyOwnClientDropped ==
  [][client # None /\ client' = None /\ ~closed =>
       \E g \in Publishers \cup Clients : pc[g] = "mark" /\ held[g] = client]_vars

\* PublishEnvelope reports success only if the broker has the message, and
\* the broker never has it more often than attempts were made.
SentPerAttempt ==
  \A k \in Publishers :
    /\ pc[k] = "ok" => sent[k] > 0
    /\ sent[k] <= attempt[k]

\* Every publication returns, whatever happens to the connection.
PublicationsReturn ==
  \A k \in Publishers : pc[k] = "wait" ~> (pc[k] \in {"ok", "failed"} \/ panicked)

\* A broker that is tried again and again accepts in the end.
BrokerAccepts == \A l \in Loops : SF_vars(~panicked /\ LoopConnect(l))

\* A service that is neither closed nor dead is not left without a connected
\* client, if the broker accepts one in the end: what the handlers and the
\* loop miss, the health monitor finds.
Reconnects ==
  BrokerAccepts =>
    ((started /\ ~hasConnectedClient) ~> (hasConnectedClient \/ closed \/ panicked))

\* What activateClient provides for, "oldClient != nil": a client that is lost
\* and still in place is replaced; the process does not die of it.
ReplacesClient == ~panicked
=============================================================================
