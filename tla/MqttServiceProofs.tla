------------------------- MODULE MqttServiceProofs -------------------------
(***************************************************************************)
(* Proofs about MqttService, for every set of publishers, any room for      *)
(* reconnect loops, and any number of clients and lost connections.         *)
(***************************************************************************)
EXTENDS MqttService, TLAPS

(***************************************************************************)
(* The inductive invariant.                                                 *)
(***************************************************************************)

\* A loop about to activate a client has one.
FreshShape == \A l \in Loops : loop[l] = "activate" => fresh[l] \in Clients

\* The connection-lost handler of a client works on that client, and does not
\* run before the client is lost.
HandlerShape ==
  \A c \in Clients :
    /\ held[c] = c
    /\ c \in live => c <= made
    /\ c \in live \/ c > made => pc[c] = "off"

\* Each attempt hands the broker the message at most once, when it publishes.
SentShape ==
  \A k \in Publishers :
    /\ sent[k] <= attempt[k]
    /\ pc[k] \in {"idle", "wait", "sleep", "woken", "publish"} => sent[k] < attempt[k]
    /\ pc[k] = "ok" => sent[k] > 0

IInv ==
  /\ TypeOK
  /\ OneReconnectLoop
  /\ FreshShape
  /\ HandlerShape
  /\ SentShape
  /\ NoClientLeft

LEMMA InitInv == Init => IInv
<1> SUFFICES ASSUME Init PROVE IInv
  OBVIOUS
<1>1. TypeOK
  <2> DEFINE G == Publishers \cup Clients
  <2>1. pc \in [G -> Place]
    <3>1. \A g \in G : (IF g \in Publishers THEN "idle" ELSE "off") \in Place
      BY DEF Place
    <3> QED BY <3>1 DEF Init
  <2>2. held \in [G -> 0..MaxClients]
    <3>1. \A g \in G : (IF g \in Publishers THEN None ELSE g) \in 0..MaxClients
      BY BoundsAssumption DEF Clients, None
    <3> QED BY <3>1 DEF Init
  <2>3. attempt \in [Publishers -> 1..MaxAttempts] /\ sent \in [Publishers -> Nat]
    BY DEF Init, MaxAttempts
  <2>4. fresh \in [Loops -> 0..MaxClients] /\ client \in 0..MaxClients /\ made \in 0..MaxClients
        /\ drops \in Nat
    BY BoundsAssumption DEF Init, None
  <2>5. loop \in [Loops -> {"off", "check", "dial", "activate", "exit"}] /\ live \subseteq Clients
    BY DEF Init
  <2> QED
    BY <2>1, <2>2, <2>3, <2>4, <2>5 DEF Init, TypeOK
<1>2. OneReconnectLoop
  BY DEF Init, OneReconnectLoop
<1>3. FreshShape
  BY DEF Init, FreshShape
<1>4. HandlerShape
  BY BoundsAssumption, PublishersAssumption DEF Init, HandlerShape, Clients
<1>5. SentShape
  BY DEF Init, SentShape
<1>6. NoClientLeft
  BY DEF Init, NoClientLeft
<1> QED
  BY <1>1, <1>2, <1>3, <1>4, <1>5, <1>6 DEF IInv

-----------------------------------------------------------------------------
(* One reconnect loop                                                       *)

\* Whoever asks for a loop leaves one, or none, behind.
LEMMA EnsureKeepsOne ==
  ASSUME TypeOK, OneReconnectLoop, FreshShape, EnsureReconnectLoop
  PROVE  /\ OneReconnectLoop' /\ FreshShape'
         /\ reconnecting' \in BOOLEAN
         /\ loop' \in [Loops -> {"off", "check", "dial", "activate", "exit"}]
         /\ fresh' = fresh
         /\ \A l \in Loops : loop[l] = "activate" => loop'[l] = "activate"
<1>1. CASE UNCHANGED loopVars
  BY <1>1 DEF TypeOK, OneReconnectLoop, FreshShape, loopVars
<1>2. CASE ~reconnecting /\ reconnecting' = TRUE /\ UNCHANGED fresh
           /\ \E l \in Loops : loop[l] = "off" /\ GotoLoop(l, "check")
  <2>1. PICK l \in Loops : loop[l] = "off" /\ GotoLoop(l, "check")
    BY <1>2
  <2>2. \A m \in Loops : loop[m] = "off"
    BY <1>2 DEF OneReconnectLoop
  <2> QED
    BY <1>2, <2>1, <2>2 DEF TypeOK, OneReconnectLoop, FreshShape, GotoLoop
<1> QED
  BY <1>1, <1>2 DEF EnsureReconnectLoop

\* A loop that moves on, or ends, is the only one.
LEMMA LoopStepKeepsOne ==
  ASSUME TypeOK, OneReconnectLoop, FreshShape, NEW l \in Loops,
         LoopCheck(l) \/ LoopConnect(l) \/ LoopRefused(l) \/ LoopActivate(l) \/ LoopExit(l)
  PROVE  OneReconnectLoop' /\ FreshShape'
<1>1. CASE LoopCheck(l) \/ LoopRefused(l)
  BY <1>1 DEF LoopCheck, LoopRefused, TypeOK, OneReconnectLoop, FreshShape, GotoLoop
<1>2. CASE LoopConnect(l)
  <2>1. made + 1 \in Clients
    BY <1>2, BoundsAssumption DEF LoopConnect, TypeOK, Clients
  <2> QED
    BY <1>2, <2>1 DEF LoopConnect, TypeOK, OneReconnectLoop, FreshShape, GotoLoop
<1>3. CASE LoopActivate(l)
  BY <1>3 DEF LoopActivate, TypeOK, OneReconnectLoop, FreshShape, GotoLoop
<1>4. CASE LoopExit(l)
  BY <1>4 DEF LoopExit, TypeOK, OneReconnectLoop, FreshShape, GotoLoop
<1> QED
  BY <1>1, <1>2, <1>3, <1>4

LEMMA OneLoopStep == IInv /\ [Next]_vars => OneReconnectLoop' /\ FreshShape'
<1> SUFFICES ASSUME IInv, [Next]_vars PROVE OneReconnectLoop' /\ FreshShape'
  OBVIOUS
<1> USE DEF IInv
<1>0. UNCHANGED loopVars => OneReconnectLoop' /\ FreshShape'
  BY DEF OneReconnectLoop, FreshShape, loopVars
<1>1. CASE UNCHANGED vars
  BY <1>0, <1>1 DEF vars
<1>2. CASE Next
  <2>1. Start \/ HealthMonitor \/ CloseFlag \/ Disconnect => OneReconnectLoop' /\ FreshShape'
    BY <1>0, EnsureKeepsOne DEF Start, HealthMonitor, CloseFlag, Disconnect
  <2>2. \A c \in Clients : ConnectionLost(c) => OneReconnectLoop' /\ FreshShape'
    BY <1>0 DEF ConnectionLost
  <2>3. \A g \in Publishers \cup Clients :
          Detach(g) \/ CloseOld(g) \/ Ensure(g) => OneReconnectLoop' /\ FreshShape'
    BY <1>0, EnsureKeepsOne DEF Detach, CloseOld, Ensure
  <2>4. \A k \in Publishers :
          Publish(k) \/ WaitForClient(k) \/ Woken(k) \/ TimeOut(k) \/ Retry(k)
            => OneReconnectLoop' /\ FreshShape'
    BY <1>0, EnsureKeepsOne DEF Publish, WaitForClient, Woken, TimeOut, Retry
  <2>5. \A k \in Publishers : \A received, acked \in BOOLEAN :
          TryPublish(k, received, acked) => OneReconnectLoop' /\ FreshShape'
    BY <1>0 DEF TryPublish
  <2>6. \A l \in Loops : LoopCheck(l) \/ LoopConnect(l) \/ LoopRefused(l)
          \/ LoopActivate(l) \/ LoopExit(l) => OneReconnectLoop' /\ FreshShape'
    BY LoopStepKeepsOne
  <2> QED
    BY <1>2, <2>1, <2>2, <2>3, <2>4, <2>5, <2>6
       DEF Next, LoopStep, MarkStep, PublishStep
<1> QED
  BY <1>1, <1>2

-----------------------------------------------------------------------------
(* Types                                                                    *)

LEMMA Disjoint == \A k \in Publishers : k \notin Clients
BY PublishersAssumption, BoundsAssumption DEF Clients

\* What a step of a goroutine that moves to a known place does to pc.
LEMMA GotoType ==
  ASSUME TypeOK, NEW g \in Publishers \cup Clients, NEW label \in Place, Goto(g, label)
  PROVE  pc' \in [Publishers \cup Clients -> Place]
BY DEF TypeOK, Goto

LEMMA TypeStep == IInv /\ [Next]_vars => TypeOK'
<1> SUFFICES ASSUME IInv, [Next]_vars PROVE TypeOK'
  OBVIOUS
<1>0. TypeOK /\ OneReconnectLoop /\ FreshShape
  BY DEF IInv
<1> USE <1>0
<1>1. CASE UNCHANGED vars
  BY <1>1 DEF TypeOK, vars, connVars, loopVars, netVars, pubVars
<1>2. CASE Start
  BY <1>2, EnsureKeepsOne DEF Start, TypeOK, netVars, pubVars
<1>3. CASE HealthMonitor
  BY <1>3, EnsureKeepsOne DEF HealthMonitor, TypeOK, connVars, netVars, pubVars
<1>4. CASE CloseFlag
  BY <1>4 DEF CloseFlag, TypeOK, loopVars, netVars, pubVars
<1>5. CASE Disconnect
  <2>1. client' \in 0..MaxClients /\ live' \subseteq Clients
    BY <1>5, BoundsAssumption DEF Disconnect, TypeOK, None
  <2> QED
    BY <1>5, <2>1 DEF Disconnect, TypeOK, loopVars, pubVars
<1>6. ASSUME NEW l \in Loops, LoopCheck(l) \/ LoopRefused(l) PROVE TypeOK'
  BY <1>6 DEF LoopCheck, LoopRefused, GotoLoop, TypeOK, connVars, netVars, pubVars
<1>7. ASSUME NEW l \in Loops, LoopConnect(l) PROVE TypeOK'
  <2>1. made + 1 \in Clients /\ made + 1 \in 0..MaxClients
    BY <1>7, BoundsAssumption DEF LoopConnect, TypeOK, Clients
  <2>2. live' \subseteq Clients /\ made' \in 0..MaxClients
        /\ fresh' \in [Loops -> 0..MaxClients]
    BY <1>7, <2>1 DEF LoopConnect, TypeOK
  <2> QED
    BY <1>7, <2>2 DEF LoopConnect, GotoLoop, TypeOK, connVars, pubVars
<1>8. ASSUME NEW l \in Loops, LoopActivate(l) PROVE TypeOK'
  <2>1. pc' \in [Publishers \cup Clients -> Place]
    BY <1>8 DEF LoopActivate, TypeOK, Place
  <2>2. live' \subseteq Clients /\ client' \in 0..MaxClients
    BY <1>8 DEF LoopActivate, TypeOK
  <2>3. panicked' \in BOOLEAN /\ ready' \in BOOLEAN
    BY <1>8 DEF LoopActivate, TypeOK
  <2>4. loop' \in [Loops -> {"off", "check", "dial", "activate", "exit"}]
    BY <1>8 DEF LoopActivate, GotoLoop, TypeOK
  <2> QED
    BY <1>8, <2>1, <2>2, <2>3, <2>4 DEF LoopActivate, TypeOK
<1>9. ASSUME NEW l \in Loops, LoopExit(l) PROVE TypeOK'
  <2>1. fresh' \in [Loops -> 0..MaxClients]
    BY <1>9, BoundsAssumption DEF LoopExit, TypeOK, None
  <2>2. loop' \in [Loops -> {"off", "check", "dial", "activate", "exit"}]
    BY <1>9 DEF LoopExit, GotoLoop, TypeOK
  <2> QED
    BY <1>9, <2>1, <2>2 DEF LoopExit, TypeOK, connVars, netVars, pubVars
<1>10. ASSUME NEW c \in Clients, ConnectionLost(c) PROVE TypeOK'
  <2>1. pc' \in [Publishers \cup Clients -> Place]
    BY <1>10, GotoType DEF ConnectionLost, Place
  <2>2. live' \subseteq Clients /\ drops' \in Nat
    BY <1>10 DEF ConnectionLost, TypeOK
  <2> QED
    BY <1>10, <2>1, <2>2 DEF ConnectionLost, TypeOK, connVars, loopVars
<1>11. ASSUME NEW g \in Publishers \cup Clients, Detach(g) \/ CloseOld(g) \/ Ensure(g)
       PROVE  TypeOK'
  <2>0. AfterMark(g) \in Place /\ "close" \in Place /\ "ensure" \in Place
    BY DEF AfterMark, Place
  <2>1. CASE Detach(g)
    <3>1. pc' \in [Publishers \cup Clients -> Place]
      BY <2>0, <2>1, GotoType DEF Detach
    <3>2. client' \in 0..MaxClients
      BY <2>1, BoundsAssumption DEF Detach, TypeOK, None
    <3>3. ready' \in BOOLEAN
      BY <2>1 DEF Detach, TypeOK
    <3> QED
      BY <2>1, <3>1, <3>2, <3>3 DEF Detach, TypeOK, loopVars, netVars
  <2>2. CASE CloseOld(g)
    <3>1. pc' \in [Publishers \cup Clients -> Place]
      BY <2>0, <2>2, GotoType DEF CloseOld
    <3> QED
      BY <2>2, <3>1 DEF CloseOld, TypeOK, loopVars, connVars
  <2>3. CASE Ensure(g)
    <3>1. pc' \in [Publishers \cup Clients -> Place]
      BY <2>0, <2>3, GotoType DEF Ensure
    <3> QED
      BY <2>3, <3>1, EnsureKeepsOne DEF Ensure, TypeOK, connVars, netVars
  <2> QED
    BY <1>11, <2>1, <2>2, <2>3
<1>12. ASSUME NEW k \in Publishers, Publish(k) \/ Woken(k) \/ TimeOut(k) PROVE TypeOK'
  <2>1. pc' \in [Publishers \cup Clients -> Place]
    BY <1>12, GotoType DEF Publish, Woken, TimeOut, Place
  <2> QED
    BY <1>12, <2>1 DEF Publish, Woken, TimeOut, TypeOK, connVars, loopVars, netVars
<1>13. ASSUME NEW k \in Publishers, WaitForClient(k) PROVE TypeOK'
  <2>1. pc' \in [Publishers \cup Clients -> Place]
    BY <1>13, GotoType DEF WaitForClient, Place
  <2>2. held' \in [Publishers \cup Clients -> 0..MaxClients]
    BY <1>13 DEF WaitForClient, TypeOK
  <2>3. /\ reconnecting' \in BOOLEAN /\ fresh' = fresh
        /\ loop' \in [Loops -> {"off", "check", "dial", "activate", "exit"}]
    BY <1>13, EnsureKeepsOne DEF WaitForClient, TypeOK, loopVars
  <2> QED
    BY <1>13, <2>1, <2>2, <2>3 DEF WaitForClient, TypeOK, connVars, netVars
<1>14. ASSUME NEW k \in Publishers, NEW received \in BOOLEAN, NEW acked \in BOOLEAN,
              TryPublish(k, received, acked)
       PROVE  TypeOK'
  <2>1. pc' \in [Publishers \cup Clients -> Place]
    BY <1>14, GotoType DEF TryPublish, Place
  <2>2. sent' \in [Publishers -> Nat]
    BY <1>14 DEF TryPublish, TypeOK
  <2> QED
    BY <1>14, <2>1, <2>2 DEF TryPublish, TypeOK, connVars, loopVars, netVars
<1>15. ASSUME NEW k \in Publishers, Retry(k) PROVE TypeOK'
  <2>1. pc' \in [Publishers \cup Clients -> Place]
    BY <1>15, GotoType DEF Retry, Place
  <2>2. held' \in [Publishers \cup Clients -> 0..MaxClients]
    BY <1>15, BoundsAssumption DEF Retry, TypeOK, None
  <2>3. attempt' \in [Publishers -> 1..MaxAttempts]
    BY <1>15 DEF Retry, TypeOK, MaxAttempts
  <2> QED
    BY <1>15, <2>1, <2>2, <2>3 DEF Retry, TypeOK, connVars, loopVars, netVars
<1> QED
  BY <1>1, <1>2, <1>3, <1>4, <1>5, <1>6, <1>7, <1>8, <1>9, <1>10, <1>11, <1>12, <1>13,
     <1>14, <1>15 DEF Next, LoopStep, MarkStep, PublishStep

-----------------------------------------------------------------------------
(* The connection-lost handlers                                             *)

\* A publisher's step leaves the handlers where they are.
LEMMA PublisherOnly ==
  ASSUME IInv, NEW k \in Publishers, NEW label, NEW c \in Clients, Goto(k, label)
  PROVE  pc'[c] = pc[c]
BY Disjoint DEF IInv, TypeOK, Goto

LEMMA HandlerStep == IInv /\ [Next]_vars => HandlerShape'
<1> SUFFICES ASSUME IInv, [Next]_vars, NEW c \in Clients
             PROVE  /\ held'[c] = c
                    /\ c \in live' => c <= made'
                    /\ c \in live' \/ c > made' => pc'[c] = "off"
  BY DEF HandlerShape
<1> DEFINE P == /\ held'[c] = c
                /\ c \in live' => c <= made'
                /\ c \in live' \/ c > made' => pc'[c] = "off"
<1>0. TypeOK /\ HandlerShape
  BY DEF IInv
<1>1. made \in Int /\ c \in Int
  BY <1>0, BoundsAssumption DEF TypeOK, Clients
<1>2. CASE UNCHANGED <<pc, held>> /\ live' \subseteq live /\ made' = made
  BY <1>0, <1>2 DEF HandlerShape
<1>3. CASE UNCHANGED vars \/ Start \/ HealthMonitor \/ CloseFlag \/ Disconnect
  BY <1>2, <1>3 DEF vars, Start, HealthMonitor, CloseFlag, Disconnect, netVars, pubVars
<1>4. ASSUME NEW l \in Loops, LoopCheck(l) \/ LoopRefused(l) \/ LoopExit(l) PROVE P
  BY <1>2, <1>4 DEF LoopCheck, LoopRefused, LoopExit, netVars, pubVars
<1>5. ASSUME NEW l \in Loops, LoopConnect(l) PROVE P
  BY <1>0, <1>1, <1>5 DEF LoopConnect, pubVars, HandlerShape
<1>6. ASSUME NEW l \in Loops, LoopActivate(l) PROVE P
  <2>1. pc[c] = "off" => pc'[c] = "off"
    BY <1>0, <1>6 DEF LoopActivate, TypeOK
  <2>2. live' \subseteq live /\ made' = made /\ held' = held
    BY <1>6 DEF LoopActivate
  <2> QED
    BY <1>0, <2>1, <2>2 DEF HandlerShape
<1>7. ASSUME NEW d \in Clients, ConnectionLost(d) PROVE P
  <2>1. c # d => pc'[c] = pc[c]
    BY <1>0, <1>7 DEF ConnectionLost, Goto, TypeOK
  <2>2. live' = live \ {d} /\ made' = made /\ held' = held /\ d \in live
    BY <1>7 DEF ConnectionLost
  <2>3. CASE c = d
    BY <1>0, <1>1, <2>2, <2>3 DEF HandlerShape
  <2> QED
    BY <1>0, <2>1, <2>2, <2>3 DEF HandlerShape
<1>8. ASSUME NEW g \in Publishers \cup Clients, Detach(g) \/ CloseOld(g) \/ Ensure(g)
      PROVE  P
  <2>1. held' = held /\ made' = made /\ live' \subseteq live
    BY <1>8 DEF Detach, CloseOld, Ensure, netVars
  <2>2. pc[g] # "off" /\ (c # g => pc'[c] = pc[c])
    BY <1>0, <1>8 DEF Detach, CloseOld, Ensure, Goto, TypeOK
  <2>3. CASE c = g
    BY <1>0, <2>1, <2>2, <2>3 DEF HandlerShape
  <2> QED
    BY <1>0, <2>1, <2>2, <2>3 DEF HandlerShape
<1>9. ASSUME NEW k \in Publishers,
             Publish(k) \/ WaitForClient(k) \/ Woken(k) \/ TimeOut(k) \/ Retry(k)
      PROVE  P
  <2>1. pc'[c] = pc[c]
    BY <1>9, PublisherOnly DEF Publish, WaitForClient, Woken, TimeOut, Retry
  <2>2. held'[c] = held[c]
    BY <1>0, <1>9, Disjoint DEF Publish, WaitForClient, Woken, TimeOut, Retry, TypeOK
  <2>3. live' = live /\ made' = made
    BY <1>9 DEF Publish, WaitForClient, Woken, TimeOut, Retry, netVars
  <2> QED
    BY <1>0, <2>1, <2>2, <2>3 DEF HandlerShape
<1>10. ASSUME NEW k \in Publishers, NEW received \in BOOLEAN, NEW acked \in BOOLEAN,
              TryPublish(k, received, acked)
       PROVE  P
  <2>1. pc'[c] = pc[c]
    BY <1>10, PublisherOnly DEF TryPublish
  <2> QED
    BY <1>0, <1>10, <2>1 DEF TryPublish, netVars, HandlerShape
<1> QED
  BY <1>3, <1>4, <1>5, <1>6, <1>7, <1>8, <1>9, <1>10
     DEF Next, LoopStep, MarkStep, PublishStep

-----------------------------------------------------------------------------
(* Publications                                                             *)

LEMMA SentStep == IInv /\ [Next]_vars => SentShape'
<1> SUFFICES ASSUME IInv, [Next]_vars, NEW k \in Publishers
             PROVE  /\ sent'[k] <= attempt'[k]
                    /\ pc'[k] \in {"idle", "wait", "sleep", "woken", "publish"} =>
                         sent'[k] < attempt'[k]
                    /\ pc'[k] = "ok" => sent'[k] > 0
  BY DEF SentShape
<1> DEFINE Before == {"idle", "wait", "sleep", "woken", "publish"}
           P == /\ sent'[k] <= attempt'[k]
                /\ pc'[k] \in Before => sent'[k] < attempt'[k]
                /\ pc'[k] = "ok" => sent'[k] > 0
<1>0. TypeOK /\ SentShape
  BY DEF IInv
<1>1. sent[k] \in Nat /\ attempt[k] \in 1..MaxAttempts
  BY <1>0 DEF TypeOK
\* Nobody but k sends, or counts the attempts, of k.
<1>2. CASE /\ sent'[k] = sent[k] /\ attempt'[k] = attempt[k]
           /\ pc'[k] \in Before => pc[k] \in Before
           /\ pc'[k] = "ok" => pc[k] = "ok"
  BY <1>0, <1>2 DEF SentShape
<1>3. CASE UNCHANGED vars \/ Start \/ HealthMonitor \/ CloseFlag \/ Disconnect
  BY <1>2, <1>3 DEF vars, Start, HealthMonitor, CloseFlag, Disconnect, pubVars
<1>4. ASSUME NEW l \in Loops, LoopCheck(l) \/ LoopConnect(l) \/ LoopRefused(l) \/ LoopExit(l)
      PROVE  P
  BY <1>2, <1>4 DEF LoopCheck, LoopConnect, LoopRefused, LoopExit, pubVars
<1>5. ASSUME NEW l \in Loops, LoopActivate(l) PROVE P
  <2>1. pc'[k] = IF pc[k] = "sleep" THEN "woken" ELSE pc[k]
    BY <1>0, <1>5 DEF LoopActivate, TypeOK
  <2> QED
    BY <1>2, <1>5, <2>1 DEF LoopActivate
<1>6. ASSUME NEW d \in Clients, ConnectionLost(d) PROVE P
  BY <1>0, <1>2, <1>6, Disjoint DEF ConnectionLost, Goto, TypeOK
<1>7. ASSUME NEW g \in Publishers \cup Clients, Detach(g) \/ CloseOld(g) \/ Ensure(g)
      PROVE  P
  <2>1. sent' = sent /\ attempt' = attempt
    BY <1>7 DEF Detach, CloseOld, Ensure
  <2>2. g # k => pc'[k] = pc[k]
    BY <1>0, <1>7 DEF Detach, CloseOld, Ensure, Goto, TypeOK
  <2>3. g = k => pc'[k] \in {"retry", "close", "ensure"}
    BY <1>0, <1>7 DEF Detach, CloseOld, Ensure, Goto, AfterMark, TypeOK
  <2> QED
    BY <1>2, <2>1, <2>2, <2>3
<1>8. ASSUME NEW j \in Publishers,
             Publish(j) \/ WaitForClient(j) \/ Woken(j) \/ TimeOut(j)
      PROVE  P
  <2>1. sent' = sent /\ attempt' = attempt
    BY <1>8 DEF Publish, WaitForClient, Woken, TimeOut
  <2>2. j # k => pc'[k] = pc[k]
    BY <1>0, <1>8 DEF Publish, WaitForClient, Woken, TimeOut, Goto, TypeOK
  <2>3. j = k => pc[k] \in Before /\ pc'[k] # "ok"
    BY <1>0, <1>8 DEF Publish, WaitForClient, Woken, TimeOut, Goto, TypeOK
  <2> QED
    BY <1>2, <2>1, <2>2, <2>3
<1>9. ASSUME NEW j \in Publishers, NEW received \in BOOLEAN, NEW acked \in BOOLEAN,
             TryPublish(j, received, acked)
      PROVE  P
  <2>1. CASE j # k
    BY <1>0, <1>2, <1>9, <2>1 DEF TryPublish, Goto, TypeOK
  <2>2. CASE j = k
    <3>1. pc[k] = "publish" /\ attempt' = attempt
      BY <1>9, <2>2 DEF TryPublish
    <3>2. sent'[k] = IF received THEN sent[k] + 1 ELSE sent[k]
      BY <1>0, <1>9, <2>2 DEF TryPublish, TypeOK
    <3>3. pc'[k] = (IF acked THEN "ok" ELSE "mark") /\ (acked => received)
      BY <1>0, <1>9, <2>2 DEF TryPublish, Goto, TypeOK
    <3>4. sent[k] < attempt[k]
      BY <1>0, <3>1 DEF SentShape
    <3> QED
      BY <1>1, <3>1, <3>2, <3>3, <3>4
  <2> QED
    BY <2>1, <2>2
<1>10. ASSUME NEW j \in Publishers, Retry(j) PROVE P
  <2>1. CASE j # k
    BY <1>0, <1>2, <1>10, <2>1 DEF Retry, Goto, TypeOK
  <2>2. CASE j = k /\ attempt[k] < MaxAttempts
    <3>1. sent' = sent /\ attempt'[k] = attempt[k] + 1 /\ pc'[k] = "wait"
      BY <1>0, <1>10, <2>2 DEF Retry, Goto, TypeOK
    <3> QED
      BY <1>0, <1>1, <3>1 DEF SentShape
  <2>3. CASE j = k /\ ~(attempt[k] < MaxAttempts)
    <3>1. sent' = sent /\ attempt' = attempt /\ pc'[k] = "failed"
      BY <1>0, <1>10, <2>3 DEF Retry, Goto, TypeOK
    <3> QED
      BY <1>2, <3>1
  <2> QED
    BY <2>1, <2>2, <2>3
<1> QED
  BY <1>3, <1>4, <1>5, <1>6, <1>7, <1>8, <1>9, <1>10
     DEF Next, LoopStep, MarkStep, PublishStep

-----------------------------------------------------------------------------
(* No client is left connected                                              *)

\* Why a client is not left behind.
Accounted(c) ==
  \/ c = client
  \/ \E l \in Loops : loop[l] = "activate" /\ fresh[l] = c
  \/ \E g \in Publishers \cup Clients : pc[g] = "close" /\ held[g] = c

LEMMA LeftStep == IInv /\ [Next]_vars => NoClientLeft'
<1> SUFFICES ASSUME IInv, [Next]_vars, ~closed', ~panicked', NEW c \in live'
             PROVE  Accounted(c)'
  BY DEF NoClientLeft, Accounted
<1>0. TypeOK /\ OneReconnectLoop /\ FreshShape /\ HandlerShape /\ NoClientLeft
  BY DEF IInv
<1>1. ASSUME ~closed, ~panicked, c \in live PROVE Accounted(c)
  BY <1>0, <1>1 DEF NoClientLeft, Accounted
\* A goroutine that is not at "close" may move on.
<1>2. ASSUME NEW g \in Publishers \cup Clients, pc[g] # "close",
             \A h \in Publishers \cup Clients : h # g => pc'[h] = pc[h] /\ held'[h] = held[h],
             client' = client,
             \A l \in Loops : loop[l] = "activate" => loop'[l] = "activate" /\ fresh'[l] = fresh[l],
             Accounted(c)
      PROVE  Accounted(c)'
  BY <1>2 DEF Accounted
<1>3. CASE UNCHANGED vars
  BY <1>1, <1>3 DEF vars, connVars, loopVars, netVars, pubVars, Accounted
<1>4. CASE Start \/ HealthMonitor
  <2>1. /\ ~closed /\ ~panicked /\ c \in live /\ client' = client
        /\ pc' = pc /\ held' = held /\ EnsureReconnectLoop
    BY <1>4 DEF Start, HealthMonitor, connVars, netVars, pubVars
  <2> QED
    BY <1>0, <1>1, <2>1, EnsureKeepsOne DEF Accounted
<1>5. CASE CloseFlag \/ Disconnect
  BY <1>5 DEF CloseFlag, Disconnect
<1>6. ASSUME NEW l \in Loops, LoopCheck(l) \/ LoopRefused(l) \/ LoopExit(l)
      PROVE  Accounted(c)'
  <2>1. /\ ~closed /\ ~panicked /\ c \in live /\ client' = client
        /\ pc' = pc /\ held' = held /\ loop[l] # "activate"
    BY <1>6 DEF LoopCheck, LoopRefused, LoopExit, connVars, netVars, pubVars
  <2>2. \A m \in Loops : m # l => loop'[m] = loop[m] /\ fresh'[m] = fresh[m]
    BY <1>0, <1>6 DEF LoopCheck, LoopRefused, LoopExit, GotoLoop, TypeOK
  <2> QED
    BY <1>1, <2>1, <2>2 DEF Accounted
<1>7. ASSUME NEW l \in Loops, LoopConnect(l) PROVE Accounted(c)'
  <2>1. /\ ~closed /\ ~panicked /\ client' = client /\ pc' = pc /\ held' = held
        /\ loop[l] = "dial" /\ live' = live \cup {made + 1}
    BY <1>7 DEF LoopConnect, connVars, pubVars
  <2>2. loop'[l] = "activate" /\ fresh'[l] = made + 1
    BY <1>0, <1>7 DEF LoopConnect, GotoLoop, TypeOK
  <2>3. \A m \in Loops : m # l => loop'[m] = loop[m] /\ fresh'[m] = fresh[m]
    BY <1>0, <1>7 DEF LoopConnect, GotoLoop, TypeOK
  <2> QED
    BY <1>1, <2>1, <2>2, <2>3 DEF Accounted
<1>8. ASSUME NEW l \in Loops, LoopActivate(l), ~panicked PROVE Accounted(c)'
  <2>1. /\ ~closed /\ client' = fresh[l] /\ held' = held /\ fresh' = fresh
        /\ c \in live /\ (client # None => c # client)
    BY <1>8 DEF LoopActivate
  <2>2. \A m \in Loops : m # l => loop'[m] = loop[m]
    BY <1>0, <1>8 DEF LoopActivate, GotoLoop, TypeOK
  <2>3. \A g \in Publishers \cup Clients : pc[g] = "close" => pc'[g] = "close"
    BY <1>0, <1>8 DEF LoopActivate, TypeOK
  <2>4. c # None
    BY <1>0, <2>1, BoundsAssumption DEF TypeOK, Clients, None
  <2> QED
    BY <1>1, <1>8, <2>1, <2>2, <2>3, <2>4 DEF Accounted
<1>9. ASSUME NEW d \in Clients, ConnectionLost(d) PROVE Accounted(c)'
  <2>1. /\ ~closed /\ ~panicked /\ c \in live /\ d \in live /\ client' = client
        /\ held' = held /\ loop' = loop /\ fresh' = fresh
    BY <1>9 DEF ConnectionLost, connVars, loopVars
  <2>2. pc[d] = "off"
    BY <1>0, <2>1 DEF HandlerShape
  <2>3. \A h \in Publishers \cup Clients : h # d => pc'[h] = pc[h]
    BY <1>0, <1>9 DEF ConnectionLost, Goto, TypeOK
  <2> QED
    BY <1>1, <1>2, <2>1, <2>2, <2>3
<1>10. ASSUME NEW g \in Publishers \cup Clients, Detach(g) PROVE Accounted(c)'
  <2>1. /\ ~closed /\ ~panicked /\ c \in live /\ held' = held
        /\ loop' = loop /\ fresh' = fresh /\ pc[g] = "mark"
    BY <1>10 DEF Detach, loopVars, netVars
  <2>2. \A h \in Publishers \cup Clients : h # g => pc'[h] = pc[h]
    BY <1>0, <1>10 DEF Detach, Goto, TypeOK
  <2>3. client' = client \/ (client = held[g] /\ pc'[g] = "close")
    BY <1>0, <1>10 DEF Detach, Goto, TypeOK
  <2> QED
    BY <1>1, <2>1, <2>2, <2>3 DEF Accounted
<1>11. ASSUME NEW g \in Publishers \cup Clients, CloseOld(g) PROVE Accounted(c)'
  <2>1. /\ ~closed /\ ~panicked /\ c \in live /\ c # held[g] /\ held' = held
        /\ client' = client /\ loop' = loop /\ fresh' = fresh
    BY <1>11 DEF CloseOld, connVars, loopVars
  <2>2. \A h \in Publishers \cup Clients : h # g => pc'[h] = pc[h]
    BY <1>0, <1>11 DEF CloseOld, Goto, TypeOK
  <2> QED
    BY <1>1, <2>1, <2>2 DEF Accounted
<1>12. ASSUME NEW g \in Publishers \cup Clients, Ensure(g) PROVE Accounted(c)'
  <2>1. /\ ~closed /\ ~panicked /\ c \in live /\ held' = held
        /\ client' = client /\ pc[g] = "ensure" /\ EnsureReconnectLoop
    BY <1>12 DEF Ensure, connVars, netVars
  <2>2. \A h \in Publishers \cup Clients : h # g => pc'[h] = pc[h]
    BY <1>0, <1>12 DEF Ensure, Goto, TypeOK
  <2>3. \A l \in Loops : loop[l] = "activate" => loop'[l] = "activate" /\ fresh'[l] = fresh[l]
    BY <1>0, <2>1, EnsureKeepsOne
  <2> QED
    BY <1>1, <1>2, <2>1, <2>2, <2>3
<1>13. ASSUME NEW k \in Publishers, Publish(k) \/ Woken(k) \/ TimeOut(k) \/ Retry(k)
       PROVE  Accounted(c)'
  <2>1. /\ ~closed /\ ~panicked /\ c \in live /\ client' = client
        /\ loop' = loop /\ fresh' = fresh /\ pc[k] # "close"
    BY <1>13 DEF Publish, Woken, TimeOut, Retry, connVars, loopVars, netVars
  <2>2. \A h \in Publishers \cup Clients : h # k => pc'[h] = pc[h] /\ held'[h] = held[h]
    BY <1>0, <1>13 DEF Publish, Woken, TimeOut, Retry, Goto, TypeOK
  <2> QED
    BY <1>1, <1>2, <2>1, <2>2
<1>14. ASSUME NEW k \in Publishers, WaitForClient(k) PROVE Accounted(c)'
  <2>1. /\ ~closed /\ ~panicked /\ c \in live /\ client' = client /\ pc[k] = "wait"
    BY <1>14 DEF WaitForClient, connVars, netVars
  <2>2. \A h \in Publishers \cup Clients : h # k => pc'[h] = pc[h] /\ held'[h] = held[h]
    BY <1>0, <1>14 DEF WaitForClient, Goto, TypeOK
  <2>3. \A l \in Loops : loop[l] = "activate" => loop'[l] = "activate" /\ fresh'[l] = fresh[l]
    BY <1>0, <1>14, EnsureKeepsOne DEF WaitForClient, loopVars
  <2> QED
    BY <1>1, <1>2, <2>1, <2>2, <2>3
<1>15. ASSUME NEW k \in Publishers, NEW received \in BOOLEAN, NEW acked \in BOOLEAN,
              TryPublish(k, received, acked)
       PROVE  Accounted(c)'
  <2>1. /\ ~closed /\ ~panicked /\ c \in live /\ client' = client /\ pc[k] = "publish"
        /\ loop' = loop /\ fresh' = fresh /\ held' = held
    BY <1>15 DEF TryPublish, connVars, loopVars, netVars
  <2>2. \A h \in Publishers \cup Clients : h # k => pc'[h] = pc[h]
    BY <1>0, <1>15 DEF TryPublish, Goto, TypeOK
  <2> QED
    BY <1>1, <1>2, <2>1, <2>2
<1> QED
  BY <1>3, <1>4, <1>5, <1>6, <1>7, <1>8, <1>9, <1>10, <1>11, <1>12, <1>13, <1>14, <1>15
     DEF Next, LoopStep, MarkStep, PublishStep

-----------------------------------------------------------------------------
(* The theorems                                                             *)

\* The invariant holds in every reachable state, whatever the broker does.
THEOREM Invariance == Spec => []IInv
<1>1. IInv /\ [Next]_vars => IInv'
  BY TypeStep, OneLoopStep, HandlerStep, SentStep, LeftStep DEF IInv
<1> QED
  BY InitInv, <1>1, PTL DEF Spec

\* Every reachable state of the service is well formed.
THEOREM TypeCorrect == Spec => []TypeOK
<1>1. IInv => TypeOK
  BY DEF IInv
<1> QED
  BY Invariance, <1>1, PTL

\* ensureReconnectLoop never starts a second loop, and reconnecting stands
\* exactly while there is one.
THEOREM OneLoop == Spec => []OneReconnectLoop
<1>1. IInv => OneReconnectLoop
  BY DEF IInv
<1> QED
  BY Invariance, <1>1, PTL

\* Until Disconnect, a connected paho client is the current one, about to
\* become it, or about to be disconnected.
THEOREM NoneLeft == Spec => []NoClientLeft
<1>1. IInv => NoClientLeft
  BY DEF IInv
<1> QED
  BY Invariance, <1>1, PTL

\* PublishEnvelope returns nil only for a message the broker has, and the
\* broker has it at most once per attempt.
THEOREM SentBound == Spec => []SentPerAttempt
<1>1. IInv => SentPerAttempt
  BY DEF IInv, SentShape, SentPerAttempt
<1> QED
  BY Invariance, <1>1, PTL

\* Before Disconnect only markDisconnected, called for the very client that is
\* in place, leaves the service without one.
THEOREM OwnClient == Spec => OnlyOwnClientDropped
<1> DEFINE A == client # None /\ client' = None /\ ~closed =>
                  \E g \in Publishers \cup Clients : pc[g] = "mark" /\ held[g] = client
<1>1. IInv /\ [Next]_vars => [A]_vars
  <2> SUFFICES ASSUME IInv, Next, client # None, client' = None, ~closed
               PROVE  \E g \in Publishers \cup Clients : pc[g] = "mark" /\ held[g] = client
    BY DEF A
  <2>1. CASE client' = client
    BY <2>1
  <2>2. CASE Disconnect
    BY <2>2 DEF Disconnect
  <2>3. ASSUME NEW l \in Loops, LoopActivate(l) PROVE FALSE
    <3>1. fresh[l] \in Clients /\ client' = fresh[l]
      BY <2>3 DEF LoopActivate, IInv, FreshShape
    <3> QED
      BY <3>1, BoundsAssumption DEF Clients, None
  <2>4. ASSUME NEW g \in Publishers \cup Clients, Detach(g), client' # client
        PROVE  pc[g] = "mark" /\ held[g] = client
    BY <2>4 DEF Detach
  <2>5. ASSUME NEW g \in Publishers \cup Clients, CloseOld(g) \/ Ensure(g)
        PROVE  client' = client
    BY <2>5 DEF CloseOld, Ensure, connVars
  <2>6. CASE Start \/ HealthMonitor \/ CloseFlag
    BY <2>1, <2>6 DEF Start, HealthMonitor, CloseFlag, connVars
  <2>7. ASSUME NEW l \in Loops, LoopCheck(l) \/ LoopConnect(l) \/ LoopRefused(l) \/ LoopExit(l)
        PROVE  client' = client
    BY <2>7 DEF LoopCheck, LoopConnect, LoopRefused, LoopExit, connVars
  <2>8. ASSUME NEW c \in Clients, ConnectionLost(c) PROVE client' = client
    BY <2>8 DEF ConnectionLost, connVars
  <2>9. ASSUME NEW k \in Publishers,
               Publish(k) \/ WaitForClient(k) \/ Woken(k) \/ TimeOut(k) \/ Retry(k)
        PROVE  client' = client
    BY <2>9 DEF Publish, WaitForClient, Woken, TimeOut, Retry, connVars
  <2>10. ASSUME NEW k \in Publishers, NEW received \in BOOLEAN, NEW acked \in BOOLEAN,
                TryPublish(k, received, acked)
         PROVE  client' = client
    BY <2>10 DEF TryPublish, connVars
  <2> QED
    BY <2>1, <2>2, <2>3, <2>4, <2>5, <2>6, <2>7, <2>8, <2>9, <2>10
       DEF Next, LoopStep, MarkStep, PublishStep
<1> QED
  BY Invariance, <1>1, PTL DEF Spec, OnlyOwnClientDropped, A
=============================================================================
