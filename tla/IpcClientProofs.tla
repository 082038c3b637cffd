-------------------------- MODULE IpcClientProofs --------------------------
(***************************************************************************)
(* Proofs about IpcClient, for every set of callers, any room for reconnect *)
(* loops, and any number of connections made and lost.                      *)
(***************************************************************************)
EXTENDS IpcClient, TLAPS

(***************************************************************************)
(* The inductive invariant.                                                 *)
(***************************************************************************)

Goroutines == Callers \cup Conns
Dropping == {"fail", "ensure"}               \* detached, and no loop asked for yet
Connecting == {"check", "dial", "activate"}  \* a loop that may still connect
Holding == {"register", "write", "await", "drop", "fail", "ensure"}
Unwritten == {"idle", "wait", "register", "write"}

\* readyCh is closed exactly while there is a connection.  A loop connects only
\* while there is none.  Before Start nothing has a connection or a loop.
ConnShape ==
  /\ ready <=> conn # None
  /\ \A l \in Loops : loop[l] \in Connecting => conn = None
  /\ \A l \in Loops : loop[l] = "activate" => dialed \in Conns
  /\ ~started => /\ conn = None
                 /\ \A l \in Loops : loop[l] = "off"
                 /\ \A g \in Goroutines : pc[g] \notin Holding \cup {"read"}

\* Until Close, one goroutine at a time is between detaching the connection
\* and asking for a loop, and no loop connects meanwhile.
DropShape ==
  ~isClosed => \A g \in Goroutines : pc[g] \in Dropping =>
    /\ conn = None
    /\ \A l \in Loops : loop[l] \notin Connecting
    /\ \A h \in Goroutines : pc[h] \in Dropping => h = g

\* A caller past waitForConnection works on a connection.
OnShape == \A k \in Callers : pc[k] \in Holding => on[k] \in Conns

\* An entry of c.pending is of its caller's present attempt, made and not yet
\* taken back, with nothing in its channel; a caller that wrote or is about to
\* has its entry or its verdict.
PendShape ==
  /\ \A p \in pending :
       /\ p[2] = attempt[p[1]] /\ chan[p[1]] = "open"
       /\ pc[p[1]] \in {"write", "await", "drop", "fail", "ensure", "retry"}
  /\ \A k \in Callers :
       pc[k] \in {"write", "await"} /\ chan[k] = "open" => <<k, attempt[k]>> \in pending

\* Each attempt puts one frame on the wire, which is carried out once or lost.
OnWire(k, n) == IF \E r \in wire : r.caller = k /\ r.attempt = n THEN 1 ELSE 0

WireShape ==
  /\ \A r \in wire :
       /\ r.attempt <= attempt[r.caller]
       /\ r.attempt = attempt[r.caller] => pc[r.caller] \notin Unwritten
  /\ \A r, s \in wire : r.caller = s.caller /\ r.attempt = s.attempt => r = s

\* The frames of a caller that are on the wire or carried out.
Frames(k) == served[k] + OnWire(k, 1) + OnWire(k, 2)

ServeShape ==
  /\ \A k \in Callers :
       /\ attempt[k] <= maxAttempts[k]
       /\ pc[k] = "idle" => attempt[k] = 1
       /\ Frames(k) <= attempt[k]
       /\ pc[k] \in Unwritten => Frames(k) < attempt[k]
       /\ pc[k] = "ok" \/ chan[k] = "answered" => served[k] > 0
  /\ \A a \in answers : a.ok => served[a.caller] > 0

IInv ==
  /\ TypeOK
  /\ OneReconnectLoop
  /\ ConnShape
  /\ DropShape
  /\ OnShape
  /\ PendShape
  /\ NoPanic
  /\ WireShape
  /\ ServeShape

-----------------------------------------------------------------------------
(* Moving one goroutine, or one loop                                        *)

LEMMA GotoFacts ==
  ASSUME TypeOK, NEW g \in Goroutines, NEW label \in Place, Goto(g, label)
  PROVE  /\ pc' \in [Callers \cup Conns -> Place]
         /\ \A h \in Goroutines : pc'[h] = IF h = g THEN label ELSE pc[h]
BY DEF TypeOK, Goto, Goroutines

LEMMA GotoLoopFacts ==
  ASSUME TypeOK, NEW l \in Loops,
         NEW label \in {"off", "check", "dial", "activate", "exit"}, GotoLoop(l, label)
  PROVE  /\ loop' \in [Loops -> {"off", "check", "dial", "activate", "exit"}]
         /\ \A m \in Loops : loop'[m] = IF m = l THEN label ELSE loop[m]
BY DEF TypeOK, GotoLoop

\* Callers are not connections.
LEMMA KindFacts ==
  /\ None \in 0..MaxConns
  /\ \A k \in Callers : k \in Goroutines /\ k \notin Conns /\ ConnOf(k) = on[k]
  /\ \A c \in Conns : c \in Goroutines /\ c \notin Callers /\ c # None /\ ConnOf(c) = c
BY CallersAssumption, BoundsAssumption DEF Goroutines, Conns, None, ConnOf

\* What a step can be: the goroutine that drops a connection is a caller or a
\* read loop.
LEMMA NextCases ==
  ASSUME [Next]_vars
  PROVE  \/ UNCHANGED vars
         \/ Start
         \/ \E l \in Loops : LoopStep(l)
         \/ \E g \in Goroutines : DropStep(g)
         \/ \E c \in Conns, a \in answers : ReadAnswer(c, a)
         \/ \E c \in Conns : ReadEnds(c)
         \/ \E c \in Conns : ServerDrops(c)
         \/ \E k \in Callers, n \in Limits : Call(k, n)
         \/ \E k \in Callers :
              \/ WaitForConnection(k) \/ Register(k) \/ WriteLine(k)
              \/ Receive(k) \/ TimeOut(k) \/ SeeClosed(k) \/ Retry(k)
         \/ CloseFlag \/ CloseDetach \/ CloseFail
         \/ \E r \in wire, ok \in BOOLEAN : ServerHandles(r, ok)
<1>1. ASSUME NEW c \in Conns, ReadStep(c)
      PROVE  \/ \E a \in answers : ReadAnswer(c, a)
             \/ ReadEnds(c)
             \/ DropStep(c) /\ c \in Goroutines
  BY <1>1, KindFacts DEF ReadStep
<1>2. ASSUME NEW k \in Callers, CallStep(k)
      PROVE  \/ WaitForConnection(k) \/ Register(k) \/ WriteLine(k)
             \/ Receive(k) \/ TimeOut(k) \/ SeeClosed(k) \/ Retry(k)
             \/ DropStep(k) /\ k \in Goroutines
  BY <1>2, KindFacts DEF CallStep
<1> QED
  BY <1>1, <1>2, Zenon DEF Next

LEMMA InitInv == Init => IInv
<1> SUFFICES ASSUME Init PROVE IInv
  OBVIOUS
<1>0. \A g \in Goroutines : pc[g] \in {"idle", "off"}
  BY DEF Init, Goroutines
<1>0a. \A k \in Callers : pc[k] = "idle"
  BY DEF Init, Goroutines
<1>1. TypeOK
  <2>1. pc \in [Callers \cup Conns -> Place]
    <3>1. \A g \in Callers \cup Conns : (IF g \in Callers THEN "idle" ELSE "off") \in Place
      BY DEF Place
    <3> QED BY <3>1 DEF Init
  <2>2. attempt \in [Callers -> 1..2] /\ maxAttempts \in [Callers -> 1..2]
        /\ on \in [Callers -> 0..MaxConns] /\ served \in [Callers -> Nat]
    BY BoundsAssumption DEF Init, None
  <2>3. conn \in 0..MaxConns /\ dialed \in 0..MaxConns /\ drops \in Nat
    BY BoundsAssumption DEF Init, None
  <2> QED
    BY <2>1, <2>2, <2>3 DEF Init, TypeOK
<1>2. OneReconnectLoop
  BY DEF Init, OneReconnectLoop
<1>3. ConnShape
  BY <1>0 DEF Init, ConnShape, Holding, Connecting
<1>4. DropShape
  BY <1>0 DEF DropShape, Dropping
<1>5. OnShape
  BY <1>0a DEF OnShape, Holding
<1>6. PendShape
  BY <1>0a DEF Init, PendShape
<1>7. NoPanic
  BY DEF Init, NoPanic
<1>8. WireShape
  BY DEF Init, WireShape
<1>9. ServeShape
  <2>1. \A k \in Callers, n \in {1, 2} : OnWire(k, n) = 0
    BY DEF Init, OnWire
  <2> QED BY <1>0a, <2>1 DEF Init, ServeShape, Frames
<1> QED
  BY <1>1, <1>2, <1>3, <1>4, <1>5, <1>6, <1>7, <1>8, <1>9 DEF IInv

-----------------------------------------------------------------------------
(* Types                                                                    *)

LEMMA EnsureFacts ==
  ASSUME TypeOK, OneReconnectLoop, EnsureReconnectLoop
  PROVE  /\ reconnecting' \in BOOLEAN
         /\ loop' \in [Loops -> {"off", "check", "dial", "activate", "exit"}]
         /\ OneReconnectLoop'
         /\ \/ UNCHANGED loopVars
            \/ /\ ~isClosed
               /\ \A l \in Loops : loop[l] = "off" /\ loop'[l] \in {"off", "check"}
<1>1. CASE UNCHANGED loopVars
  BY <1>1 DEF TypeOK, OneReconnectLoop, loopVars
<1>2. CASE ~reconnecting /\ ~isClosed /\ reconnecting' = TRUE
           /\ \E l \in Loops : loop[l] = "off" /\ GotoLoop(l, "check")
  <2>1. PICK l \in Loops : loop[l] = "off" /\ GotoLoop(l, "check")
    BY <1>2
  <2>2. \A m \in Loops : loop[m] = "off"
    BY <1>2 DEF OneReconnectLoop
  <2>3. loop' \in [Loops -> {"off", "check", "dial", "activate", "exit"}]
        /\ \A m \in Loops : loop'[m] = IF m = l THEN "check" ELSE loop[m]
    BY <2>1, GotoLoopFacts
  <2> QED
    BY <1>2, <2>2, <2>3 DEF OneReconnectLoop
<1> QED
  BY <1>1, <1>2 DEF EnsureReconnectLoop

\* The frames of one entry, whoever takes them off.
LEMMA CloseAllType ==
  ASSUME TypeOK, CloseAll
  PROVE  /\ pending' \subseteq Callers \X (1..2)
         /\ chan' \in [Callers -> {"open", "answered", "refused", "closed"}]
         /\ panicked' \in BOOLEAN
BY DEF TypeOK, CloseAll

LEMMA TypeStep == IInv /\ [Next]_vars => TypeOK'
<1> SUFFICES ASSUME IInv, [Next]_vars PROVE TypeOK'
  OBVIOUS
<1>0. TypeOK /\ OneReconnectLoop /\ ConnShape
  BY DEF IInv
<1>1. CASE UNCHANGED vars
  BY <1>0, <1>1 DEF TypeOK, vars, conVars, loopVars, callVars, pendVars, netVars
<1>2. CASE Start
  BY <1>0, <1>2, EnsureFacts DEF Start, TypeOK, callVars, pendVars, netVars
<1>3. ASSUME NEW l \in Loops, LoopStep(l) PROVE TypeOK'
  <2>1. CASE LoopCheck(l)
    <3>1. GotoLoop(l, "exit") \/ GotoLoop(l, "dial")
      BY <2>1 DEF LoopCheck
    <3> QED BY <1>0, <2>1, <3>1, GotoLoopFacts
        DEF LoopCheck, TypeOK, conVars, callVars, pendVars, netVars
  <2>2. CASE LoopDial(l)
    <3>1. dialed' \in 0..MaxConns /\ up' \subseteq Conns
      BY <1>0, <2>2, BoundsAssumption DEF LoopDial, TypeOK, Conns
    <3> QED BY <1>0, <2>2, <3>1, GotoLoopFacts
        DEF LoopDial, TypeOK, conVars, callVars, pendVars
  <2>3. CASE LoopRefused(l)
    <3>1. GotoLoop(l, "exit") \/ GotoLoop(l, "check")
      BY <2>3 DEF LoopRefused
    <3> QED BY <1>0, <2>3, <3>1, GotoLoopFacts
        DEF LoopRefused, TypeOK, conVars, callVars, pendVars, netVars
  <2>4. CASE LoopActivate(l)
    <3>1. dialed \in Conns /\ dialed \in Goroutines
      BY <1>0, <2>4 DEF LoopActivate, ConnShape, Goroutines
    <3>2. pc' \in [Callers \cup Conns -> Place]
      BY <1>0, <2>4, <3>1, GotoFacts DEF LoopActivate, Place
    <3>3. conn' \in 0..MaxConns /\ panicked' \in BOOLEAN
      BY <1>0, <2>4 DEF LoopActivate, TypeOK
    <3> QED BY <1>0, <2>4, <3>2, <3>3, GotoLoopFacts
        DEF LoopActivate, TypeOK, pendVars, netVars
  <2>5. CASE LoopExit(l)
    BY <1>0, <2>5, GotoLoopFacts DEF LoopExit, TypeOK, conVars, callVars, pendVars, netVars
  <2> QED BY <1>3, <2>1, <2>2, <2>3, <2>4, <2>5 DEF LoopStep
<1>4. ASSUME NEW g \in Goroutines, DropStep(g) PROVE TypeOK'
  <2>0. AfterDrop(g) \in Place /\ "fail" \in Place /\ "ensure" \in Place
    BY DEF AfterDrop, Place
  <2>1. CASE Detach(g)
    <3>1. pc' \in [Callers \cup Conns -> Place]
      BY <1>0, <2>0, <2>1, GotoFacts DEF Detach
    <3>2. conn' \in 0..MaxConns /\ ready' \in BOOLEAN /\ started' = started /\ closing' = closing
      <4>1. CASE UNCHANGED conVars
        BY <1>0, <4>1 DEF TypeOK, conVars
      <4>2. CASE conn' = None /\ ready' = FALSE /\ UNCHANGED <<started, closing>>
        BY <1>0, <4>2, KindFacts DEF TypeOK
      <4> QED BY <2>1, <4>1, <4>2 DEF Detach
    <3> QED BY <1>0, <2>1, <3>1, <3>2 DEF Detach, TypeOK, loopVars, pendVars, netVars
  <2>2. CASE FailPending(g)
    <3>1. pc' \in [Callers \cup Conns -> Place]
      BY <1>0, <2>0, <2>2, GotoFacts DEF FailPending
    <3>2. up' \subseteq Conns
      BY <1>0, <2>2 DEF FailPending, TypeOK
    <3> QED BY <1>0, <2>2, <3>1, <3>2, CloseAllType DEF FailPending, TypeOK, conVars, loopVars
  <2>3. CASE Ensure(g)
    <3>1. pc' \in [Callers \cup Conns -> Place]
      BY <1>0, <2>0, <2>3, GotoFacts DEF Ensure
    <3> QED BY <1>0, <2>3, <3>1, EnsureFacts DEF Ensure, TypeOK, conVars, pendVars, netVars
  <2> QED BY <1>4, <2>1, <2>2, <2>3 DEF DropStep
<1>5. ASSUME NEW c \in Conns, NEW a \in answers, ReadAnswer(c, a) PROVE TypeOK'
  <2>1. a.caller \in Callers /\ a.ok \in BOOLEAN
    BY <1>0 DEF TypeOK
  <2>2. pending' \subseteq Callers \X (1..2) /\ panicked' \in BOOLEAN
    BY <1>0, <1>5 DEF ReadAnswer, TypeOK, pendVars
  <2>3. chan' \in [Callers -> {"open", "answered", "refused", "closed"}]
    BY <1>0, <1>5, <2>1 DEF ReadAnswer, TypeOK, pendVars
  <2> QED BY <1>0, <1>5, <2>2, <2>3 DEF ReadAnswer, TypeOK, conVars, loopVars, callVars
<1>6. ASSUME NEW c \in Conns, ReadEnds(c) PROVE TypeOK'
  <2>1. pc' \in [Callers \cup Conns -> Place]
    BY <1>0, <1>6, GotoFacts, KindFacts DEF ReadEnds, Place
  <2> QED BY <1>0, <1>6, <2>1 DEF ReadEnds, TypeOK, conVars, loopVars, pendVars, netVars
<1>7. ASSUME NEW c \in Conns, ServerDrops(c) PROVE TypeOK'
  BY <1>0, <1>7 DEF ServerDrops, TypeOK, conVars, loopVars, callVars, pendVars
<1>8. ASSUME NEW k \in Callers, NEW n \in Limits, Call(k, n) PROVE TypeOK'
  <2>1. pc' \in [Callers \cup Conns -> Place]
    BY <1>0, <1>8, GotoFacts, KindFacts DEF Call, Place
  <2>2. maxAttempts' \in [Callers -> 1..2]
    BY <1>0, <1>8, LimitsAssumption DEF Call, TypeOK
  <2> QED BY <1>0, <1>8, <2>1, <2>2 DEF Call, TypeOK, conVars, loopVars, pendVars, netVars
<1>9. ASSUME NEW k \in Callers,
             WaitForConnection(k) \/ Register(k) \/ WriteLine(k) \/ Receive(k)
               \/ TimeOut(k) \/ SeeClosed(k) \/ Retry(k)
      PROVE  TypeOK'
  <2>0. k \in Goroutines /\ {"closed", "register", "retry", "write", "drop", "await", "ok",
                             "error", "wait", "unavailable"} \subseteq Place
    BY KindFacts DEF Place, Returned
  <2>1. CASE WaitForConnection(k)
    <3>1. pc' \in [Callers \cup Conns -> Place]
      BY <1>0, <2>0, <2>1, GotoFacts DEF WaitForConnection
    <3>2. on' \in [Callers -> 0..MaxConns]
      BY <1>0, <2>1 DEF WaitForConnection, TypeOK
    <3> QED BY <1>0, <2>1, <3>1, <3>2
        DEF WaitForConnection, TypeOK, conVars, loopVars, pendVars, netVars
  <2>2. CASE Register(k)
    <3>1. pc' \in [Callers \cup Conns -> Place]
      BY <1>0, <2>0, <2>2, GotoFacts DEF Register
    <3>2. chan' \in [Callers -> {"open", "answered", "refused", "closed"}]
          /\ pending' \subseteq Callers \X (1..2)
      BY <1>0, <2>2 DEF Register, TypeOK
    <3> QED BY <1>0, <2>2, <3>1, <3>2 DEF Register, TypeOK, conVars, loopVars, netVars
  <2>3. CASE WriteLine(k)
    <3>1. pc' \in [Callers \cup Conns -> Place]
      BY <1>0, <2>0, <2>3, GotoFacts DEF WriteLine
    <3>2. wire' \subseteq [caller: Callers, attempt: 1..2, conn: Conns]
      BY <1>0, <2>3 DEF WriteLine, TypeOK
    <3> QED BY <1>0, <2>3, <3>1, <3>2 DEF WriteLine, TypeOK, conVars, loopVars, pendVars
  <2>4. CASE Receive(k)
    <3>1. chan[k] \in {"answered", "refused", "closed"}
      BY <1>0, <2>4 DEF Receive, TypeOK
    <3>2. Goto(k, "ok") \/ Goto(k, "error") \/ Goto(k, "retry")
      BY <2>4, <3>1 DEF Receive
    <3>3. pc' \in [Callers \cup Conns -> Place]
      BY <1>0, <2>0, <3>2, GotoFacts
    <3> QED BY <1>0, <2>4, <3>3 DEF Receive, TypeOK, conVars, loopVars, pendVars, netVars
  <2>5. CASE TimeOut(k) \/ SeeClosed(k)
    <3>1. pc' \in [Callers \cup Conns -> Place]
      BY <1>0, <2>0, <2>5, GotoFacts DEF TimeOut, SeeClosed
    <3> QED BY <1>0, <2>5, <3>1
        DEF TimeOut, SeeClosed, RemovePending, TypeOK, conVars, loopVars, netVars
  <2>6. CASE Retry(k)
    <3>1. pc' \in [Callers \cup Conns -> Place]
      BY <1>0, <2>0, <2>6, GotoFacts DEF Retry
    <3>2. attempt' \in [Callers -> 1..2]
      BY <1>0, <2>6 DEF Retry, TypeOK
    <3>3. on' \in [Callers -> 0..MaxConns]
      BY <1>0, <2>6, BoundsAssumption DEF Retry, TypeOK, None
    <3> QED BY <1>0, <2>6, <3>1, <3>2, <3>3
        DEF Retry, RemovePending, TypeOK, conVars, loopVars, netVars
  <2> QED BY <1>9, <2>1, <2>2, <2>3, <2>4, <2>5, <2>6
<1>10. CASE CloseFlag \/ CloseDetach \/ CloseFail
  <2>1. CASE CloseFlag
    BY <1>0, <2>1 DEF CloseFlag, TypeOK, loopVars, callVars, pendVars, netVars
  <2>2. CASE CloseDetach
    <3>1. conn' \in 0..MaxConns /\ ready' \in BOOLEAN
      BY <2>2, KindFacts DEF CloseDetach
    <3> QED BY <1>0, <2>2, <3>1 DEF CloseDetach, TypeOK, loopVars, callVars, pendVars
  <2>3. CASE CloseFail
    BY <1>0, <2>3, CloseAllType DEF CloseFail, TypeOK, loopVars, callVars, netVars
  <2> QED BY <1>10, <2>1, <2>2, <2>3
<1>11. ASSUME NEW r \in wire, NEW ok \in BOOLEAN, ServerHandles(r, ok) PROVE TypeOK'
  <2>1. r.caller \in Callers /\ r.attempt \in 1..2 /\ r.conn \in Conns
    BY <1>0 DEF TypeOK
  <2>2. served' \in [Callers -> Nat]
    BY <1>0, <1>11, <2>1 DEF ServerHandles, TypeOK
  <2>3. answers' \subseteq [caller: Callers, attempt: 1..2, conn: Conns, ok: BOOLEAN]
    BY <1>0, <1>11, <2>1 DEF ServerHandles, TypeOK
  <2> QED BY <1>0, <1>11, <2>2, <2>3
      DEF ServerHandles, TypeOK, conVars, loopVars, callVars, pendVars
<1> QED
  BY <1>1, <1>2, <1>3, <1>4, <1>5, <1>6, <1>7, <1>8, <1>9, <1>10, <1>11, NextCases

-----------------------------------------------------------------------------
(* The reconnect loop and the connection                                    *)

\* What a step of a loop does to the loops: it was the only one, and moves.
LEMMA LoopMove ==
  ASSUME TypeOK, OneReconnectLoop, NEW l \in Loops, LoopStep(l)
  PROVE  /\ loop[l] # "off" /\ reconnecting
         /\ \A m \in Loops : m # l => loop[m] = "off" /\ loop'[m] = "off"
         /\ loop'[l] \in Connecting => loop[l] \in Connecting
<1>1. loop[l] # "off"
  BY DEF LoopStep, LoopCheck, LoopDial, LoopRefused, LoopActivate, LoopExit
<1>2. reconnecting /\ \A m \in Loops : m # l => loop[m] = "off"
  BY <1>1 DEF OneReconnectLoop
<1>3. \E label \in {"off", "check", "dial", "activate", "exit"} :
        GotoLoop(l, label) /\ (label \in Connecting => loop[l] \in Connecting)
  BY DEF LoopStep, LoopCheck, LoopDial, LoopRefused, LoopActivate, LoopExit, Connecting
<1>4. PICK label \in {"off", "check", "dial", "activate", "exit"} :
        GotoLoop(l, label) /\ (label \in Connecting => loop[l] \in Connecting)
  BY <1>3
<1>5. \A m \in Loops : loop'[m] = IF m = l THEN label ELSE loop[m]
  BY <1>4, GotoLoopFacts
<1> QED BY <1>1, <1>2, <1>4, <1>5

LEMMA LoopPart == IInv /\ [Next]_vars => OneReconnectLoop'
<1> SUFFICES ASSUME IInv, [Next]_vars PROVE OneReconnectLoop'
  OBVIOUS
<1>0. TypeOK /\ OneReconnectLoop
  BY DEF IInv
<1>1. CASE UNCHANGED loopVars
  BY <1>0, <1>1 DEF OneReconnectLoop, loopVars
<1>2. CASE Start
  BY <1>0, <1>2, EnsureFacts DEF Start
<1>3. ASSUME NEW l \in Loops, LoopStep(l) PROVE OneReconnectLoop'
  <2>1. CASE LoopExit(l)
    BY <1>0, <1>3, <2>1, LoopMove, GotoLoopFacts DEF LoopExit, OneReconnectLoop
  <2>2. CASE ~LoopExit(l)
    <3>1. \E label \in {"check", "dial", "activate", "exit"} : GotoLoop(l, label)
      BY <1>3, <2>2 DEF LoopStep, LoopCheck, LoopDial, LoopRefused, LoopActivate
    <3>2. loop'[l] # "off"
      BY <1>0, <3>1, GotoLoopFacts
    <3>3. reconnecting' = reconnecting
      BY <1>3, <2>2 DEF LoopStep, LoopCheck, LoopDial, LoopRefused, LoopActivate
    <3> QED BY <1>0, <1>3, <3>2, <3>3, LoopMove DEF OneReconnectLoop
  <2> QED BY <2>1, <2>2
<1>4. ASSUME NEW g \in Goroutines, DropStep(g) PROVE OneReconnectLoop'
  BY <1>0, <1>1, <1>4, EnsureFacts DEF DropStep, Detach, FailPending, Ensure
<1>5. ASSUME NEW c \in Conns, NEW a \in answers, ReadAnswer(c, a) PROVE OneReconnectLoop'
  BY <1>1, <1>5 DEF ReadAnswer
<1>6. ASSUME NEW c \in Conns, ReadEnds(c) \/ ServerDrops(c) PROVE OneReconnectLoop'
  BY <1>1, <1>6 DEF ReadEnds, ServerDrops
<1>7. ASSUME NEW k \in Callers, NEW n \in Limits, Call(k, n) PROVE OneReconnectLoop'
  BY <1>1, <1>7 DEF Call
<1>8. ASSUME NEW k \in Callers,
             WaitForConnection(k) \/ Register(k) \/ WriteLine(k) \/ Receive(k)
               \/ TimeOut(k) \/ SeeClosed(k) \/ Retry(k)
      PROVE  OneReconnectLoop'
  BY <1>1, <1>8
  DEF WaitForConnection, Register, WriteLine, Receive, TimeOut, SeeClosed, Retry
<1>9. CASE CloseFlag \/ CloseDetach \/ CloseFail
  BY <1>1, <1>9 DEF CloseFlag, CloseDetach, CloseFail
<1>10. ASSUME NEW r \in wire, NEW ok \in BOOLEAN, ServerHandles(r, ok) PROVE OneReconnectLoop'
  BY <1>1, <1>10 DEF ServerHandles
<1> QED
  BY <1>1, <1>2, <1>3, <1>4, <1>5, <1>6, <1>7, <1>8, <1>9, <1>10, NextCases DEF vars

\* The steps of a caller that do not lose a connection, and where they go.
LEMMA CallerMove ==
  ASSUME TypeOK, NEW k \in Callers,
         WaitForConnection(k) \/ Register(k) \/ WriteLine(k) \/ Receive(k)
           \/ TimeOut(k) \/ SeeClosed(k) \/ Retry(k)
  PROVE  /\ UNCHANGED <<conVars, loopVars, dialed>>
         /\ \A h \in Goroutines : h # k => pc'[h] = pc[h]
         /\ pc'[k] \notin Dropping \cup {"read"}
         /\ pc'[k] \in Holding => pc[k] \in Holding \/ (pc[k] = "wait" /\ conn # None)
<1>1. UNCHANGED <<conVars, loopVars, dialed>>
  BY DEF WaitForConnection, Register, WriteLine, Receive, TimeOut, SeeClosed, Retry, netVars
<1>2. \E label \in Place :
        /\ Goto(k, label)
        /\ label \notin Dropping \cup {"read"}
        /\ label \in Holding => pc[k] \in Holding \/ (pc[k] = "wait" /\ conn # None)
  <2>1. CASE Receive(k)
    <3>1. chan[k] \in {"answered", "refused", "closed"}
      BY <2>1 DEF Receive, TypeOK
    <3>2. Goto(k, "ok") \/ Goto(k, "error") \/ Goto(k, "retry")
      BY <2>1, <3>1 DEF Receive
    <3> QED BY <3>2 DEF Place, Returned, Dropping, Holding
  <2>2. CASE WaitForConnection(k)
    BY <2>2 DEF WaitForConnection, Place, Returned, Dropping, Holding
  <2>3. CASE Register(k) \/ WriteLine(k) \/ TimeOut(k) \/ SeeClosed(k)
    BY <2>3 DEF Register, WriteLine, TimeOut, SeeClosed, Place, Returned, Dropping, Holding
  <2>4. CASE Retry(k)
    BY <2>4 DEF Retry, Place, Returned, Dropping, Holding
  <2> QED BY <2>1, <2>2, <2>3, <2>4
<1> QED BY <1>1, <1>2, KindFacts, GotoFacts

LEMMA ConnPart == IInv /\ [Next]_vars => ConnShape'
<1> SUFFICES ASSUME IInv, [Next]_vars PROVE ConnShape'
  OBVIOUS
<1>0. TypeOK /\ OneReconnectLoop /\ ConnShape /\ DropShape
  BY DEF IInv
<1>1. CASE UNCHANGED <<conVars, loopVars, pc, dialed>>
  BY <1>0, <1>1 DEF ConnShape, conVars, loopVars
<1>2. CASE Start
  <2>1. conn = None /\ UNCHANGED <<conn, ready, dialed>> /\ started'
    BY <1>0, <1>2 DEF Start, ConnShape, netVars
  <2>2. \A l \in Loops : loop'[l] # "activate"
    BY <1>0, <1>2, EnsureFacts DEF Start, ConnShape, loopVars
  <2> QED BY <1>0, <2>1, <2>2 DEF ConnShape
<1>3. ASSUME NEW l \in Loops, LoopStep(l) PROVE ConnShape'
  <2>0. started
    BY <1>0, <1>3, LoopMove DEF ConnShape
  <2>1. CASE LoopActivate(l)
    <3>1. conn' = dialed /\ dialed \in Conns /\ ready' /\ started' /\ dialed' = dialed
      BY <1>0, <2>0, <2>1 DEF LoopActivate, ConnShape, netVars
    <3>2. \A m \in Loops : loop'[m] \notin Connecting
      BY <1>0, <1>3, <2>1, LoopMove, GotoLoopFacts DEF LoopActivate, Connecting
    <3> QED BY <3>1, <3>2, KindFacts DEF ConnShape, Connecting
  <2>2. CASE LoopDial(l)
    <3>1. conn' = conn /\ ready' = ready /\ started' /\ dialed' \in Conns
      BY <1>0, <2>0, <2>2, BoundsAssumption DEF LoopDial, conVars, TypeOK, Conns
    <3> QED BY <1>0, <1>3, <3>1, LoopMove DEF ConnShape, Connecting
  <2>3. CASE LoopCheck(l) \/ LoopRefused(l) \/ LoopExit(l)
    <3>1. conn' = conn /\ ready' = ready /\ started'
      BY <2>0, <2>3 DEF LoopCheck, LoopRefused, LoopExit, conVars
    <3>2. loop'[l] # "activate"
      <4>1. GotoLoop(l, "exit") \/ GotoLoop(l, "dial") \/ GotoLoop(l, "check")
              \/ GotoLoop(l, "off")
        BY <2>3 DEF LoopCheck, LoopRefused, LoopExit
      <4> QED BY <1>0, <4>1, GotoLoopFacts
    <3> QED BY <1>0, <1>3, <3>1, <3>2, LoopMove DEF ConnShape, Connecting
  <2> QED BY <1>3, <2>1, <2>2, <2>3 DEF LoopStep
<1>4. ASSUME NEW g \in Goroutines, DropStep(g) PROVE ConnShape'
  <2>0. pc[g] \in {"drop", "fail", "ensure"} /\ dialed' = dialed /\ started' = started
    BY <1>4 DEF DropStep, Detach, FailPending, Ensure, conVars, netVars
  <2>1. started
    BY <1>0, <2>0 DEF ConnShape, Holding
  <2>2. CASE Detach(g)
    <3>1. UNCHANGED loop /\ (UNCHANGED <<conn, ready>> \/ (conn' = None /\ ready' = FALSE))
      BY <2>2 DEF Detach, loopVars, conVars
    <3> QED BY <1>0, <2>0, <2>1, <3>1 DEF ConnShape
  <2>3. CASE FailPending(g)
    <3>1. UNCHANGED <<loop, conn, ready>>
      BY <2>3 DEF FailPending, loopVars, conVars
    <3> QED BY <1>0, <2>0, <2>1, <3>1 DEF ConnShape
  <2>4. CASE Ensure(g)
    <3>1. UNCHANGED <<conn, ready>>
      BY <2>4 DEF Ensure, conVars
    <3>2. CASE UNCHANGED loopVars
      BY <1>0, <2>0, <2>1, <3>1, <3>2 DEF ConnShape, loopVars
    <3>3. CASE ~isClosed /\ \A l \in Loops : loop'[l] \in {"off", "check"}
      <4>1. conn = None
        BY <1>0, <2>4, <3>3 DEF Ensure, DropShape, Dropping
      <4> QED BY <1>0, <2>0, <2>1, <3>1, <3>3, <4>1 DEF ConnShape
    <3> QED BY <1>0, <2>4, <3>2, <3>3, EnsureFacts DEF Ensure
  <2> QED BY <1>4, <2>2, <2>3, <2>4 DEF DropStep
<1>5. ASSUME NEW c \in Conns, NEW a \in answers, ReadAnswer(c, a) PROVE ConnShape'
  BY <1>1, <1>5 DEF ReadAnswer, callVars
<1>6. ASSUME NEW c \in Conns, ReadEnds(c) PROVE ConnShape'
  <2>1. started
    BY <1>0, <1>6, KindFacts DEF ReadEnds, ConnShape
  <2> QED BY <1>0, <1>6, <2>1 DEF ReadEnds, ConnShape, conVars, loopVars, netVars
<1>7. ASSUME NEW c \in Conns, ServerDrops(c) PROVE ConnShape'
  BY <1>1, <1>7 DEF ServerDrops, callVars
<1>8. ASSUME NEW k \in Callers, NEW n \in Limits, Call(k, n) PROVE ConnShape'
  <2>1. \A h \in Goroutines : pc'[h] = IF h = k THEN "wait" ELSE pc[h]
    BY <1>0, <1>8, KindFacts, GotoFacts DEF Call, Place
  <2> QED BY <1>0, <1>8, <2>1 DEF Call, ConnShape, Holding, conVars, loopVars, netVars
<1>9. ASSUME NEW k \in Callers,
             WaitForConnection(k) \/ Register(k) \/ WriteLine(k) \/ Receive(k)
               \/ TimeOut(k) \/ SeeClosed(k) \/ Retry(k)
      PROVE  ConnShape'
  <2>1. ~started => \A h \in Goroutines : pc'[h] \notin Holding \cup {"read"}
    BY <1>0, <1>9, CallerMove, KindFacts DEF ConnShape
  <2> QED BY <1>0, <1>9, <2>1, CallerMove DEF ConnShape, conVars, loopVars
<1>10. CASE CloseFlag \/ CloseDetach \/ CloseFail
  <2>1. CASE CloseDetach
    BY <1>0, <2>1 DEF CloseDetach, ConnShape, loopVars, callVars
  <2>2. CASE CloseFlag \/ CloseFail
    BY <1>0, <2>2 DEF CloseFlag, CloseFail, ConnShape, loopVars, callVars, netVars
  <2> QED BY <1>10, <2>1, <2>2
<1>11. ASSUME NEW r \in wire, NEW ok \in BOOLEAN, ServerHandles(r, ok) PROVE ConnShape'
  BY <1>1, <1>11 DEF ServerHandles, callVars
<1> QED
  BY <1>1, <1>2, <1>3, <1>4, <1>5, <1>6, <1>7, <1>8, <1>9, <1>10, <1>11, NextCases
  DEF vars, callVars, netVars

\* Who drops a connection works on one.
LEMMA DropperHasConn ==
  ASSUME OnShape, NEW g \in Goroutines, pc[g] \in Holding
  PROVE  ConnOf(g) \in Conns /\ ConnOf(g) # None
BY KindFacts DEF OnShape, Goroutines

\* Where the steps of markDisconnected go.
LEMMA DropMove ==
  ASSUME TypeOK, NEW g \in Goroutines, DropStep(g)
  PROVE  /\ \A h \in Goroutines : h # g => pc'[h] = pc[h]
         /\ pc'[g] \in Dropping \cup {"retry", "off"}
         /\ pc'[g] = "retry" => g \in Callers
         /\ pc'[g] = "off" => g \in Conns
         /\ pc[g] \in {"drop", "fail", "ensure"}
         /\ UNCHANGED <<closing, started, on, attempt, maxAttempts, wire, answers, served>>
<1>1. \E label \in {"fail", "ensure", AfterDrop(g)} : Goto(g, label)
  BY DEF DropStep, Detach, FailPending, Ensure
<1>2. PICK label \in {"fail", "ensure", AfterDrop(g)} : Goto(g, label)
  BY <1>1
<1>3. label \in Place
  BY DEF AfterDrop, Place
<1>4. \A h \in Goroutines : pc'[h] = IF h = g THEN label ELSE pc[h]
  BY <1>2, <1>3, GotoFacts
<1>5. UNCHANGED <<closing, started, on, attempt, maxAttempts, wire, answers, served>>
        /\ pc[g] \in {"drop", "fail", "ensure"}
  BY DEF DropStep, Detach, FailPending, Ensure, conVars, netVars
<1> QED BY <1>4, <1>5 DEF AfterDrop, Dropping, Goroutines

LEMMA DropPart == IInv /\ [Next]_vars => DropShape'
<1> SUFFICES ASSUME IInv, [Next]_vars PROVE DropShape'
  OBVIOUS
<1>0. TypeOK /\ OneReconnectLoop /\ ConnShape /\ DropShape /\ OnShape
  BY DEF IInv
<1>1. CASE UNCHANGED <<conVars, loopVars, pc>>
  BY <1>0, <1>1 DEF DropShape, isClosed, conVars, loopVars
<1>2. CASE Start
  <2>1. \A g \in Goroutines : pc'[g] \notin Dropping
    BY <1>0, <1>2 DEF Start, ConnShape, Holding, Dropping, callVars
  <2> QED BY <2>1 DEF DropShape
<1>3. ASSUME NEW l \in Loops, LoopStep(l) PROVE DropShape'
  <2>1. CASE LoopActivate(l)
    <3>1. ~isClosed => \A g \in Goroutines : pc[g] \notin Dropping
      BY <1>0, <2>1 DEF LoopActivate, DropShape, Connecting
    <3>2. dialed \in Conns /\ closing' = closing
      BY <1>0, <2>1 DEF LoopActivate, ConnShape
    <3>3. \A h \in Goroutines : pc'[h] = IF h = dialed THEN "read" ELSE pc[h]
      BY <1>0, <2>1, <3>2, KindFacts, GotoFacts DEF LoopActivate, Place
    <3> QED BY <3>1, <3>2, <3>3 DEF DropShape, Dropping, isClosed
  <2>2. CASE LoopCheck(l) \/ LoopDial(l) \/ LoopRefused(l) \/ LoopExit(l)
    <3>1. UNCHANGED <<conn, closing, pc>>
      BY <2>2 DEF LoopCheck, LoopDial, LoopRefused, LoopExit, conVars, callVars
    <3> QED BY <1>0, <1>3, <3>1, LoopMove DEF DropShape, Connecting, isClosed
  <2> QED BY <1>3, <2>1, <2>2 DEF LoopStep
<1>4. ASSUME NEW g \in Goroutines, DropStep(g) PROVE DropShape'
  <2>1. CASE Detach(g)
    <3>1. CASE conn # ConnOf(g) /\ Goto(g, AfterDrop(g)) /\ UNCHANGED conVars
      <4>1. AfterDrop(g) \in Place /\ AfterDrop(g) \notin Dropping
        BY DEF AfterDrop, Place, Dropping
      <4>2. \A h \in Goroutines : pc'[h] = IF h = g THEN AfterDrop(g) ELSE pc[h]
        BY <1>0, <3>1, <4>1, GotoFacts
      <4> QED BY <1>0, <2>1, <3>1, <4>1, <4>2
          DEF Detach, DropShape, isClosed, conVars, loopVars
    <3>2. CASE conn = ConnOf(g) /\ conn' = None /\ Goto(g, "fail")
      <4>1. conn # None
        BY <1>0, <2>1, <3>2, DropperHasConn DEF Detach, Holding
      <4>2. \A l \in Loops : loop'[l] \notin Connecting
        BY <1>0, <2>1, <4>1 DEF Detach, ConnShape, loopVars
      <4>3. ~isClosed => \A h \in Goroutines : pc[h] \notin Dropping
        BY <1>0, <4>1 DEF DropShape
      <4>4. \A h \in Goroutines : pc'[h] = IF h = g THEN "fail" ELSE pc[h]
        BY <1>0, <3>2, GotoFacts DEF Place
      <4>5. closing' = closing
        BY <1>4, <1>0, DropMove
      <4> QED BY <3>2, <4>2, <4>3, <4>4, <4>5 DEF DropShape, isClosed
    <3> QED BY <2>1, <3>1, <3>2 DEF Detach
  <2>2. CASE FailPending(g)
    <3>1. UNCHANGED <<conn, closing, loop>> /\ pc[g] \in Dropping
      BY <2>2 DEF FailPending, conVars, loopVars, Dropping
    <3> QED BY <1>0, <1>4, <3>1, DropMove DEF DropShape, isClosed
  <2>3. CASE Ensure(g)
    <3>1. AfterDrop(g) \in Place /\ AfterDrop(g) \notin Dropping
      BY DEF AfterDrop, Place, Dropping
    <3>2. \A h \in Goroutines : pc'[h] = IF h = g THEN AfterDrop(g) ELSE pc[h]
      BY <1>0, <2>3, <3>1, GotoFacts DEF Ensure
    <3>3. ~isClosed => \A h \in Goroutines : pc'[h] \notin Dropping
      BY <1>0, <2>3, <3>1, <3>2 DEF Ensure, DropShape, Dropping
    <3>4. closing' = closing
      BY <1>4, <1>0, DropMove
    <3> QED BY <3>3, <3>4 DEF DropShape, isClosed
  <2> QED BY <1>4, <2>1, <2>2, <2>3 DEF DropStep
<1>5. ASSUME NEW c \in Conns, NEW a \in answers, ReadAnswer(c, a) PROVE DropShape'
  BY <1>1, <1>5 DEF ReadAnswer, callVars
<1>6. ASSUME NEW c \in Conns, ReadEnds(c) PROVE DropShape'
  <2>1. \A h \in Goroutines : pc'[h] = IF h = c THEN "drop" ELSE pc[h]
    BY <1>0, <1>6, KindFacts, GotoFacts DEF ReadEnds, Place
  <2> QED BY <1>0, <1>6, <2>1 DEF ReadEnds, DropShape, Dropping, isClosed, conVars, loopVars
<1>7. ASSUME NEW c \in Conns, ServerDrops(c) PROVE DropShape'
  BY <1>1, <1>7 DEF ServerDrops, callVars
<1>8. ASSUME NEW k \in Callers, NEW n \in Limits, Call(k, n) PROVE DropShape'
  <2>1. \A h \in Goroutines : pc'[h] = IF h = k THEN "wait" ELSE pc[h]
    BY <1>0, <1>8, KindFacts, GotoFacts DEF Call, Place
  <2> QED BY <1>0, <1>8, <2>1 DEF Call, DropShape, Dropping, isClosed, conVars, loopVars
<1>9. ASSUME NEW k \in Callers,
             WaitForConnection(k) \/ Register(k) \/ WriteLine(k) \/ Receive(k)
               \/ TimeOut(k) \/ SeeClosed(k) \/ Retry(k)
      PROVE  DropShape'
  BY <1>0, <1>9, CallerMove DEF DropShape, isClosed, conVars, loopVars
<1>10. CASE CloseFlag \/ CloseDetach \/ CloseFail
  BY <1>10 DEF CloseFlag, CloseDetach, CloseFail, DropShape, isClosed
<1>11. ASSUME NEW r \in wire, NEW ok \in BOOLEAN, ServerHandles(r, ok) PROVE DropShape'
  BY <1>1, <1>11 DEF ServerHandles, callVars
<1> QED
  BY <1>1, <1>2, <1>3, <1>4, <1>5, <1>6, <1>7, <1>8, <1>9, <1>10, <1>11, NextCases
  DEF vars, callVars

LEMMA OnPart == IInv /\ [Next]_vars => OnShape'
<1> SUFFICES ASSUME IInv, [Next]_vars PROVE OnShape'
  OBVIOUS
<1>0. TypeOK /\ OneReconnectLoop /\ ConnShape /\ OnShape
  BY DEF IInv
<1>1. CASE UNCHANGED callVars
  BY <1>0, <1>1 DEF OnShape, callVars
<1>2. CASE Start
  BY <1>1, <1>2 DEF Start
<1>3. ASSUME NEW l \in Loops, LoopStep(l) PROVE OnShape'
  <2>1. CASE LoopActivate(l)
    <3>1. dialed \in Conns
      BY <1>0, <2>1 DEF LoopActivate, ConnShape
    <3>2. \A k \in Callers : pc'[k] = pc[k]
      BY <1>0, <2>1, <3>1, KindFacts, GotoFacts DEF LoopActivate, Place
    <3> QED BY <1>0, <2>1, <3>2 DEF LoopActivate, OnShape
  <2>2. CASE LoopCheck(l) \/ LoopDial(l) \/ LoopRefused(l) \/ LoopExit(l)
    BY <1>1, <2>2 DEF LoopCheck, LoopDial, LoopRefused, LoopExit
  <2> QED BY <1>3, <2>1, <2>2 DEF LoopStep
<1>4. ASSUME NEW g \in Goroutines, DropStep(g) PROVE OnShape'
  BY <1>0, <1>4, DropMove, KindFacts DEF OnShape, Holding, Dropping
<1>5. ASSUME NEW c \in Conns, NEW a \in answers, ReadAnswer(c, a) PROVE OnShape'
  BY <1>1, <1>5 DEF ReadAnswer
<1>6. ASSUME NEW c \in Conns, ReadEnds(c) PROVE OnShape'
  <2>1. \A k \in Callers : pc'[k] = pc[k]
    BY <1>0, <1>6, KindFacts, GotoFacts DEF ReadEnds, Place
  <2> QED BY <1>0, <1>6, <2>1 DEF ReadEnds, OnShape
<1>7. ASSUME NEW c \in Conns, ServerDrops(c) PROVE OnShape'
  BY <1>1, <1>7 DEF ServerDrops
<1>8. ASSUME NEW k \in Callers, NEW n \in Limits, Call(k, n) PROVE OnShape'
  <2>1. \A h \in Callers : pc'[h] = IF h = k THEN "wait" ELSE pc[h]
    BY <1>0, <1>8, KindFacts, GotoFacts DEF Call, Place
  <2> QED BY <1>0, <1>8, <2>1 DEF Call, OnShape, Holding
<1>9. ASSUME NEW k \in Callers,
             WaitForConnection(k) \/ Register(k) \/ WriteLine(k) \/ Receive(k)
               \/ TimeOut(k) \/ SeeClosed(k) \/ Retry(k)
      PROVE  OnShape'
  <2>1. \A h \in Callers : h # k => pc'[h] = pc[h]
    BY <1>0, <1>9, CallerMove, KindFacts
  <2>2. CASE WaitForConnection(k)
    <3>1. CASE UNCHANGED on /\ (Goto(k, "closed") \/ Goto(k, "retry"))
      <4>1. pc'[k] \notin Holding
        BY <1>0, <3>1, KindFacts, GotoFacts DEF Place, Returned, Holding
      <4> QED BY <1>0, <2>1, <3>1, <4>1 DEF OnShape
    <3>2. CASE conn # None /\ on' = [on EXCEPT ![k] = conn]
      <4>1. conn \in Conns
        BY <1>0, <3>2, BoundsAssumption DEF TypeOK, Conns, None
      <4> QED BY <1>0, <2>1, <3>2, <4>1 DEF OnShape, TypeOK
    <3> QED BY <2>2, <3>1, <3>2 DEF WaitForConnection
  <2>3. CASE Retry(k)
    <3>1. \A h \in Callers : h # k => on'[h] = on[h]
      BY <1>0, <2>3 DEF Retry, TypeOK
    <3>2. Goto(k, "wait") \/ Goto(k, "unavailable")
      BY <2>3 DEF Retry
    <3>3. pc'[k] \notin Holding
      BY <1>0, <3>2, KindFacts, GotoFacts DEF Place, Returned, Holding
    <3> QED BY <1>0, <2>1, <3>1, <3>3 DEF OnShape
  <2>4. CASE Register(k) \/ WriteLine(k) \/ Receive(k) \/ TimeOut(k) \/ SeeClosed(k)
    <3>1. pc[k] \in Holding /\ UNCHANGED on
      BY <2>4 DEF Register, WriteLine, Receive, TimeOut, SeeClosed, Holding
    <3> QED BY <1>0, <2>1, <3>1 DEF OnShape
  <2> QED BY <1>9, <2>2, <2>3, <2>4
<1>10. CASE CloseFlag \/ CloseDetach \/ CloseFail
  BY <1>1, <1>10 DEF CloseFlag, CloseDetach, CloseFail
<1>11. ASSUME NEW r \in wire, NEW ok \in BOOLEAN, ServerHandles(r, ok) PROVE OnShape'
  BY <1>1, <1>11 DEF ServerHandles
<1> QED
  BY <1>1, <1>2, <1>3, <1>4, <1>5, <1>6, <1>7, <1>8, <1>9, <1>10, <1>11, NextCases
  DEF vars

-----------------------------------------------------------------------------
(* The pending requests                                                     *)

\* failPending closes only open channels, and leaves no entry.
LEMMA CloseAllFacts ==
  ASSUME TypeOK, PendShape, NoPanic, CloseAll
  PROVE  /\ pending' = {} /\ ~panicked'
         /\ \A k \in Callers : pc[k] \in {"write", "await"} => chan'[k] # "open"
         /\ \A k \in Callers : chan'[k] = "answered" => chan[k] = "answered"
<1>1. \A p \in pending : chan[p[1]] = "open"
  BY DEF PendShape
<1>2. \A k \in Callers : pc[k] \in {"write", "await"} => chan'[k] # "open"
  <2> SUFFICES ASSUME NEW k \in Callers, pc[k] \in {"write", "await"} PROVE chan'[k] # "open"
    OBVIOUS
  <2>1. CASE chan[k] = "open"
    <3>1. <<k, attempt[k]>> \in pending
      BY <2>1 DEF PendShape
    <3>2. \E p \in pending : p[1] = k
      BY <3>1
    <3> QED BY <3>2 DEF CloseAll
  <2>2. CASE chan[k] # "open"
    BY <2>2 DEF CloseAll
  <2> QED BY <2>1, <2>2
<1> QED BY <1>1, <1>2 DEF CloseAll, NoPanic

LEMMA PanicPart == IInv /\ [Next]_vars => NoPanic'
<1> SUFFICES ASSUME IInv, [Next]_vars PROVE NoPanic'
  OBVIOUS
<1>0. TypeOK /\ ConnShape /\ PendShape /\ NoPanic
  BY DEF IInv
<1>1. CASE UNCHANGED panicked
  BY <1>0, <1>1 DEF NoPanic
<1>2. CASE Start
  BY <1>1, <1>2 DEF Start
<1>3. ASSUME NEW l \in Loops, LoopStep(l) PROVE NoPanic'
  <2>1. CASE LoopActivate(l)
    <3>1. ~ready
      BY <1>0, <2>1 DEF LoopActivate, ConnShape, Connecting
    <3> QED BY <1>0, <2>1, <3>1 DEF LoopActivate, NoPanic
  <2>2. CASE LoopCheck(l) \/ LoopDial(l) \/ LoopRefused(l) \/ LoopExit(l)
    BY <1>1, <2>2 DEF LoopCheck, LoopDial, LoopRefused, LoopExit
  <2> QED BY <1>3, <2>1, <2>2 DEF LoopStep
<1>4. ASSUME NEW g \in Goroutines, DropStep(g) PROVE NoPanic'
  BY <1>0, <1>1, <1>4, CloseAllFacts DEF DropStep, Detach, FailPending, Ensure, NoPanic
<1>5. ASSUME NEW c \in Conns, NEW a \in answers, ReadAnswer(c, a) PROVE NoPanic'
  <2>1. CASE <<a.caller, a.attempt>> \in pending
    <3>1. chan[a.caller] = "open"
      BY <1>0, <2>1 DEF PendShape
    <3> QED BY <1>0, <1>5, <2>1, <3>1 DEF ReadAnswer, NoPanic
  <2>2. CASE <<a.caller, a.attempt>> \notin pending
    BY <1>1, <1>5, <2>2 DEF ReadAnswer
  <2> QED BY <2>1, <2>2
<1>6. ASSUME NEW c \in Conns, ReadEnds(c) \/ ServerDrops(c) PROVE NoPanic'
  BY <1>1, <1>6 DEF ReadEnds, ServerDrops
<1>7. ASSUME NEW k \in Callers, NEW n \in Limits, Call(k, n) PROVE NoPanic'
  BY <1>1, <1>7 DEF Call
<1>8. ASSUME NEW k \in Callers,
             WaitForConnection(k) \/ Register(k) \/ WriteLine(k) \/ Receive(k)
               \/ TimeOut(k) \/ SeeClosed(k) \/ Retry(k)
      PROVE  NoPanic'
  BY <1>1, <1>8
  DEF WaitForConnection, Register, WriteLine, Receive, TimeOut, SeeClosed, Retry
<1>9. CASE CloseFlag \/ CloseDetach \/ CloseFail
  BY <1>0, <1>1, <1>9, CloseAllFacts DEF CloseFlag, CloseDetach, CloseFail, NoPanic
<1>10. ASSUME NEW r \in wire, NEW ok \in BOOLEAN, ServerHandles(r, ok) PROVE NoPanic'
  BY <1>1, <1>10 DEF ServerHandles
<1> QED
  BY <1>1, <1>2, <1>3, <1>4, <1>5, <1>6, <1>7, <1>8, <1>9, <1>10, NextCases DEF vars

\* The entries and channels are as they were, and so is every caller's attempt;
\* who had an entry still may, and nobody starts to write or to wait.
LEMMA PendKept ==
  ASSUME PendShape, UNCHANGED <<pendVars, attempt>>,
         \A k \in Callers :
           \/ pc'[k] = pc[k]
           \/ /\ pc'[k] \notin {"write", "await"}
              /\ \/ pc'[k] \in {"drop", "fail", "ensure", "retry"}
                 \/ \A p \in pending : p[1] # k,
         \A p \in pending : p[1] \in Callers
  PROVE  PendShape'
BY DEF PendShape, pendVars

LEMMA PendPart == IInv /\ [Next]_vars => PendShape'
<1> SUFFICES ASSUME IInv, [Next]_vars PROVE PendShape'
  OBVIOUS
<1>0. TypeOK /\ OneReconnectLoop /\ ConnShape /\ PendShape /\ NoPanic
  BY DEF IInv
<1>a. \A p \in pending : p[1] \in Callers /\ p[2] \in 1..2 /\ p = <<p[1], p[2]>>
  BY <1>0 DEF TypeOK
<1>1. CASE UNCHANGED <<pendVars, callVars>>
  BY <1>0, <1>1, <1>a, PendKept DEF callVars
<1>2. CASE Start
  BY <1>1, <1>2 DEF Start
<1>3. ASSUME NEW l \in Loops, LoopStep(l) PROVE PendShape'
  <2>1. CASE LoopActivate(l)
    <3>1. dialed \in Conns
      BY <1>0, <2>1 DEF LoopActivate, ConnShape
    <3>2. \A k \in Callers : pc'[k] = pc[k]
      BY <1>0, <2>1, <3>1, KindFacts, GotoFacts DEF LoopActivate, Place
    <3> QED BY <1>0, <1>a, <2>1, <3>2, PendKept DEF LoopActivate
  <2>2. CASE LoopCheck(l) \/ LoopDial(l) \/ LoopRefused(l) \/ LoopExit(l)
    BY <1>1, <2>2 DEF LoopCheck, LoopDial, LoopRefused, LoopExit
  <2> QED BY <1>3, <2>1, <2>2 DEF LoopStep
<1>4. ASSUME NEW g \in Goroutines, DropStep(g) PROVE PendShape'
  <2>1. \A k \in Callers : pc'[k] = pc[k] \/ pc'[k] \in {"fail", "ensure", "retry"}
    BY <1>0, <1>4, DropMove, KindFacts DEF Dropping
  <2>2. CASE Detach(g) \/ Ensure(g)
    BY <1>0, <1>a, <2>1, <2>2, PendKept DEF Detach, Ensure
  <2>3. CASE FailPending(g)
    BY <1>0, <2>1, <2>3, CloseAllFacts DEF FailPending, PendShape
  <2> QED BY <1>4, <2>2, <2>3 DEF DropStep
<1>5. ASSUME NEW c \in Conns, NEW a \in answers, ReadAnswer(c, a) PROVE PendShape'
  <2>0. UNCHANGED <<pc, attempt>>
    BY <1>5 DEF ReadAnswer, callVars
  <2>1. CASE <<a.caller, a.attempt>> \in pending
    <3>1. a.caller \in Callers /\ a.attempt = attempt[a.caller]
      BY <1>0, <1>a, <2>1 DEF PendShape
    <3>2. pending' = pending \ {<<a.caller, a.attempt>>}
          /\ \A k \in Callers : chan'[k] = IF k = a.caller
                                           THEN IF a.ok THEN "answered" ELSE "refused"
                                           ELSE chan[k]
      BY <1>0, <1>5, <2>1, <3>1 DEF ReadAnswer, TypeOK
    <3>3. \A p \in pending' : p \in pending /\ p[1] # a.caller
      BY <1>0, <1>a, <3>1, <3>2 DEF PendShape
    <3>4. \A k \in Callers : chan'[k] = "open" => k # a.caller /\ chan[k] = "open"
      BY <3>2
    <3> QED BY <1>0, <1>a, <2>0, <3>2, <3>3, <3>4 DEF PendShape
  <2>2. CASE <<a.caller, a.attempt>> \notin pending
    BY <1>1, <1>5, <2>2 DEF ReadAnswer
  <2> QED BY <2>1, <2>2
<1>6. ASSUME NEW c \in Conns, ReadEnds(c) PROVE PendShape'
  <2>1. \A k \in Callers : pc'[k] = pc[k]
    BY <1>0, <1>6, KindFacts, GotoFacts DEF ReadEnds, Place
  <2> QED BY <1>0, <1>6, <1>a, <2>1, PendKept DEF ReadEnds
<1>7. ASSUME NEW c \in Conns, ServerDrops(c) PROVE PendShape'
  BY <1>1, <1>7 DEF ServerDrops
<1>8. ASSUME NEW k \in Callers, NEW n \in Limits, Call(k, n) PROVE PendShape'
  <2>1. \A h \in Callers : pc'[h] = IF h = k THEN "wait" ELSE pc[h]
    BY <1>0, <1>8, KindFacts, GotoFacts DEF Call, Place
  <2>2. \A p \in pending : p[1] # k
    BY <1>0, <1>8 DEF Call, PendShape
  <2> QED BY <1>0, <1>8, <1>a, <2>1, <2>2, PendKept DEF Call
<1>9. ASSUME NEW k \in Callers, WaitForConnection(k) PROVE PendShape'
  <2>1. Goto(k, "closed") \/ Goto(k, "register") \/ Goto(k, "retry")
    BY <1>9 DEF WaitForConnection
  <2>2. \A h \in Callers : h # k => pc'[h] = pc[h]
    BY <1>0, <1>9, CallerMove, KindFacts
  <2>3. pc'[k] \notin {"write", "await"}
    BY <1>0, <2>1, KindFacts, GotoFacts DEF Place, Returned
  <2>4. \A p \in pending : p[1] # k
    BY <1>0, <1>9 DEF WaitForConnection, PendShape
  <2> QED BY <1>0, <1>9, <1>a, <2>2, <2>3, <2>4, PendKept DEF WaitForConnection
<1>10. ASSUME NEW k \in Callers, Register(k) PROVE PendShape'
  <2>1. \A h \in Callers : pc'[h] = IF h = k THEN "write" ELSE pc[h]
    BY <1>0, <1>10, KindFacts, GotoFacts DEF Register, Place
  <2>2. \A h \in Callers : chan'[h] = IF h = k THEN "open" ELSE chan[h]
    BY <1>0, <1>10 DEF Register, TypeOK
  <2>3. pending' = pending \cup {<<k, attempt[k]>>} /\ UNCHANGED attempt
    BY <1>10 DEF Register
  <2>4. \A p \in pending : p[1] # k
    BY <1>0, <1>10 DEF Register, PendShape
  <2> QED BY <1>0, <1>a, <2>1, <2>2, <2>3, <2>4 DEF PendShape
<1>11. ASSUME NEW k \in Callers, WriteLine(k) PROVE PendShape'
  <2>1. Goto(k, "retry") \/ Goto(k, "drop") \/ Goto(k, "await")
    BY <1>11 DEF WriteLine
  <2>2. \A h \in Callers : h # k => pc'[h] = pc[h]
    BY <1>0, <1>11, CallerMove, KindFacts
  <2>3. pc'[k] \in {"retry", "drop", "await"} /\ pc[k] = "write"
    BY <1>0, <1>11, <2>1, KindFacts, GotoFacts DEF Place, WriteLine
  <2> QED BY <1>0, <1>11, <1>a, <2>2, <2>3 DEF WriteLine, PendShape, pendVars
<1>12. ASSUME NEW k \in Callers, Receive(k) PROVE PendShape'
  <2>1. chan[k] \in {"answered", "refused", "closed"}
    BY <1>0, <1>12 DEF Receive, TypeOK
  <2>2. Goto(k, "ok") \/ Goto(k, "error") \/ Goto(k, "retry")
    BY <1>12, <2>1 DEF Receive
  <2>3. pc'[k] \notin {"write", "await"}
    BY <1>0, <2>2, KindFacts, GotoFacts DEF Place, Returned
  <2>4. \A p \in pending : p[1] # k
    BY <1>0, <2>1 DEF PendShape
  <2>5. \A h \in Callers : h # k => pc'[h] = pc[h]
    BY <1>0, <1>12, CallerMove, KindFacts
  <2> QED BY <1>0, <1>12, <1>a, <2>3, <2>4, <2>5, PendKept DEF Receive
<1>13. ASSUME NEW k \in Callers, TimeOut(k) \/ SeeClosed(k) \/ Retry(k) PROVE PendShape'
  <2>1. Goto(k, "drop") \/ Goto(k, "closed") \/ Goto(k, "wait") \/ Goto(k, "unavailable")
    BY <1>13 DEF TimeOut, SeeClosed, Retry
  <2>2. pc'[k] \notin {"write", "await"}
    BY <1>0, <2>1, KindFacts, GotoFacts DEF Place, Returned
  <2>3. \A h \in Callers : h # k => pc'[h] = pc[h] /\ attempt'[h] = attempt[h]
    <3>1. \A h \in Callers : h # k => attempt'[h] = attempt[h]
      BY <1>0, <1>13 DEF TimeOut, SeeClosed, Retry, TypeOK
    <3> QED BY <1>0, <1>13, <3>1, CallerMove, KindFacts
  <2>4. pending' = pending \ {<<k, attempt[k]>>} /\ UNCHANGED chan
    BY <1>13 DEF TimeOut, SeeClosed, Retry, RemovePending
  <2>5. \A p \in pending' : p \in pending /\ p[1] # k
    BY <1>0, <1>a, <2>4 DEF PendShape
  <2> QED BY <1>0, <1>a, <2>2, <2>3, <2>4, <2>5 DEF PendShape
<1>14. CASE CloseFlag \/ CloseDetach
  BY <1>1, <1>14 DEF CloseFlag, CloseDetach
<1>15. CASE CloseFail
  BY <1>0, <1>15, CloseAllFacts DEF CloseFail, PendShape, callVars
<1>16. ASSUME NEW r \in wire, NEW ok \in BOOLEAN, ServerHandles(r, ok) PROVE PendShape'
  BY <1>1, <1>16 DEF ServerHandles
<1> QED
  BY <1>1, <1>2, <1>3, <1>4, <1>5, <1>6, <1>7, <1>8, <1>9, <1>10, <1>11, <1>12, <1>13,
     <1>14, <1>15, <1>16, NextCases
  DEF vars

-----------------------------------------------------------------------------
(* The frames on the wire                                                   *)

\* Callers move on with the wire as it was: nobody goes back to before its
\* write, except to a later attempt.
LEMMA WireKept ==
  ASSUME TypeOK, WireShape, wire' \subseteq wire,
         \A k \in Callers : /\ attempt'[k] = attempt[k]
                            /\ pc'[k] \in Unwritten => pc[k] \in Unwritten
  PROVE  WireShape'
<1>1. \A r \in wire : r.caller \in Callers
  BY DEF TypeOK
<1> QED BY <1>1 DEF WireShape

LEMMA WirePart == IInv /\ [Next]_vars => WireShape'
<1> SUFFICES ASSUME IInv, [Next]_vars PROVE WireShape'
  OBVIOUS
<1>0. TypeOK /\ OneReconnectLoop /\ ConnShape /\ WireShape
  BY DEF IInv
<1>a. \A r \in wire : r.caller \in Callers /\ r.attempt \in 1..2
  BY <1>0 DEF TypeOK
<1>1. CASE UNCHANGED <<wire, callVars>>
  BY <1>0, <1>1, WireKept DEF callVars
<1>2. CASE Start
  BY <1>1, <1>2 DEF Start, netVars
<1>3. ASSUME NEW l \in Loops, LoopStep(l) PROVE WireShape'
  <2>1. CASE LoopActivate(l)
    <3>1. dialed \in Conns
      BY <1>0, <2>1 DEF LoopActivate, ConnShape
    <3>2. \A k \in Callers : pc'[k] = pc[k]
      BY <1>0, <2>1, <3>1, KindFacts, GotoFacts DEF LoopActivate, Place
    <3> QED BY <1>0, <2>1, <3>2, WireKept DEF LoopActivate, netVars
  <2>2. CASE LoopCheck(l) \/ LoopDial(l) \/ LoopRefused(l) \/ LoopExit(l)
    BY <1>1, <2>2 DEF LoopCheck, LoopDial, LoopRefused, LoopExit, netVars
  <2> QED BY <1>3, <2>1, <2>2 DEF LoopStep
<1>4. ASSUME NEW g \in Goroutines, DropStep(g) PROVE WireShape'
  BY <1>0, <1>4, DropMove, KindFacts, WireKept DEF Dropping, Unwritten
<1>5. ASSUME NEW c \in Conns, NEW a \in answers, ReadAnswer(c, a) PROVE WireShape'
  BY <1>1, <1>5 DEF ReadAnswer
<1>6. ASSUME NEW c \in Conns, ReadEnds(c) PROVE WireShape'
  <2>1. \A k \in Callers : pc'[k] = pc[k]
    BY <1>0, <1>6, KindFacts, GotoFacts DEF ReadEnds, Place
  <2> QED BY <1>0, <1>6, <2>1, WireKept DEF ReadEnds, netVars
<1>7. ASSUME NEW c \in Conns, ServerDrops(c) PROVE WireShape'
  BY <1>0, <1>7, WireKept DEF ServerDrops, callVars
<1>8. ASSUME NEW k \in Callers, NEW n \in Limits, Call(k, n) PROVE WireShape'
  <2>1. \A h \in Callers : pc'[h] = IF h = k THEN "wait" ELSE pc[h]
    BY <1>0, <1>8, KindFacts, GotoFacts DEF Call, Place
  <2>2. \A h \in Callers : pc'[h] \in Unwritten => pc[h] \in Unwritten
    BY <1>8, <2>1 DEF Call, Unwritten
  <2> QED BY <1>0, <1>8, <2>2, WireKept DEF Call, netVars
<1>9. ASSUME NEW k \in Callers,
             WaitForConnection(k) \/ Register(k) \/ Receive(k) \/ TimeOut(k) \/ SeeClosed(k)
      PROVE  WireShape'
  <2>1. \A h \in Callers : h # k => pc'[h] = pc[h]
    BY <1>0, <1>9, CallerMove, KindFacts
  <2>2. UNCHANGED <<wire, attempt>>
    BY <1>9 DEF WaitForConnection, Register, Receive, TimeOut, SeeClosed, netVars
  <2>3. pc'[k] \in Unwritten => pc[k] \in Unwritten
    <3>1. CASE WaitForConnection(k) \/ Register(k)
      BY <3>1 DEF WaitForConnection, Register, Unwritten
    <3>2. CASE Receive(k)
      <4>1. chan[k] \in {"answered", "refused", "closed"}
        BY <1>0, <3>2 DEF Receive, TypeOK
      <4>2. Goto(k, "ok") \/ Goto(k, "error") \/ Goto(k, "retry")
        BY <3>2, <4>1 DEF Receive
      <4> QED BY <1>0, <4>2, KindFacts, GotoFacts DEF Place, Returned, Unwritten
    <3>3. CASE TimeOut(k) \/ SeeClosed(k)
      <4>1. Goto(k, "drop") \/ Goto(k, "closed")
        BY <3>3 DEF TimeOut, SeeClosed
      <4> QED BY <1>0, <4>1, KindFacts, GotoFacts DEF Place, Returned, Unwritten
    <3> QED BY <1>9, <3>1, <3>2, <3>3
  <2> QED BY <1>0, <2>1, <2>2, <2>3, WireKept
<1>10. ASSUME NEW k \in Callers, WriteLine(k) PROVE WireShape'
  <2>1. \A h \in Callers : h # k => pc'[h] = pc[h]
    BY <1>0, <1>10, CallerMove, KindFacts
  <2>2. UNCHANGED attempt /\ pc[k] = "write"
    BY <1>10 DEF WriteLine
  <2>3. CASE UNCHANGED wire
    BY <1>0, <2>1, <2>2, <2>3, WireKept DEF Unwritten
  <2>4. CASE wire' = wire \cup {[caller |-> k, attempt |-> attempt[k], conn |-> on[k]]}
             /\ Goto(k, "await")
    <3> DEFINE new == [caller |-> k, attempt |-> attempt[k], conn |-> on[k]]
    <3>1. pc'[k] = "await"
      BY <1>0, <2>4, KindFacts, GotoFacts DEF Place
    <3>2. \A r \in wire : ~(r.caller = k /\ r.attempt = attempt[k])
      BY <1>0, <2>2 DEF WireShape, Unwritten
    <3>3. new.caller = k /\ new.attempt = attempt[k] /\ wire' = wire \cup {new}
      BY <2>4
    <3>4. attempt[k] \in 1..2
      BY <1>0 DEF TypeOK
    <3> HIDE DEF new
    <3>5. \A r \in wire' : r.attempt <= attempt'[r.caller]
      BY <1>0, <2>2, <3>3, <3>4 DEF WireShape
    <3>6. \A r \in wire' : r.attempt = attempt'[r.caller] => pc'[r.caller] \notin Unwritten
      BY <1>0, <1>a, <2>1, <2>2, <3>1, <3>3 DEF WireShape, Unwritten
    <3>7. \A r, t \in wire' : r.caller = t.caller /\ r.attempt = t.attempt => r = t
      BY <1>0, <3>2, <3>3 DEF WireShape
    <3> QED BY <3>5, <3>6, <3>7 DEF WireShape
  <2> QED BY <1>10, <2>3, <2>4 DEF WriteLine
<1>11. ASSUME NEW k \in Callers, Retry(k) PROVE WireShape'
  <2>1. \A h \in Callers : h # k => pc'[h] = pc[h]
    BY <1>0, <1>11, CallerMove, KindFacts
  <2>2. wire' = wire
    BY <1>11 DEF Retry, netVars
  <2>3. CASE attempt' = [attempt EXCEPT ![k] = @ + 1]
    <3>1. \A h \in Callers : attempt'[h] = IF h = k THEN attempt[k] + 1 ELSE attempt[h]
      BY <1>0, <2>3 DEF TypeOK
    <3>2. \A h \in Callers : attempt[h] \in 1..2
      BY <1>0 DEF TypeOK
    <3>3. \A r \in wire : r.attempt <= attempt[r.caller]
      BY <1>0 DEF WireShape
    <3>4. \A r \in wire : r.caller = k => r.attempt < attempt'[k]
      BY <1>a, <3>1, <3>2, <3>3
    <3> QED BY <1>0, <1>a, <2>1, <2>2, <3>1, <3>2, <3>3, <3>4 DEF WireShape
  <2>4. CASE Goto(k, "unavailable") /\ UNCHANGED attempt
    <3>1. pc'[k] = "unavailable"
      BY <1>0, <2>4, KindFacts, GotoFacts DEF Place, Returned
    <3> QED BY <1>0, <2>1, <2>2, <2>4, <3>1, WireKept DEF Unwritten
  <2> QED BY <1>11, <2>3, <2>4 DEF Retry
<1>12. CASE CloseFlag \/ CloseDetach \/ CloseFail
  BY <1>1, <1>12 DEF CloseFlag, CloseDetach, CloseFail, netVars
<1>13. ASSUME NEW r \in wire, NEW ok \in BOOLEAN, ServerHandles(r, ok) PROVE WireShape'
  BY <1>0, <1>13, WireKept DEF ServerHandles, callVars
<1> QED
  BY <1>1, <1>2, <1>3, <1>4, <1>5, <1>6, <1>7, <1>8, <1>9, <1>10, <1>11, <1>12, <1>13,
     NextCases
  DEF vars, netVars

LEMMA FramesType ==
  ASSUME TypeOK, NEW k \in Callers
  PROVE  /\ \A n \in 1..2 : OnWire(k, n) \in {0, 1}
         /\ served[k] \in Nat /\ Frames(k) \in Nat /\ served[k] <= Frames(k)
         /\ attempt[k] \in 1..2 /\ maxAttempts[k] \in 1..2
<1>1. \A n \in 1..2 : OnWire(k, n) \in {0, 1}
  BY DEF OnWire
<1>2. served[k] \in Nat /\ attempt[k] \in 1..2 /\ maxAttempts[k] \in 1..2
  BY DEF TypeOK
<1> QED BY <1>1, <1>2 DEF Frames

\* A step that leaves served and answers alone, loses no frame of a caller's
\* present attempt twice, and makes no caller succeed without an answer.
LEMMA ServeKept ==
  ASSUME TypeOK, ServeShape, UNCHANGED <<served, answers, maxAttempts>>,
         wire' \subseteq wire,
         \A k \in Callers :
           /\ attempt'[k] = attempt[k]
           /\ pc'[k] \in Unwritten => pc[k] \in Unwritten
           /\ pc'[k] = "idle" => pc[k] = "idle"
           /\ pc'[k] = "ok" => pc[k] = "ok" \/ chan[k] = "answered"
           /\ chan'[k] = "answered" => chan[k] = "answered" \/ served[k] > 0
  PROVE  ServeShape'
<1>1. \A k \in Callers, n \in 1..2 : OnWire(k, n)' \in {0, 1} /\ OnWire(k, n)' <= OnWire(k, n)
  BY DEF OnWire
<1>2. \A k \in Callers : Frames(k)' \in Nat /\ Frames(k)' <= Frames(k)
  <2> SUFFICES ASSUME NEW k \in Callers PROVE Frames(k)' \in Nat /\ Frames(k)' <= Frames(k)
    OBVIOUS
  <2>1. OnWire(k, 1)' \in {0, 1} /\ OnWire(k, 1)' <= OnWire(k, 1)
        /\ OnWire(k, 2)' \in {0, 1} /\ OnWire(k, 2)' <= OnWire(k, 2)
    BY <1>1
  <2>2. OnWire(k, 1) \in {0, 1} /\ OnWire(k, 2) \in {0, 1} /\ served[k] \in Nat
    BY FramesType
  <2>3. served'[k] = served[k]
    OBVIOUS
  <2> QED BY <2>1, <2>2, <2>3 DEF Frames
<1>3. \A k \in Callers : Frames(k) \in Nat /\ attempt[k] \in 1..2
  BY FramesType
<1>4. \A k \in Callers : Frames(k)' <= attempt'[k]
                         /\ (pc'[k] \in Unwritten => Frames(k)' < attempt'[k])
  BY <1>2, <1>3 DEF ServeShape
<1>5. \A k \in Callers : /\ attempt'[k] <= maxAttempts'[k]
                         /\ pc'[k] = "idle" => attempt'[k] = 1
                         /\ pc'[k] = "ok" \/ chan'[k] = "answered" => served'[k] > 0
  BY DEF ServeShape
<1> QED BY <1>4, <1>5 DEF ServeShape

LEMMA ServePart == IInv /\ [Next]_vars => ServeShape'
<1> SUFFICES ASSUME IInv, [Next]_vars PROVE ServeShape'
  OBVIOUS
<1>0. TypeOK /\ OneReconnectLoop /\ ConnShape /\ PendShape /\ NoPanic /\ WireShape /\ ServeShape
  BY DEF IInv
<1>1. CASE UNCHANGED <<callVars, chan, wire, answers, served>>
  BY <1>0, <1>1, ServeKept DEF callVars
<1>2. CASE Start
  BY <1>1, <1>2 DEF Start, netVars, pendVars
<1>3. ASSUME NEW l \in Loops, LoopStep(l) PROVE ServeShape'
  <2>1. CASE LoopActivate(l)
    <3>1. dialed \in Conns
      BY <1>0, <2>1 DEF LoopActivate, ConnShape
    <3>2. \A k \in Callers : pc'[k] = pc[k]
      BY <1>0, <2>1, <3>1, KindFacts, GotoFacts DEF LoopActivate, Place
    <3> QED BY <1>0, <2>1, <3>2, ServeKept DEF LoopActivate, netVars, pendVars
  <2>2. CASE LoopCheck(l) \/ LoopDial(l) \/ LoopRefused(l) \/ LoopExit(l)
    BY <1>1, <2>2 DEF LoopCheck, LoopDial, LoopRefused, LoopExit, netVars, pendVars
  <2> QED BY <1>3, <2>1, <2>2 DEF LoopStep
<1>4. ASSUME NEW g \in Goroutines, DropStep(g) PROVE ServeShape'
  <2>1. \A k \in Callers : pc'[k] = pc[k] \/ pc'[k] \in {"fail", "ensure", "retry"}
    BY <1>0, <1>4, DropMove, KindFacts DEF Dropping
  <2>2. UNCHANGED <<served, answers, maxAttempts, attempt, wire>>
    BY <1>0, <1>4, DropMove
  <2>3. \A k \in Callers : chan'[k] = "answered" => chan[k] = "answered"
    BY <1>0, <1>4, CloseAllFacts DEF DropStep, Detach, FailPending, Ensure, pendVars
  <2> QED BY <1>0, <2>1, <2>2, <2>3, ServeKept DEF Unwritten
<1>5. ASSUME NEW c \in Conns, NEW a \in answers, ReadAnswer(c, a) PROVE ServeShape'
  <2>1. answers' \subseteq answers /\ UNCHANGED <<callVars, wire, served>>
    BY <1>5 DEF ReadAnswer
  <2>2. \A k \in Callers : chan'[k] = "answered" => chan[k] = "answered" \/ served[k] > 0
    <3>1. a.caller \in Callers /\ a.ok \in BOOLEAN /\ (a.ok => served[a.caller] > 0)
      BY <1>0 DEF TypeOK, ServeShape
    <3> QED BY <1>0, <1>5, <3>1 DEF ReadAnswer, TypeOK, pendVars
  <2>3. \A k \in Callers, n \in 1..2 : OnWire(k, n)' = OnWire(k, n)
    BY <2>1 DEF OnWire
  <2>4. \A k \in Callers : Frames(k)' = Frames(k)
    BY <2>1, <2>3 DEF Frames
  <2>5. \A k \in Callers : chan'[k] = "answered" => served'[k] > 0
    BY <1>0, <2>1, <2>2 DEF ServeShape
  <2>6. \A b \in answers' : b.ok => served'[b.caller] > 0
    BY <1>0, <2>1 DEF ServeShape
  <2> QED BY <1>0, <2>1, <2>4, <2>5, <2>6 DEF ServeShape, callVars
<1>6. ASSUME NEW c \in Conns, ReadEnds(c) PROVE ServeShape'
  <2>1. \A k \in Callers : pc'[k] = pc[k]
    BY <1>0, <1>6, KindFacts, GotoFacts DEF ReadEnds, Place
  <2> QED BY <1>0, <1>6, <2>1, ServeKept DEF ReadEnds, netVars, pendVars
<1>7. ASSUME NEW c \in Conns, ServerDrops(c) PROVE ServeShape'
  BY <1>0, <1>7, ServeKept DEF ServerDrops, callVars, pendVars
<1>8. ASSUME NEW k \in Callers, NEW n \in Limits, Call(k, n) PROVE ServeShape'
  <2>1. \A h \in Callers : pc'[h] = IF h = k THEN "wait" ELSE pc[h]
    BY <1>0, <1>8, KindFacts, GotoFacts DEF Call, Place
  <2>2. \A h \in Callers : maxAttempts'[h] = IF h = k THEN n ELSE maxAttempts[h]
    BY <1>0, <1>8 DEF Call, TypeOK
  <2>3. UNCHANGED <<attempt, chan, wire, answers, served>> /\ pc[k] = "idle"
    BY <1>8 DEF Call, netVars, pendVars
  <2>4. attempt[k] = 1 /\ attempt[k] <= n
    BY <1>0, <2>3, LimitsAssumption DEF ServeShape
  <2>5. \A h \in Callers, m \in 1..2 : OnWire(h, m)' = OnWire(h, m)
    BY <2>3 DEF OnWire
  <2>6. \A h \in Callers : Frames(h)' = Frames(h)
    BY <2>3, <2>5 DEF Frames
  <2>7. \A h \in Callers : pc'[h] \in Unwritten => pc[h] \in Unwritten
    BY <2>1, <2>3 DEF Unwritten
  <2> QED BY <1>0, <2>1, <2>2, <2>3, <2>4, <2>6, <2>7 DEF ServeShape
<1>9. ASSUME NEW k \in Callers,
             WaitForConnection(k) \/ Register(k) \/ TimeOut(k) \/ SeeClosed(k)
      PROVE  ServeShape'
  <2>1. \A h \in Callers : h # k => pc'[h] = pc[h]
    BY <1>0, <1>9, CallerMove, KindFacts
  <2>2. UNCHANGED <<wire, attempt, maxAttempts, answers, served>>
    BY <1>9 DEF WaitForConnection, Register, TimeOut, SeeClosed, netVars
  <2>3. \A h \in Callers : chan'[h] = "answered" => chan[h] = "answered"
    BY <1>0, <1>9 DEF WaitForConnection, Register, TimeOut, SeeClosed, pendVars, TypeOK
  <2>4. pc'[k] \notin {"idle", "ok"} /\ (pc'[k] \in Unwritten => pc[k] \in Unwritten)
    <3>1. CASE WaitForConnection(k)
      <4>1. Goto(k, "closed") \/ Goto(k, "register") \/ Goto(k, "retry")
        BY <3>1 DEF WaitForConnection
      <4>2. pc'[k] \in {"closed", "register", "retry"}
        BY <1>0, <4>1, KindFacts, GotoFacts DEF Place, Returned
      <4> QED BY <3>1, <4>2 DEF WaitForConnection, Unwritten
    <3>2. CASE Register(k)
      <4>1. pc'[k] = "write"
        BY <1>0, <3>2, KindFacts, GotoFacts DEF Register, Place
      <4> QED BY <3>2, <4>1 DEF Register, Unwritten
    <3>3. CASE TimeOut(k) \/ SeeClosed(k)
      <4>1. Goto(k, "drop") \/ Goto(k, "closed")
        BY <3>3 DEF TimeOut, SeeClosed
      <4> QED BY <1>0, <4>1, KindFacts, GotoFacts DEF Place, Returned, Unwritten
    <3> QED BY <1>9, <3>1, <3>2, <3>3
  <2> QED BY <1>0, <2>1, <2>2, <2>3, <2>4, ServeKept
<1>10. ASSUME NEW k \in Callers, Receive(k) PROVE ServeShape'
  <2>1. \A h \in Callers : h # k => pc'[h] = pc[h]
    BY <1>0, <1>10, CallerMove, KindFacts
  <2>2. UNCHANGED <<wire, attempt, maxAttempts, answers, served, chan>>
    BY <1>10 DEF Receive, netVars, pendVars
  <2>3. chan[k] \in {"answered", "refused", "closed"}
    BY <1>0, <1>10 DEF Receive, TypeOK
  <2>4. (Goto(k, "ok") /\ chan[k] = "answered") \/ Goto(k, "error") \/ Goto(k, "retry")
    BY <1>10, <2>3 DEF Receive
  <2>5. (pc'[k] = "ok" /\ chan[k] = "answered") \/ pc'[k] \in {"error", "retry"}
    BY <1>0, <2>4, KindFacts, GotoFacts DEF Place, Returned
  <2> QED BY <1>0, <2>1, <2>2, <2>5, ServeKept DEF Unwritten
<1>11. ASSUME NEW k \in Callers, WriteLine(k) PROVE ServeShape'
  <2>1. \A h \in Callers : h # k => pc'[h] = pc[h]
    BY <1>0, <1>11, CallerMove, KindFacts
  <2>2. UNCHANGED <<attempt, maxAttempts, chan, answers, served>> /\ pc[k] = "write"
    BY <1>11 DEF WriteLine, pendVars
  <2>3. CASE UNCHANGED wire /\ (Goto(k, "retry") \/ Goto(k, "drop"))
    <3>1. pc'[k] \in {"retry", "drop"}
      BY <1>0, <2>3, KindFacts, GotoFacts DEF Place
    <3> QED BY <1>0, <2>1, <2>2, <2>3, <3>1, ServeKept DEF Unwritten
  <2>4. CASE wire' = wire \cup {[caller |-> k, attempt |-> attempt[k], conn |-> on[k]]}
             /\ Goto(k, "await")
    <3> DEFINE new == [caller |-> k, attempt |-> attempt[k], conn |-> on[k]]
    <3>1. pc'[k] = "await"
      BY <1>0, <2>4, KindFacts, GotoFacts DEF Place
    <3>2. new.caller = k /\ new.attempt = attempt[k] /\ wire' = wire \cup {new}
      BY <2>4
    <3>3. OnWire(k, attempt[k]) = 0
      BY <1>0, <2>2 DEF WireShape, Unwritten, OnWire
    <3> HIDE DEF new
    <3>4. \A h \in Callers, n \in 1..2 :
            OnWire(h, n)' = IF h = k /\ n = attempt[k] THEN 1 ELSE OnWire(h, n)
      BY <3>2 DEF OnWire
    <3>5. \A h \in Callers : Frames(h)' = IF h = k THEN Frames(h) + 1 ELSE Frames(h)
      <4> SUFFICES ASSUME NEW h \in Callers
                   PROVE  Frames(h)' = IF h = k THEN Frames(h) + 1 ELSE Frames(h)
        OBVIOUS
      <4>1. OnWire(h, 1)' = (IF h = k /\ 1 = attempt[k] THEN 1 ELSE OnWire(h, 1))
            /\ OnWire(h, 2)' = (IF h = k /\ 2 = attempt[k] THEN 1 ELSE OnWire(h, 2))
        BY <3>4
      <4>2. OnWire(h, 1) \in {0, 1} /\ OnWire(h, 2) \in {0, 1} /\ served[h] \in Nat
            /\ attempt[k] \in 1..2 /\ served'[h] = served[h]
        BY <1>0, <2>2, FramesType
      <4>3. h = k => OnWire(h, attempt[k]) = 0
        BY <3>3
      <4>4. CASE h # k
        BY <4>1, <4>2, <4>4 DEF Frames
      <4>5. CASE h = k /\ attempt[k] = 1
        BY <4>1, <4>2, <4>3, <4>5 DEF Frames
      <4>6. CASE h = k /\ attempt[k] = 2
        BY <4>1, <4>2, <4>3, <4>6 DEF Frames
      <4> QED BY <4>2, <4>4, <4>5, <4>6
    <3>6. \A h \in Callers : Frames(h) \in Nat /\ attempt[h] \in 1..2
      BY <1>0, FramesType
    <3>7. Frames(k) < attempt[k]
      BY <1>0, <2>2 DEF ServeShape, Unwritten
    <3>8. \A h \in Callers : Frames(h)' <= attempt[h]
      BY <1>0, <3>5, <3>6, <3>7 DEF ServeShape
    <3>9. \A h \in Callers : pc'[h] \in Unwritten => Frames(h)' < attempt[h]
      BY <1>0, <2>1, <3>1, <3>5 DEF ServeShape, Unwritten
    <3> QED BY <1>0, <2>1, <2>2, <3>1, <3>8, <3>9 DEF ServeShape
  <2> QED BY <1>11, <2>3, <2>4 DEF WriteLine
<1>12. ASSUME NEW k \in Callers, Retry(k) PROVE ServeShape'
  <2>1. \A h \in Callers : h # k => pc'[h] = pc[h]
    BY <1>0, <1>12, CallerMove, KindFacts
  <2>2. UNCHANGED <<maxAttempts, chan, wire, answers, served>>
    BY <1>12 DEF Retry, netVars
  <2>3. CASE attempt[k] < maxAttempts[k] /\ attempt' = [attempt EXCEPT ![k] = @ + 1]
             /\ Goto(k, "wait")
    <3>1. \A h \in Callers : attempt'[h] = IF h = k THEN attempt[k] + 1 ELSE attempt[h]
      BY <1>0, <2>3 DEF TypeOK
    <3>2. pc'[k] = "wait"
      BY <1>0, <2>3, KindFacts, GotoFacts DEF Place
    <3>3. \A h \in Callers : Frames(h) \in Nat /\ attempt[h] \in 1..2 /\ maxAttempts[h] \in 1..2
      BY <1>0, FramesType
    <3>4. \A h \in Callers, n \in 1..2 : OnWire(h, n)' = OnWire(h, n)
      BY <2>2 DEF OnWire
    <3>5. \A h \in Callers : Frames(h)' = Frames(h)
      BY <2>2, <3>4 DEF Frames
    <3>6. \A h \in Callers : attempt'[h] <= maxAttempts[h] /\ Frames(h)' <= attempt'[h]
                             /\ (pc'[h] \in Unwritten => Frames(h)' < attempt'[h])
      BY <1>0, <2>1, <2>3, <3>1, <3>3, <3>5 DEF ServeShape
    <3>7. \A h \in Callers : pc'[h] \in {"idle", "ok"} => pc'[h] = pc[h] /\ h # k
      BY <2>1, <3>2
    <3> QED BY <1>0, <2>2, <3>1, <3>6, <3>7 DEF ServeShape
  <2>4. CASE Goto(k, "unavailable") /\ UNCHANGED attempt
    <3>1. pc'[k] = "unavailable"
      BY <1>0, <2>4, KindFacts, GotoFacts DEF Place, Returned
    <3> QED BY <1>0, <2>1, <2>2, <2>4, <3>1, ServeKept DEF Unwritten
  <2> QED BY <1>12, <2>3, <2>4 DEF Retry
<1>13. CASE CloseFlag \/ CloseDetach
  BY <1>1, <1>13 DEF CloseFlag, CloseDetach, netVars, pendVars
<1>14. CASE CloseFail
  BY <1>0, <1>14, CloseAllFacts, ServeKept DEF CloseFail, callVars, netVars
<1>15. ASSUME NEW r \in wire, NEW ok \in BOOLEAN, ServerHandles(r, ok) PROVE ServeShape'
  <2>1. r.caller \in Callers /\ r.attempt \in 1..2
    BY <1>0 DEF TypeOK
  <2>2. UNCHANGED <<callVars, chan>> /\ wire' = wire \ {r}
    BY <1>15 DEF ServerHandles, pendVars
  <2>3. \A h \in Callers :
          served'[h] = IF h = r.caller THEN (IF ok THEN served[h] + 1 ELSE served[h])
                       ELSE served[h]
    BY <1>0, <1>15, <2>1 DEF ServerHandles, TypeOK
  <2>4. OnWire(r.caller, r.attempt) = 1 /\ OnWire(r.caller, r.attempt)' = 0
    BY <1>0, <2>2 DEF OnWire, WireShape
  <2>5. \A h \in Callers, n \in 1..2 : ~(h = r.caller /\ n = r.attempt)
                                         => OnWire(h, n)' = OnWire(h, n)
    BY <2>2 DEF OnWire
  <2>6. \A h \in Callers : Frames(h)' \in Nat /\ Frames(h)' <= Frames(h) /\ served[h] <= served'[h]
    <3> SUFFICES ASSUME NEW h \in Callers
                 PROVE  Frames(h)' \in Nat /\ Frames(h)' <= Frames(h) /\ served[h] <= served'[h]
      OBVIOUS
    <3>1. OnWire(h, 1) \in {0, 1} /\ OnWire(h, 2) \in {0, 1} /\ served[h] \in Nat
      BY <1>0, FramesType
    <3>2. served'[h] \in Nat /\ served[h] <= served'[h] /\ served'[h] <= served[h] + 1
      BY <2>3, <3>1
    <3>3. CASE h # r.caller
      <4>1. OnWire(h, 1)' = OnWire(h, 1) /\ OnWire(h, 2)' = OnWire(h, 2) /\ served'[h] = served[h]
        BY <2>3, <2>5, <3>3
      <4> QED BY <3>1, <4>1 DEF Frames
    <3>4. CASE h = r.caller /\ r.attempt = 1
      <4>1. OnWire(h, 1) = 1 /\ OnWire(h, 1)' = 0 /\ OnWire(h, 2)' = OnWire(h, 2)
        BY <2>4, <2>5, <3>4
      <4> QED BY <3>1, <3>2, <4>1 DEF Frames
    <3>5. CASE h = r.caller /\ r.attempt = 2
      <4>1. OnWire(h, 2) = 1 /\ OnWire(h, 2)' = 0 /\ OnWire(h, 1)' = OnWire(h, 1)
        BY <2>4, <2>5, <3>5
      <4> QED BY <3>1, <3>2, <4>1 DEF Frames
    <3> QED BY <2>1, <3>3, <3>4, <3>5
  <2>7. \A h \in Callers : Frames(h) \in Nat /\ served[h] \in Nat /\ attempt[h] \in 1..2
    BY <1>0, FramesType
  <2>8. \A h \in Callers : Frames(h)' <= attempt[h]
                           /\ (pc[h] \in Unwritten => Frames(h)' < attempt[h])
    BY <1>0, <2>6, <2>7 DEF ServeShape
  <2>9. \A h \in Callers : served[h] > 0 => served'[h] > 0
    BY <2>3, <2>7
  <2>10. \A b \in answers' : b.ok => served'[b.caller] > 0
    <3>1. \A b \in answers : b.caller \in Callers
      BY <1>0 DEF TypeOK
    <3>2. \A b \in answers : b.ok => served'[b.caller] > 0
      BY <1>0, <2>9, <3>1 DEF ServeShape
    <3> DEFINE new == [caller |-> r.caller, attempt |-> r.attempt, conn |-> r.conn, ok |-> ok]
    <3>3. answers' \subseteq answers \cup {new}
      BY <1>15 DEF ServerHandles
    <3>4. new.ok = ok /\ new.caller = r.caller
      OBVIOUS
    <3>5. ok => served'[r.caller] > 0
      BY <2>1, <2>3, <2>7
    <3> QED BY <3>2, <3>3, <3>4, <3>5
  <2> QED BY <1>0, <2>2, <2>8, <2>9, <2>10 DEF ServeShape, callVars
<1> QED
  BY <1>1, <1>2, <1>3, <1>4, <1>5, <1>6, <1>7, <1>8, <1>9, <1>10, <1>11, <1>12, <1>13,
     <1>14, <1>15, NextCases
  DEF vars, netVars, pendVars

-----------------------------------------------------------------------------
(* The theorems                                                             *)

LEMMA StepInv == IInv /\ [Next]_vars => IInv'
BY TypeStep, LoopPart, ConnPart, DropPart, OnPart, PendPart, PanicPart, WirePart, ServePart
DEF IInv

\* IInv is an inductive invariant of the client.
THEOREM Invariance == Spec => []IInv
BY InitInv, StepInv, PTL DEF Spec

\* The state keeps its shape, however many callers share the client.
THEOREM TypeCorrect == Spec => []TypeOK
<1>1. IInv => TypeOK
  BY DEF IInv
<1> QED BY Invariance, <1>1, PTL

\* ensureReconnectLoop never runs two reconnectLoops side by side, and the
\* reconnecting flag is never left standing after the loop has gone.
THEOREM SingleLoop == Spec => []OneReconnectLoop
<1>1. IInv => OneReconnectLoop
  BY DEF IInv
<1> QED BY Invariance, <1>1, PTL

\* activateConnection, failPending, readLoop and Close never close a closed
\* channel and never send on one.
THEOREM Panicless == Spec => []NoPanic
<1>1. IInv => NoPanic
  BY DEF IInv
<1> QED BY Invariance, <1>1, PTL

\* markDisconnected fails the requests of the connection that was lost while
\* there is no other, so it never fails a request of the next connection.
THEOREM FailsNoLaterConnection == Spec => []FailsOwnConnection
<1>1. IInv => FailsOwnConnection
  BY DEF IInv, DropShape, FailsOwnConnection, Dropping, Goroutines
<1> QED BY Invariance, <1>1, PTL

\* A caller in tryRequest's select is in c.pending or has its verdict in
\* respCh: an answer or a lost connection cannot pass it by.
THEOREM NoWaiterMissed == Spec => []WaiterIsReachable
<1>1. IInv => WaiterIsReachable
  BY DEF IInv, PendShape, WaiterIsReachable
<1> QED BY Invariance, <1>1, PTL

\* request() says "ok" only for a request the server carried out, and the
\* retry makes the server carry it out at most once per attempt.
THEOREM AtMostOncePerAttempt == Spec => []ServedPerAttempt
<1>1. IInv => ServedPerAttempt
  <2> SUFFICES ASSUME IInv PROVE ServedPerAttempt
    OBVIOUS
  <2>1. TypeOK /\ ServeShape
    BY DEF IInv
  <2>2. \A k \in Callers : served[k] \in Nat /\ Frames(k) \in Nat /\ served[k] <= Frames(k)
                           /\ attempt[k] \in 1..2 /\ maxAttempts[k] \in 1..2
    BY <2>1, FramesType
  <2> QED BY <2>1, <2>2 DEF ServeShape, ServedPerAttempt
<1> QED BY Invariance, <1>1, PTL

=============================================================================
