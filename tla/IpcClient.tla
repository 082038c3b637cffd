----------------------------- MODULE IpcClient -----------------------------
(***************************************************************************)
(* The IPC client every Go service of the device embeds                     *)
(* (device/internal/ipc/client.go): one Unix-socket connection to           *)
(* cloud-comm, re-established by a reconnect loop, shared by the goroutines *)
(* that call request() and read by one readLoop per connection.             *)
(*                                                                          *)
(* The goroutines are the callers (Publish, SendServiceMessage,             *)
(* ReportStatus, ReportError, and replayLastStatus, which is one more       *)
(* report-status call), the read loops, the reconnect loops and Close().    *)
(* Each critical section of stateMu, pendingMu and reconnectMu is one step. *)
(* A connection and its generation are one number, since activateConnection *)
(* gives every connection a new generation.                                 *)
(***************************************************************************)
EXTENDS Integers, FiniteSets

CONSTANTS
  Callers,   \* goroutines that call request(), one call each
  Limits,    \* the maxAttempts calls use: 1 for reports, 2 for messages
  Loops,     \* room for reconnectLoop goroutines
  MaxConns,  \* bound: connections made
  MaxDrops   \* bound: connections the server closes or loses

ASSUME BoundsAssumption == MaxConns \in Nat /\ MaxDrops \in Nat
ASSUME LimitsAssumption == Limits \subseteq {1, 2}
\* Connections are numbers; callers are not.
ASSUME CallersAssumption == Callers \cap Int = {}

Conns == 1..MaxConns
None == 0  \* a nil net.Conn

VARIABLES
  started,      \* startOnce has run
  conn,         \* c.conn
  ready,        \* c.readyCh is closed
  closing,      \* progress of Close: "no", "flagged", "detached", "done"
  reconnecting, \* c.reconnecting
  loop,         \* where each reconnectLoop stands
  pending,      \* c.pending: the (caller, attempt) pairs registered
  pc,           \* where each caller and each readLoop stands
  on,           \* the connection each caller works on
  attempt,      \* the attempt each caller is in, of
  maxAttempts,  \* how many
  chan,         \* respCh of each caller: "open", "answered", "refused", "closed"
  dialed,       \* connections made so far
  up,           \* connections still open at both ends
  drops,        \* connections the server has closed
  wire,         \* requests written and not handled
  answers,      \* answers written and not read
  served,       \* how often the server has carried out each caller's request
  panicked      \* a closed channel was closed, or written to

conVars  == <<started, conn, ready, closing>>
loopVars == <<reconnecting, loop>>
callVars == <<pc, on, attempt, maxAttempts>>
pendVars == <<pending, chan>>
netVars  == <<dialed, up, drops, wire, answers, served>>
vars == <<conVars, loopVars, callVars, pendVars, netVars, panicked>>

Returned == {"ok", "error", "unavailable", "closed"}

Init ==
  /\ started = FALSE /\ conn = None /\ ready = FALSE /\ closing = "no"
  /\ reconnecting = FALSE /\ loop = [l \in Loops |-> "off"]
  /\ pc = [g \in Callers \cup Conns |-> IF g \in Callers THEN "idle" ELSE "off"]
  /\ on = [k \in Callers |-> None]
  /\ attempt = [k \in Callers |-> 1]
  /\ maxAttempts = [k \in Callers |-> 1]
  /\ pending = {} /\ chan = [k \in Callers |-> "open"]
  /\ dialed = 0 /\ up = {} /\ drops = 0
  /\ wire = {} /\ answers = {} /\ served = [k \in Callers |-> 0]
  /\ panicked = FALSE

isClosed == closing # "no"
Goto(g, label) == pc' = [pc EXCEPT ![g] = label]
GotoLoop(l, label) == loop' = [loop EXCEPT ![l] = label]

-----------------------------------------------------------------------------
(* ensureReconnectLoop and reconnectLoop                                    *)

\* Mutant: the reconnecting flag is not consulted.
EnsureAlways ==
  \/ isClosed /\ UNCHANGED loopVars
  \/ /\ ~isClosed
     /\ reconnecting' = TRUE
     /\ \E l \in Loops : loop[l] = "off" /\ GotoLoop(l, "check")

EnsureReconnectLoop ==
  \/ /\ reconnecting \/ isClosed
     /\ UNCHANGED loopVars
  \/ /\ ~reconnecting /\ ~isClosed
     /\ reconnecting' = TRUE
     /\ \E l \in Loops : loop[l] = "off" /\ GotoLoop(l, "check")

Start ==
  /\ ~started
  /\ started' = TRUE
  /\ EnsureReconnectLoop
  /\ UNCHANGED <<conn, ready, closing, callVars, pendVars, netVars, panicked>>

\* The two tests at the head of the loop.
LoopCheck(l) ==
  /\ loop[l] = "check"
  /\ GotoLoop(l, IF isClosed \/ conn # None THEN "exit" ELSE "dial")
  /\ UNCHANGED <<conVars, reconnecting, callVars, pendVars, netVars, panicked>>

\* net.Dial and registerService succeed.
LoopDial(l) ==
  /\ loop[l] = "dial"
  /\ dialed < MaxConns
  /\ dialed' = dialed + 1
  /\ up' = up \cup {dialed + 1}
  /\ GotoLoop(l, "activate")
  /\ UNCHANGED <<conVars, reconnecting, callVars, pendVars, drops, wire, answers,
                 served, panicked>>

\* Mutant: the loop gives up after one failure.
GivesUp(l) ==
  /\ loop[l] = "dial"
  /\ GotoLoop(l, "exit")
  /\ UNCHANGED <<conVars, reconnecting, callVars, pendVars, netVars, panicked>>

\* One of the two fails.  The loop sleeps and tries again, unless Close ends
\* the sleep; how long it sleeps is left out.
LoopRefused(l) ==
  /\ loop[l] = "dial"
  /\ GotoLoop(l, IF isClosed THEN "exit" ELSE "check")
  /\ UNCHANGED <<conVars, reconnecting, callVars, pendVars, netVars, panicked>>

\* activateConnection, then go readLoop.  Closed or not is not asked again.
LoopActivate(l) ==
  /\ loop[l] = "activate"
  /\ conn' = dialed
  /\ panicked' = (panicked \/ ready)
  /\ ready' = TRUE
  /\ Goto(dialed, "read")
  /\ GotoLoop(l, "exit")
  /\ UNCHANGED <<started, closing, reconnecting, on, attempt, maxAttempts,
                 pendVars, netVars>>

\* The deferred reset of reconnecting.
LoopExit(l) ==
  /\ loop[l] = "exit"
  /\ reconnecting' = FALSE
  /\ GotoLoop(l, "off")
  /\ UNCHANGED <<conVars, callVars, pendVars, netVars, panicked>>

-----------------------------------------------------------------------------
(* markDisconnected(conn, generation), called by a readLoop or by a caller:  *)
(* detach under stateMu, close and fail what is pending, ensure a loop.      *)

ConnOf(g) == IF g \in Callers THEN on[g] ELSE g
AfterDrop(g) == IF g \in Callers THEN "retry" ELSE "off"

\* Mutant: the loop is started before what is pending has been failed.
DetachEnsures(g) ==
  /\ pc[g] = "drop"
  /\ conn = ConnOf(g)
  /\ conn' = None
  /\ ready' = FALSE
  /\ Goto(g, "fail")
  /\ EnsureReconnectLoop
  /\ UNCHANGED <<started, closing, on, attempt, maxAttempts, pendVars, netVars, panicked>>

Detach(g) ==
  /\ pc[g] = "drop"
  /\ \/ /\ conn # ConnOf(g)
        /\ Goto(g, AfterDrop(g))
        /\ UNCHANGED conVars
     \/ /\ conn = ConnOf(g)
        /\ conn' = None
        /\ ready' = FALSE
        /\ Goto(g, "fail")
        /\ UNCHANGED <<started, closing>>
  /\ UNCHANGED <<loopVars, on, attempt, maxAttempts, pendVars, netVars, panicked>>

\* Mutant: the entries are forgotten and their channels left open.
ForgetAll ==
  /\ pending' = {}
  /\ UNCHANGED <<chan, panicked>>

\* failPending: every registered channel is closed and forgotten.
CloseAll ==
  /\ pending' = {}
  /\ chan' = [k \in Callers |->
                IF \E p \in pending : p[1] = k THEN "closed" ELSE chan[k]]
  /\ panicked' = (panicked \/ \E p \in pending : chan[p[1]] # "open")

FailPending(g) ==
  /\ pc[g] = "fail"
  /\ up' = up \ {ConnOf(g)}
  /\ CloseAll
  /\ Goto(g, "ensure")
  /\ UNCHANGED <<conVars, loopVars, on, attempt, maxAttempts, dialed, drops, wire,
                 answers, served>>

Ensure(g) ==
  /\ pc[g] = "ensure"
  /\ EnsureReconnectLoop
  /\ Goto(g, AfterDrop(g))
  /\ UNCHANGED <<conVars, on, attempt, maxAttempts, pendVars, netVars, panicked>>

-----------------------------------------------------------------------------
(* readLoop.  Frames already buffered are handled even after the connection  *)
(* is gone; notifications go to another channel and change nothing here.     *)

\* Mutant: the entry of c.pending is not deleted.
AnswerKeepsEntry(c, a) ==
  /\ pc[c] = "read"
  /\ a \in answers /\ a.conn = c
  /\ answers' = answers \ {a}
  /\ <<a.caller, a.attempt>> \in pending
  /\ chan' = [chan EXCEPT ![a.caller] = IF a.ok THEN "answered" ELSE "refused"]
  /\ panicked' = (panicked \/ chan[a.caller] # "open")
  /\ UNCHANGED <<conVars, loopVars, callVars, pending, dialed, up, drops, wire, served>>

ReadAnswer(c, a) ==
  /\ pc[c] = "read"
  /\ a \in answers /\ a.conn = c
  /\ answers' = answers \ {a}
  /\ LET p == <<a.caller, a.attempt>> IN
     \/ /\ p \in pending
        /\ pending' = pending \ {p}
        /\ chan' = [chan EXCEPT ![a.caller] = IF a.ok THEN "answered" ELSE "refused"]
        /\ panicked' = (panicked \/ chan[a.caller] # "open")
     \/ /\ p \notin pending
        /\ UNCHANGED <<pendVars, panicked>>
  /\ UNCHANGED <<conVars, loopVars, callVars, dialed, up, drops, wire, served>>

ReadEnds(c) ==
  /\ pc[c] = "read"
  /\ c \notin up
  /\ Goto(c, "drop")
  /\ UNCHANGED <<conVars, loopVars, on, attempt, maxAttempts, pendVars, netVars, panicked>>

-----------------------------------------------------------------------------
(* request and tryRequest                                                   *)

\* Publish and SendServiceMessage make two attempts, the reports one.
Call(k, n) ==
  /\ pc[k] = "idle"
  /\ maxAttempts' = [maxAttempts EXCEPT ![k] = n]
  /\ Goto(k, "wait")
  /\ UNCHANGED <<conVars, loopVars, on, attempt, pendVars, netVars, panicked>>

\* waitForConnection: closed, connected, or still nothing after half a second.
WaitForConnection(k) ==
  /\ pc[k] = "wait"
  /\ \/ isClosed /\ Goto(k, "closed") /\ UNCHANGED on
     \/ ~isClosed /\ conn # None /\ Goto(k, "register") /\ on' = [on EXCEPT ![k] = conn]
     \/ ~isClosed /\ conn = None /\ Goto(k, "retry") /\ UNCHANGED on
  /\ UNCHANGED <<conVars, loopVars, attempt, maxAttempts, pendVars, netVars, panicked>>

\* The entry of c.pending exists before the request is on the wire.
Register(k) ==
  /\ pc[k] = "register"
  /\ pending' = pending \cup {<<k, attempt[k]>>}
  /\ chan' = [chan EXCEPT ![k] = "open"]
  /\ Goto(k, "write")
  /\ UNCHANGED <<conVars, loopVars, on, attempt, maxAttempts, netVars, panicked>>

\* writeLine: the connection is replaced, gone, or takes the frame.
WriteLine(k) ==
  /\ pc[k] = "write"
  /\ \/ conn # on[k] /\ Goto(k, "retry") /\ UNCHANGED wire
     \/ conn = on[k] /\ on[k] \notin up /\ Goto(k, "drop") /\ UNCHANGED wire
     \/ /\ conn = on[k] /\ on[k] \in up
        /\ wire' = wire \cup {[caller |-> k, attempt |-> attempt[k], conn |-> on[k]]}
        /\ Goto(k, "await")
  /\ UNCHANGED <<conVars, loopVars, on, attempt, maxAttempts, pendVars, dialed, up,
                 drops, answers, served, panicked>>

RemovePending(k) == pending' = pending \ {<<k, attempt[k]>>}

\* Mutants of the select: a closed channel is taken for an answer; no timer.
ClosedIsAnswer(k) ==
  /\ pc[k] = "await"
  /\ chan[k] # "open"
  /\ Goto(k, IF chan[k] = "refused" THEN "error" ELSE "ok")
  /\ UNCHANGED <<conVars, loopVars, on, attempt, maxAttempts, pendVars, netVars, panicked>>
NoTimer(k) == FALSE /\ UNCHANGED vars

\* The select on respCh, the 2 s timer and closedCh.
Receive(k) ==
  /\ pc[k] = "await"
  /\ chan[k] # "open"
  /\ Goto(k, CASE chan[k] = "answered" -> "ok"
               [] chan[k] = "refused"  -> "error"
               [] chan[k] = "closed"   -> "retry")
  /\ UNCHANGED <<conVars, loopVars, on, attempt, maxAttempts, pendVars, netVars, panicked>>

TimeOut(k) ==
  /\ pc[k] = "await"
  /\ RemovePending(k)
  /\ Goto(k, "drop")
  /\ UNCHANGED <<conVars, loopVars, on, attempt, maxAttempts, chan, netVars, panicked>>

SeeClosed(k) ==
  /\ pc[k] = "await"
  /\ isClosed
  /\ RemovePending(k)
  /\ Goto(k, "closed")
  /\ UNCHANGED <<conVars, loopVars, on, attempt, maxAttempts, chan, netVars, panicked>>

\* Mutant: one attempt too many.
RetryOnceMore(k) ==
  /\ pc[k] = "retry"
  /\ RemovePending(k)
  /\ IF attempt[k] <= maxAttempts[k] /\ ~isClosed
     THEN attempt' = [attempt EXCEPT ![k] = @ + 1] /\ Goto(k, "wait")
     ELSE Goto(k, "unavailable") /\ UNCHANGED attempt
  /\ on' = [on EXCEPT ![k] = None]
  /\ UNCHANGED <<conVars, loopVars, maxAttempts, chan, netVars, panicked>>

\* errIPCDisconnected: one more attempt, if there is one left.
Retry(k) ==
  /\ pc[k] = "retry"
  /\ RemovePending(k)
  /\ IF attempt[k] < maxAttempts[k] /\ ~isClosed
     THEN attempt' = [attempt EXCEPT ![k] = @ + 1] /\ Goto(k, "wait")
     ELSE Goto(k, "unavailable") /\ UNCHANGED attempt
  /\ on' = [on EXCEPT ![k] = None]
  /\ UNCHANGED <<conVars, loopVars, maxAttempts, chan, netVars, panicked>>

-----------------------------------------------------------------------------
(* Close: raise closedCh, detach, close the connection and fail the rest.    *)

CloseFlag ==
  /\ closing = "no"
  /\ closing' = "flagged"
  /\ UNCHANGED <<started, conn, ready, loopVars, callVars, pendVars, netVars, panicked>>

CloseDetach ==
  /\ closing = "flagged"
  /\ closing' = "detached"
  /\ conn' = None
  /\ ready' = FALSE
  /\ up' = up \ {conn}
  /\ UNCHANGED <<started, loopVars, callVars, pendVars, dialed, drops, wire, answers,
                 served, panicked>>

CloseFail ==
  /\ closing = "detached"
  /\ closing' = "done"
  /\ CloseAll
  /\ UNCHANGED <<started, conn, ready, loopVars, callVars, netVars>>

-----------------------------------------------------------------------------
(* cloud-comm, the other end: Server.handleConnection.  A request already    *)
(* written is handled even if the client has closed the connection since.    *)

ServerHandles(r, ok) ==
  /\ r \in wire
  /\ wire' = wire \ {r}
  /\ served' = [served EXCEPT ![r.caller] = IF ok THEN @ + 1 ELSE @]
  /\ answers' = IF r.conn \notin up THEN answers ELSE answers \cup
       {[caller |-> r.caller, attempt |-> r.attempt, conn |-> r.conn, ok |-> ok]}
  /\ UNCHANGED <<conVars, loopVars, callVars, pendVars, dialed, up, drops, panicked>>

\* The server dies or closes the connection; what it had not read is lost.
ServerDrops(c) ==
  /\ c \in up
  /\ drops < MaxDrops
  /\ drops' = drops + 1
  /\ up' = up \ {c}
  /\ wire' = {r \in wire : r.conn # c}
  /\ UNCHANGED <<conVars, loopVars, callVars, pendVars, dialed, answers, served, panicked>>

-----------------------------------------------------------------------------

LoopStep(l) ==
  LoopCheck(l) \/ LoopDial(l) \/ LoopRefused(l) \/ LoopActivate(l) \/ LoopExit(l)

DropStep(g) == Detach(g) \/ FailPending(g) \/ Ensure(g)

ReadStep(c) == (\E a \in answers : ReadAnswer(c, a)) \/ ReadEnds(c) \/ DropStep(c)

CallStep(k) ==
  \/ WaitForConnection(k) \/ Register(k) \/ WriteLine(k)
  \/ Receive(k) \/ TimeOut(k) \/ SeeClosed(k) \/ Retry(k)
  \/ DropStep(k)

Next ==
  \/ Start
  \/ \E l \in Loops : LoopStep(l)
  \/ \E c \in Conns : ReadStep(c) \/ ServerDrops(c)
  \/ \E k \in Callers : CallStep(k) \/ \E n \in Limits : Call(k, n)
  \/ CloseFlag \/ CloseDetach \/ CloseFail
  \/ \E r \in wire, ok \in BOOLEAN : ServerHandles(r, ok)

Spec == Init /\ [][Next]_vars

(***************************************************************************)
(* Every goroutine that can step does so; a timer fires at the latest when  *)
(* nothing else does.  The server accepts in the end a connection that is   *)
(* tried again and again.  Close, calls and drops are not fair.             *)
(***************************************************************************)
Fairness ==
  /\ WF_vars(Start)
  /\ \A l \in Loops : WF_vars(LoopStep(l)) /\ SF_vars(LoopDial(l))
  /\ \A c \in Conns : WF_vars(ReadStep(c))
  /\ \A k \in Callers : WF_vars(CallStep(k))
  /\ WF_vars(CloseDetach) /\ WF_vars(CloseFail)

FairSpec == Spec /\ Fairness

-----------------------------------------------------------------------------
(* Properties                                                               *)

Place == {"idle", "wait", "register", "write", "await", "retry", "off", "read",
          "drop", "fail", "ensure"} \cup Returned

\* The shape of the state.
TypeOK ==
  /\ started \in BOOLEAN /\ ready \in BOOLEAN /\ reconnecting \in BOOLEAN
  /\ panicked \in BOOLEAN
  /\ conn \in 0..MaxConns
  /\ closing \in {"no", "flagged", "detached", "done"}
  /\ loop \in [Loops -> {"off", "check", "dial", "activate", "exit"}]
  /\ pc \in [Callers \cup Conns -> Place]
  /\ on \in [Callers -> 0..MaxConns]
  /\ attempt \in [Callers -> 1..2] /\ maxAttempts \in [Callers -> 1..2]
  /\ chan \in [Callers -> {"open", "answered", "refused", "closed"}]
  /\ pending \subseteq Callers \X (1..2)
  /\ dialed \in 0..MaxConns /\ up \subseteq Conns /\ drops \in Nat
  /\ wire \subseteq [caller: Callers, attempt: 1..2, conn: Conns]
  /\ answers \subseteq [caller: Callers, attempt: 1..2, conn: Conns, ok: BOOLEAN]
  /\ served \in [Callers -> Nat]

\* The reconnecting flag admits one reconnectLoop at a time, and stands
\* exactly while that loop exists.
OneReconnectLoop ==
  /\ \A l, m \in Loops : loop[l] # "off" /\ loop[m] # "off" => l = m
  /\ reconnecting <=> \E l \in Loops : loop[l] # "off"

\* No goroutine closes a closed channel or writes to one: activateConnection
\* finds readyCh open, and only one of readLoop, failPending and removePending
\* gets hold of a respCh.
NoPanic == ~panicked

\* Unless Close is at work, failPending runs while there is no connection:
\* it fails the requests of the connection that was lost and of no later one.
FailsOwnConnection ==
  \A g \in Callers \cup Conns : pc[g] \in {"fail", "ensure"} => conn = None \/ isClosed

\* A caller that waits for an answer is registered, or its channel already
\* has the verdict: no answer and no failure can miss it.
WaiterIsReachable ==
  \A k \in Callers :
    pc[k] = "await" /\ chan[k] = "open" => <<k, attempt[k]>> \in pending

\* request() reports success only for a request that was carried out, and a
\* request is carried out at most once per attempt: a report at most once, a
\* publication at most twice.
ServedPerAttempt ==
  \A k \in Callers :
    /\ pc[k] = "ok" => served[k] > 0
    /\ served[k] <= attempt[k]
    /\ served[k] <= maxAttempts[k]

\* Every call returns, whatever happens to the connection.
CallsReturn == \A k \in Callers : pc[k] = "wait" ~> pc[k] \in Returned

\* A reconnectLoop ends with a connection, unless Close stops it.
LoopConnects == \A l \in Loops : loop[l] = "check" ~> (conn # None \/ isClosed)

\* The log line of markDisconnected, "IPC connection lost, reconnecting",
\* taken at its word: a client that is started and not closed does not stay
\* without a connection.
Reconnects == (started /\ conn = None) ~> (conn # None \/ isClosed)
=============================================================================
