------------------------- MODULE CloudTransferProofs -------------------------
(***************************************************************************)
(* Proofs about CloudTransfer, for every set of transfers and workers,      *)
(* every backoff and every resolution of the clock.                         *)
(***************************************************************************)
EXTENDS CloudTransfer, FiniteSetTheorems, TLAPS

-----------------------------------------------------------------------------
(* Instants                                                                 *)

\* An instant of the text order is at most a second above the instant itself.
LEMMA RankType ==
  ASSUME NEW t \in Time
  PROVE  TextRank(t) \in Int /\ t <= TextRank(t) /\ TextRank(t) <= t + TicksPerSecond
BY ClockAssumption DEF TextRank, Time

\* A shift by a whole second keeps the fraction of an instant.
LEMMA ShiftMod ==
  ASSUME NEW t \in Int
  PROVE  ((t + TicksPerSecond) % TicksPerSecond) = (t % TicksPerSecond)
<1> DEFINE K == TicksPerSecond
           q == t \div K
           r == t % K
           p == (t + K) \div K
           s == (t + K) % K
<1>1. K \in Nat /\ K > 0
  BY ClockAssumption
<1>2. q \in Int /\ r \in 0..(K-1) /\ t = (K * q) + r
  BY <1>1
<1>3. p \in Int /\ s \in 0..(K-1) /\ t + K = (K * p) + s
  BY <1>1
<1> HIDE DEF K, q, r, p, s
<1>4. K * (p - (q + 1)) = r - s
  BY <1>1, <1>2, <1>3
<1>5. CASE p = q + 1
  BY <1>1, <1>2, <1>3, <1>4, <1>5 DEF r, s, K
<1>6. CASE p > q + 1
  <2>1. K * (p - (q + 1)) >= K
    BY <1>1, <1>2, <1>3, <1>6
  <2> QED BY <2>1, <1>1, <1>2, <1>3, <1>4
<1>7. CASE p < q + 1
  <2>1. K * (p - (q + 1)) <= -K
    BY <1>1, <1>2, <1>3, <1>7
  <2> QED BY <2>1, <1>1, <1>2, <1>3, <1>4
<1> QED
  BY <1>2, <1>3, <1>5, <1>6, <1>7

\* The comparison of stored text errs by less than a second.
LEMMA TextLeqBound ==
  ASSUME NEW a \in Time, NEW b \in Time, TextLeq(a, b)
  PROVE  a < b + TicksPerSecond
<1>1. TextRank(a) <= TextRank(b)
  BY DEF TextLeq
<1>2. a <= b + TicksPerSecond
  BY <1>1, RankType, ClockAssumption DEF Time
<1>3. a # b + TicksPerSecond
  <2> SUFFICES ASSUME a = b + TicksPerSecond PROVE FALSE
    OBVIOUS
  <2>1. (a % TicksPerSecond) = (b % TicksPerSecond)
    BY ShiftMod DEF Time
  <2>2. CASE (a % TicksPerSecond) = 0
    BY <1>1, <2>1, <2>2, ClockAssumption DEF TextRank, Time
  <2>3. CASE (a % TicksPerSecond) # 0
    BY <1>1, <2>1, <2>3, ClockAssumption DEF TextRank, Time
  <2> QED BY <2>2, <2>3
<1> QED
  BY <1>2, <1>3, ClockAssumption DEF Time

\* nextAttemptTime returns an instant.
LEMMA NextAttemptType ==
  ASSUME NEW n \in Nat, NEW t \in Time
  PROVE  NextAttemptTime(n, t) \in Time
<1> DEFINE m == (IF n < 1 THEN 1 ELSE n) - 1
<1>1. m \in Nat
  OBVIOUS
<1>2. 2 ^ m \in Int
  BY <1>1, Z3
<1> HIDE DEF m
<1>3. InitialBackoffSec * (2 ^ m) \in Int
  BY <1>2, BackoffAssumption
<1> QED
  BY <1>3, BackoffAssumption, ClockAssumption DEF NextAttemptTime, Time, m

-----------------------------------------------------------------------------
(* The inductive invariant.                                                 *)

\* No worker goroutine exists before the start-up repairs are done.
DownIsIdle == proc # "up" => \A w \in Workers : worker[w] = Idle

\* Where a worker stands determines what it holds and what it will write;
\* a verdict "completed" is reached only through MoveSucceeds.
WorkerShape ==
  \A w \in Workers :
    /\ worker[w].id # NoTransfer <=> worker[w].pc \in {"check", "move", "mark"}
    /\ worker[w].at <= now
    /\ worker[w].pc = "mark" => worker[w].verdict # "none"
    /\ worker[w].verdict = "retry" => worker[w].retryAt # NoTime
    /\ worker[w].verdict = "completed" => worker[w].id \in delivered

\* Waiting rows have a time to wait for, and "expired" is the error of failed
\* rows only, whose deadline is less than a second away at most.
RowShape ==
  \A x \in Transfers :
    /\ rows[x].state \in {"queued", "retry_wait"} => rows[x].nextAttemptAt # NoTime
    /\ rows[x].lastError = "expired" =>
         /\ rows[x].state = "failed"
         /\ rows[x].deadlineAt # NoTime
         /\ rows[x].deadlineAt < now + TicksPerSecond

IInv ==
  /\ TypeOK
  /\ DownIsIdle
  /\ WorkerShape
  /\ RowShape
  /\ NoDoubleClaim
  /\ OnlyExpiryTakesBack
  /\ CompletedIsDelivered

-----------------------------------------------------------------------------
(* What the passes over the table do to one row.                            *)

\* ResetRunningTransfers leaves a typed table without a running row.
LEMMA ResetFacts ==
  ASSUME TypeOK, NEW t \in OptTime
  PROVE  /\ ResetRunning(rows, t) \in [Transfers -> Row]
         /\ \A x \in Transfers :
              LET r == ResetRunning(rows, t)[x] IN
              \/ r = rows[x] /\ r.state # "running"
              \/ /\ rows[x].state = "running"
                 /\ r.state = "retry_wait"
                 /\ r.nextAttemptAt = t
                 /\ r.deadlineAt = rows[x].deadlineAt
                 /\ r.lastError = KeepError(rows[x], "restarted")
<1> DEFINE s(x) == [rows[x] EXCEPT !.state = "retry_wait", !.nextAttemptAt = t,
                                   !.lastError = KeepError(rows[x], "restarted")]
<1>1. ASSUME NEW x \in Transfers
      PROVE  /\ rows[x] \in Row /\ s(x) \in Row
             /\ s(x).state = "retry_wait" /\ s(x).nextAttemptAt = t
             /\ s(x).deadlineAt = rows[x].deadlineAt
             /\ s(x).lastError = KeepError(rows[x], "restarted")
  BY <1>1 DEF TypeOK, Row, State, LastError, KeepError
<1> HIDE DEF s
<1>2. ResetRunning(rows, t) =
        [x \in Transfers |-> IF rows[x].state = "running" THEN s(x) ELSE rows[x]]
  BY DEF ResetRunning, s
<1> QED
  BY <1>1, <1>2

\* MarkExpired leaves a typed table; a row it changes was open, had a
\* deadline less than a second after t, and is failed.
LEMMA ExpireFacts ==
  ASSUME TypeOK, NEW t \in Time
  PROVE  /\ MarkExpired(rows, t) \in [Transfers -> Row]
         /\ \A x \in Transfers :
              LET r == MarkExpired(rows, t)[x] IN
              \/ r = rows[x]
              \/ /\ rows[x].state \in {"queued", "retry_wait", "running"}
                 /\ r.state = "failed"
                 /\ r.deadlineAt = rows[x].deadlineAt
                 /\ r.deadlineAt \in Time
                 /\ r.deadlineAt < t + TicksPerSecond
                 /\ r.lastError = KeepError(rows[x], "expired")
<1> DEFINE s(x) == [rows[x] EXCEPT !.state = "failed", !.nextAttemptAt = NoTime,
                                   !.lastError = KeepError(rows[x], "expired")]
<1>1. ASSUME NEW x \in Transfers
      PROVE  /\ rows[x] \in Row /\ s(x) \in Row
             /\ s(x).state = "failed"
             /\ s(x).deadlineAt = rows[x].deadlineAt
             /\ s(x).lastError = KeepError(rows[x], "expired")
  BY <1>1 DEF TypeOK, Row, State, LastError, OptTime, Time, KeepError
<1>2. ASSUME NEW x \in Transfers, IsExpired(rows[x], t)
      PROVE  /\ rows[x].state \in {"queued", "retry_wait", "running"}
             /\ rows[x].deadlineAt \in Time
             /\ rows[x].deadlineAt < t + TicksPerSecond
  <2>1. rows[x].deadlineAt \in Time /\ TextLeq(rows[x].deadlineAt, t)
    BY <1>1, <1>2 DEF IsExpired, Row, OptTime
  <2> QED
    BY <1>2, <2>1, TextLeqBound DEF IsExpired
<1> HIDE DEF s
<1>3. MarkExpired(rows, t) =
        [x \in Transfers |-> IF IsExpired(rows[x], t) THEN s(x) ELSE rows[x]]
  BY DEF MarkExpired, s
<1> QED
  BY <1>1, <1>2, <1>3

-----------------------------------------------------------------------------
(* What an action does to one worker or to one row.                         *)

\* Goto changes the state of one worker.
LEMMA GotoFacts ==
  ASSUME TypeOK, NEW w \in Workers, NEW s \in WorkerState, Goto(w, s)
  PROVE  /\ worker' \in [Workers -> WorkerState]
         /\ worker'[w] = s
         /\ \A v \in Workers : v # w => worker'[v] = worker[v]
BY DEF TypeOK, Goto

\* The idle state, and the state from which a verdict is written.
LEMMA IdleFacts ==
  /\ Idle \in WorkerState
  /\ Idle.pc = "idle" /\ Idle.at = 0 /\ Idle.id = NoTransfer
  /\ Idle.verdict = "none"
BY DEF Idle, WorkerState, Verdict, OptTime, Time

LEMMA ToMarkFacts ==
  ASSUME NEW x \in Transfers, NEW v \in Verdict, NEW at \in OptTime
  PROVE  /\ ToMark(x, v, at) \in WorkerState
         /\ ToMark(x, v, at).pc = "mark" /\ ToMark(x, v, at).at = 0
         /\ ToMark(x, v, at).id = x
         /\ ToMark(x, v, at).verdict = v /\ ToMark(x, v, at).retryAt = at
BY IdleFacts DEF ToMark, WorkerState

\* The initial state, before the first start of the service.
LEMMA InitInv == Init => IInv
<1> SUFFICES ASSUME Init PROVE IInv
  OBVIOUS
<1>1. TypeOK
  BY DEF Init, TypeOK, NoRow, Row, State, LastError, OptTime, Time, Idle, WorkerState, Verdict
<1>2. DownIsIdle /\ WorkerShape /\ NoDoubleClaim /\ OnlyExpiryTakesBack
  BY DEF Init, Idle, DownIsIdle, WorkerShape, NoDoubleClaim, OnlyExpiryTakesBack
<1>3. RowShape /\ CompletedIsDelivered
  BY DEF Init, NoRow, RowShape, CompletedIsDelivered
<1> QED
  BY <1>1, <1>2, <1>3 DEF IInv

\* A worker that is not idle belongs to a running service.
LEMMA BusyIsUp ==
  ASSUME IInv, NEW w \in Workers, worker[w].pc # "idle"
  PROVE  proc = "up"
BY IdleFacts DEF IInv, DownIsIdle

\* The shape WorkerShape asks of one worker.
GoodWorker(s) ==
  /\ s \in WorkerState
  /\ s.id # NoTransfer <=> s.pc \in {"check", "move", "mark"}
  /\ s.at <= now
  /\ s.pc = "mark" => s.verdict # "none"
  /\ s.verdict = "retry" => s.retryAt # NoTime

\* A step of one worker that leaves the table alone and takes no transfer.
LEMMA WorkerOnly ==
  ASSUME IInv,
         NEW w \in Workers, NEW s, GoodWorker(s), Goto(w, s),
         s.id \in {worker[w].id, NoTransfer},
         s.verdict = "completed" => s.id \in delivered',
         proc = "up", UNCHANGED <<now, proc, rows, crashes>>,
         delivered \subseteq delivered', delivered' \subseteq Transfers,
         faults' \in Nat
  PROVE  IInv'
<1> USE DEF IInv
<1>1. /\ worker' \in [Workers -> WorkerState]
      /\ worker'[w] = s
      /\ \A v \in Workers : v # w => worker'[v] = worker[v]
  BY GotoFacts DEF GoodWorker
<1>2. TypeOK'
  BY <1>1 DEF TypeOK
<1>3. DownIsIdle'
  BY DEF DownIsIdle
<1>4. WorkerShape'
  BY <1>1 DEF WorkerShape, GoodWorker
<1>5. RowShape' /\ CompletedIsDelivered'
  BY DEF RowShape, CompletedIsDelivered
<1>6. NoDoubleClaim'
  BY <1>1 DEF NoDoubleClaim
<1>7. OnlyExpiryTakesBack'
  BY <1>1 DEF OnlyExpiryTakesBack
<1> QED
  BY <1>2, <1>3, <1>4, <1>5, <1>6, <1>7

\* MarkExpired, at start-up or by a worker, whatever the workers hold.
LEMMA ExpireRows ==
  ASSUME IInv, NEW t \in Time, t <= now, rows' = MarkExpired(rows, t),
         UNCHANGED <<now, delivered>>,
         worker' \in [Workers -> WorkerState],
         \A w \in Workers : worker'[w].id = worker[w].id
  PROVE  /\ rows' \in [Transfers -> Row]
         /\ RowShape' /\ CompletedIsDelivered'
         /\ NoDoubleClaim' /\ OnlyExpiryTakesBack'
<1> USE DEF IInv
<1>1. rows' \in [Transfers -> Row]
  BY ExpireFacts
<1>2. ASSUME NEW x \in Transfers
      PROVE  \/ rows'[x] = rows[x]
             \/ /\ rows[x].state \in {"queued", "retry_wait", "running"}
                /\ rows'[x].state = "failed"
                /\ rows'[x].deadlineAt \in Time
                /\ rows'[x].deadlineAt < now + TicksPerSecond
  <2>1. rows'[x].deadlineAt \in Time /\ rows'[x].deadlineAt < t + TicksPerSecond
        => rows'[x].deadlineAt < now + TicksPerSecond
    BY ClockAssumption DEF TypeOK, Time
  <2> QED
    BY <2>1, ExpireFacts
<1>3. RowShape'
  BY <1>2, NoTimeAssumption DEF RowShape, Time
<1>4. CompletedIsDelivered'
  BY <1>2 DEF CompletedIsDelivered
<1>5. NoDoubleClaim'
  BY DEF NoDoubleClaim
<1>6. OnlyExpiryTakesBack'
  <2> SUFFICES ASSUME NEW w \in Workers, worker[w].id # NoTransfer
               PROVE  \/ rows'[worker[w].id].state = "running"
                      \/ /\ rows'[worker[w].id].state = "failed"
                         /\ rows'[worker[w].id].deadlineAt # NoTime
    BY DEF OnlyExpiryTakesBack
  <2>1. worker[w].id \in Transfers
    BY DEF TypeOK, WorkerState
  <2> QED
    BY <2>1, <1>2, NoTimeAssumption DEF OnlyExpiryTakesBack, Time
<1> QED
  BY <1>1, <1>3, <1>4, <1>5, <1>6

-----------------------------------------------------------------------------
(* Every step preserves the invariant.                                      *)

\* The clock, the steps of Service.Run and a crash.
LEMMA RunSteps ==
  ASSUME IInv, Tick \/ Start \/ RunReset \/ RunExpire \/ Crash
  PROVE  IInv'
<1> USE DEF IInv
<1>1. CASE Tick
  <2>1. TypeOK'
    BY <1>1 DEF Tick, TypeOK
  <2>2. now' = now + 1 /\ now \in Nat
    BY <1>1 DEF Tick, TypeOK
  <2>3. RowShape'
    <3> SUFFICES ASSUME NEW x \in Transfers, rows[x].lastError = "expired"
                 PROVE  rows[x].deadlineAt < now' + TicksPerSecond
      BY <1>1 DEF Tick, RowShape
    <3>1. rows[x].deadlineAt \in Int /\ rows[x].deadlineAt < now + TicksPerSecond
      BY DEF RowShape, TypeOK, Row, OptTime, Time
    <3> QED
      BY <3>1, <2>2, ClockAssumption
  <2>4. WorkerShape'
    <3>1. \A w \in Workers : worker[w].at \in Int
      BY DEF TypeOK, WorkerState, Time
    <3>2. \A w \in Workers : worker[w].at <= now'
      BY <3>1, <2>2 DEF WorkerShape
    <3> QED
      BY <1>1, <3>2 DEF Tick, WorkerShape
  <2> QED
    BY <1>1, <2>1, <2>3, <2>4
       DEF Tick, DownIsIdle, NoDoubleClaim, OnlyExpiryTakesBack, CompletedIsDelivered
<1>2. CASE Start
  BY <1>2 DEF Start, TypeOK, DownIsIdle, WorkerShape, RowShape, NoDoubleClaim,
              OnlyExpiryTakesBack, CompletedIsDelivered
<1>3. CASE RunReset
  <2>1. now \in OptTime /\ now # NoTime
    BY NoTimeAssumption DEF TypeOK, OptTime, Time
  <2>2. TypeOK'
    BY <1>3, <2>1, ResetFacts DEF RunReset, TypeOK
  <2>3. \A w \in Workers : worker'[w] = Idle
    BY <1>3 DEF RunReset, DownIsIdle
  <2>4. RowShape' /\ CompletedIsDelivered'
    BY <1>3, <2>1, ResetFacts DEF RunReset, RowShape, CompletedIsDelivered, KeepError
  <2>5. DownIsIdle' /\ NoDoubleClaim' /\ OnlyExpiryTakesBack'
    BY <2>3, IdleFacts DEF DownIsIdle, NoDoubleClaim, OnlyExpiryTakesBack
  <2>6. WorkerShape'
    BY <1>3 DEF RunReset, WorkerShape
  <2> QED
    BY <2>2, <2>4, <2>5, <2>6
<1>4. CASE RunExpire
  <2>1. now \in Time /\ now <= now
    BY DEF TypeOK, Time
  <2>2. /\ rows' \in [Transfers -> Row]
        /\ RowShape' /\ CompletedIsDelivered'
        /\ NoDoubleClaim' /\ OnlyExpiryTakesBack'
    BY <1>4, <2>1, ExpireRows DEF RunExpire, TypeOK
  <2>3. TypeOK' /\ DownIsIdle' /\ WorkerShape'
    BY <1>4, <2>2 DEF RunExpire, TypeOK, DownIsIdle, WorkerShape
  <2> QED
    BY <2>2, <2>3
<1>5. CASE Crash
  <2>1. \A w \in Workers : worker'[w] = Idle
    BY <1>5 DEF Crash
  <2>2. TypeOK'
    BY <1>5, IdleFacts DEF Crash, TypeOK
  <2>3. DownIsIdle' /\ NoDoubleClaim' /\ OnlyExpiryTakesBack'
    BY <2>1, IdleFacts DEF DownIsIdle, NoDoubleClaim, OnlyExpiryTakesBack
  <2>4. WorkerShape'
    BY <1>5, <2>1, IdleFacts DEF Crash, WorkerShape, TypeOK
  <2>5. RowShape' /\ CompletedIsDelivered'
    BY <1>5 DEF Crash, RowShape, CompletedIsDelivered
  <2> QED
    BY <2>2, <2>3, <2>4, <2>5
<1> QED
  BY <1>1, <1>2, <1>3, <1>4, <1>5

\* A new request.
LEMMA EnqueueStep ==
  ASSUME IInv, NEW x \in Transfers, NEW d \in Timeouts, Enqueue(x, d)
  PROVE  IInv'
<1> USE DEF IInv
<1> DEFINE r == NewRow(now, Deadline(d, now))
<1>1. Deadline(d, now) \in OptTime
  BY TimeoutsAssumption DEF TypeOK, Deadline, OptTime, Time
<1>2. now \in Time /\ now \in OptTime /\ now # NoTime
  BY NoTimeAssumption DEF TypeOK, OptTime, Time
<1>3. /\ r \in Row /\ r.state = "queued" /\ r.nextAttemptAt # NoTime
      /\ r.lastError = "none"
  BY <1>1, <1>2 DEF NewRow, Row, State, LastError
<1> HIDE DEF r
<1>4. rows' = [rows EXCEPT ![x] = r] /\ rows[x].state = "absent"
  BY DEF Enqueue, r
<1>5. TypeOK'
  BY <1>3, <1>4 DEF Enqueue, TypeOK
<1>6. RowShape' /\ CompletedIsDelivered'
  BY <1>3, <1>4 DEF Enqueue, TypeOK, RowShape, CompletedIsDelivered
<1>7. OnlyExpiryTakesBack'
  BY <1>4 DEF Enqueue, TypeOK, OnlyExpiryTakesBack
<1> QED
  BY <1>5, <1>6, <1>7 DEF Enqueue, DownIsIdle, WorkerShape, NoDoubleClaim

\* The claim of a due row: it was waiting, so no worker held it.
LEMMA AcquireStep ==
  ASSUME IInv, NEW w \in Workers, NEW x \in Transfers, AcquireDueTransfer(w, x)
  PROVE  IInv'
<1> USE DEF IInv
<1> DEFINE s == [Idle EXCEPT !.pc = "check", !.id = x,
                             !.attempts = rows[x].attempts + 1,
                             !.deadlineAt = rows[x].deadlineAt]
           r == Claimed(rows[x])
<1>1. /\ rows[x] \in Row /\ rows[x].attempts + 1 \in Nat
      /\ rows[x].deadlineAt \in OptTime /\ NoTime \in OptTime
  BY DEF TypeOK, Row, OptTime
<1>2. /\ s \in WorkerState /\ s.pc = "check" /\ s.at = 0 /\ s.id = x
      /\ s.verdict = "none"
  BY <1>1, IdleFacts DEF WorkerState
<1>3. /\ r \in Row /\ r.state = "running" /\ r.lastError = rows[x].lastError
  BY <1>1 DEF Claimed, Row, State
<1>4. /\ rows' = [rows EXCEPT ![x] = r] /\ Goto(w, s)
      /\ worker[w].pc = "acquire"
      /\ rows[x].state \in {"queued", "retry_wait"}
      /\ UNCHANGED <<now, proc, delivered, crashes, faults>>
  BY DEF AcquireDueTransfer, IsNext, IsDue
<1> HIDE DEF s, r
<1>5. /\ worker' \in [Workers -> WorkerState]
      /\ worker'[w] = s
      /\ \A v \in Workers : v # w => worker'[v] = worker[v]
  BY <1>2, <1>4, GotoFacts
<1>6. \A v \in Workers : worker[v].id # x
  BY <1>4, NoTransferAssumption DEF OnlyExpiryTakesBack
<1>7. TypeOK'
  BY <1>3, <1>4, <1>5 DEF TypeOK
<1>8. DownIsIdle'
  BY <1>4, BusyIsUp DEF DownIsIdle
<1>9. WorkerShape'
  BY <1>2, <1>4, <1>5, NoTransferAssumption DEF WorkerShape, TypeOK
<1>10. RowShape' /\ CompletedIsDelivered'
  BY <1>3, <1>4 DEF RowShape, CompletedIsDelivered, TypeOK
<1>11. NoDoubleClaim'
  BY <1>2, <1>5, <1>6 DEF NoDoubleClaim
<1>12. OnlyExpiryTakesBack'
  BY <1>2, <1>3, <1>4, <1>5, <1>6 DEF OnlyExpiryTakesBack, TypeOK, WorkerState
<1> QED
  BY <1>7, <1>8, <1>9, <1>10, <1>11, <1>12

\* The write of a verdict: the row is held by this worker alone.
LEMMA VerdictStep ==
  ASSUME IInv, NEW w \in Workers, WriteVerdict(w)
  PROVE  IInv'
<1> USE DEF IInv
<1> DEFINE x == worker[w].id
<1>1. /\ worker[w] \in WorkerState /\ worker[w].pc = "mark" /\ Goto(w, Idle)
      /\ UNCHANGED <<now, proc, delivered, crashes, faults>>
  BY DEF WriteVerdict, TypeOK
<1>2. /\ x \in Transfers /\ rows[x] \in Row
      /\ worker[w].verdict \in {"completed", "failed", "retry"}
  BY <1>1 DEF WorkerShape, TypeOK, WorkerState, Verdict
<1>3. PICK r : /\ rows' = [rows EXCEPT ![x] = r]
               /\ r = CASE worker[w].verdict = "completed" -> MarkCompleted(rows[x])
                        [] worker[w].verdict = "failed" -> MarkFailed(rows[x])
                        [] worker[w].verdict = "retry" -> MarkRetry(rows[x], worker[w].retryAt)
  BY DEF WriteVerdict
<1>4. /\ r \in Row /\ r.lastError # "expired"
      /\ r.state \in {"queued", "retry_wait"} => r.nextAttemptAt # NoTime
      /\ r.state = "completed" => x \in delivered
  <2>1. NoTime \in OptTime /\ worker[w].retryAt \in OptTime
    BY <1>1 DEF OptTime, WorkerState
  <2>2. CASE worker[w].verdict = "completed"
    <3>1. r = MarkCompleted(rows[x]) /\ x \in delivered
      BY <1>3, <2>2 DEF WorkerShape
    <3> QED BY <1>2, <2>1, <3>1 DEF MarkCompleted, Row, State, LastError
  <2>3. CASE worker[w].verdict = "failed"
    <3>1. r = MarkFailed(rows[x])
      BY <1>3, <2>3
    <3> QED BY <1>2, <2>1, <3>1 DEF MarkFailed, Row, State, LastError
  <2>4. CASE worker[w].verdict = "retry"
    <3>1. r = MarkRetry(rows[x], worker[w].retryAt) /\ worker[w].retryAt # NoTime
      BY <1>3, <2>4 DEF WorkerShape
    <3> QED BY <1>2, <2>1, <3>1 DEF MarkRetry, Row, State, LastError
  <2> QED BY <1>2, <2>2, <2>3, <2>4
<1>5. /\ worker' \in [Workers -> WorkerState]
      /\ worker'[w] = Idle
      /\ \A v \in Workers : v # w => worker'[v] = worker[v] /\ worker[v].id # x
  BY <1>1, <1>2, GotoFacts, IdleFacts, NoTransferAssumption DEF NoDoubleClaim
<1>6. TypeOK'
  BY <1>1, <1>2, <1>3, <1>4, <1>5 DEF TypeOK
<1>7. DownIsIdle'
  BY <1>1, BusyIsUp DEF DownIsIdle
<1>8. WorkerShape'
  BY <1>1, <1>5, IdleFacts DEF WorkerShape, TypeOK
<1>9. RowShape' /\ CompletedIsDelivered'
  BY <1>1, <1>2, <1>3, <1>4 DEF RowShape, CompletedIsDelivered, TypeOK
<1>10. NoDoubleClaim'
  BY <1>5, IdleFacts DEF NoDoubleClaim
<1>11. OnlyExpiryTakesBack'
  BY <1>2, <1>3, <1>5, IdleFacts DEF OnlyExpiryTakesBack, TypeOK, WorkerState
<1> QED
  BY <1>6, <1>7, <1>8, <1>9, <1>10, <1>11

\* The expiry pass of a worker.
LEMMA ExpirePassStep ==
  ASSUME IInv, NEW w \in Workers, ExpirePass(w)
  PROVE  IInv'
<1> USE DEF IInv
<1> DEFINE s == [worker[w] EXCEPT !.pc = "acquire"]
<1>1. /\ worker[w] \in WorkerState /\ worker[w].pc = "expire"
      /\ worker[w].id = NoTransfer
      /\ worker[w].at \in Time /\ worker[w].at <= now
  BY DEF ExpirePass, TypeOK, WorkerShape, WorkerState
<1>2. /\ s \in WorkerState /\ s.pc = "acquire" /\ s.at = worker[w].at
      /\ s.id = worker[w].id /\ s.verdict = worker[w].verdict
      /\ s.retryAt = worker[w].retryAt
  BY <1>1 DEF WorkerState
<1>3. /\ Goto(w, s) /\ rows' = MarkExpired(rows, worker[w].at)
      /\ UNCHANGED <<now, proc, delivered, crashes, faults>>
  BY DEF ExpirePass
<1> HIDE DEF s
<1>4. /\ worker' \in [Workers -> WorkerState]
      /\ worker'[w] = s
      /\ \A v \in Workers : v # w => worker'[v] = worker[v]
  BY <1>2, <1>3, GotoFacts
<1>5. \A v \in Workers : worker'[v].id = worker[v].id
  BY <1>2, <1>4
<1>6. /\ rows' \in [Transfers -> Row]
      /\ RowShape' /\ CompletedIsDelivered'
      /\ NoDoubleClaim' /\ OnlyExpiryTakesBack'
  BY <1>1, <1>3, <1>4, <1>5, ExpireRows
<1>7. TypeOK'
  BY <1>3, <1>4, <1>6 DEF TypeOK
<1>8. DownIsIdle'
  BY <1>1, <1>3, BusyIsUp DEF DownIsIdle
<1>9. WorkerShape'
  BY <1>1, <1>2, <1>3, <1>4 DEF WorkerShape
<1> QED
  BY <1>6, <1>7, <1>8, <1>9

\* The steps of a worker that leave the table alone.
LEMMA LocalSteps ==
  ASSUME IInv, NEW w \in Workers,
         \/ Wake(w) \/ NothingDue(w) \/ CheckDeadline(w) \/ MoveSucceeds(w)
         \/ \E temporary, arrived \in BOOLEAN : MoveFails(w, temporary, arrived)
         \/ StatementFails(w)
  PROVE  IInv'
<1>1. /\ TypeOK /\ WorkerShape
      /\ worker[w] \in WorkerState /\ now \in Nat /\ now \in Time
      /\ worker[w].at \in Time
  BY DEF IInv, TypeOK, WorkerState, Time
<1>2. GoodWorker(Idle)
  BY <1>1, IdleFacts DEF GoodWorker
<1>3. ASSUME NEW v \in Verdict, NEW at \in OptTime, v # "none",
             v = "retry" => at # NoTime, worker[w].pc \in {"check", "move"}
      PROVE  /\ GoodWorker(ToMark(worker[w].id, v, at))
             /\ ToMark(worker[w].id, v, at).id = worker[w].id
             /\ ToMark(worker[w].id, v, at).verdict = v
             /\ worker[w].id \in Transfers
  <2>1. worker[w].id \in Transfers
    BY <1>1, <1>3 DEF WorkerShape, WorkerState
  <2> QED
    BY <1>1, <1>3, <2>1, ToMarkFacts, NoTransferAssumption DEF GoodWorker
<1>4. CASE Wake(w)
  <2> DEFINE s == [Idle EXCEPT !.pc = "expire", !.at = now]
  <2>1. s \in WorkerState /\ s.pc = "expire" /\ s.at = now /\ s.id = NoTransfer
        /\ s.verdict = "none"
    BY <1>1, IdleFacts DEF WorkerState
  <2>2. Goto(w, s) /\ proc = "up" /\ UNCHANGED <<now, proc, rows, delivered, crashes, faults>>
    BY <1>4 DEF Wake
  <2> HIDE DEF s
  <2>3. GoodWorker(s)
    BY <1>1, <2>1 DEF GoodWorker
  <2> QED
    BY <1>1, <2>1, <2>2, <2>3, WorkerOnly DEF TypeOK
<1>5. CASE NothingDue(w)
  BY <1>1, <1>2, <1>5, IdleFacts, BusyIsUp, WorkerOnly DEF NothingDue, TypeOK
<1>6. CASE CheckDeadline(w)
  <2>1. proc = "up" /\ worker[w].pc = "check"
    BY <1>6, BusyIsUp DEF CheckDeadline
  <2>2. CASE Goto(w, ToMark(worker[w].id, "failed", NoTime))
    <3>1. "failed" \in Verdict /\ NoTime \in OptTime
      BY DEF Verdict, OptTime
    <3> QED
      BY <1>1, <1>3, <1>6, <2>1, <2>2, <3>1, WorkerOnly DEF CheckDeadline, TypeOK
  <2>3. CASE Goto(w, [worker[w] EXCEPT !.pc = "move"])
    <3> DEFINE s == [worker[w] EXCEPT !.pc = "move"]
    <3>1. /\ s \in WorkerState /\ s.pc = "move" /\ s.at = worker[w].at
          /\ s.id = worker[w].id /\ s.verdict = worker[w].verdict
          /\ s.retryAt = worker[w].retryAt
      BY <1>1 DEF WorkerState
    <3>2. Goto(w, s)
      BY <2>3
    <3> HIDE DEF s
    <3>3. GoodWorker(s)
      BY <1>1, <2>1, <3>1 DEF GoodWorker, WorkerShape
    <3> QED
      BY <1>1, <1>6, <2>1, <3>1, <3>2, <3>3, WorkerOnly
         DEF CheckDeadline, TypeOK, WorkerShape
  <2> QED
    BY <1>6, <2>2, <2>3 DEF CheckDeadline
<1>7. CASE MoveSucceeds(w)
  <2>1. proc = "up" /\ worker[w].pc = "move"
    BY <1>7, BusyIsUp DEF MoveSucceeds
  <2>2. "completed" \in Verdict /\ NoTime \in OptTime
    BY DEF Verdict, OptTime
  <2> QED
    BY <1>1, <1>3, <1>7, <2>1, <2>2, WorkerOnly DEF MoveSucceeds, TypeOK
<1>8. CASE \E temporary, arrived \in BOOLEAN : MoveFails(w, temporary, arrived)
  <2>1. PICK temporary \in BOOLEAN, arrived \in BOOLEAN : MoveFails(w, temporary, arrived)
    BY <1>8
  <2>2. proc = "up" /\ worker[w].pc = "move"
    BY <2>1, BusyIsUp DEF MoveFails
  <2>3. PICK v \in {"failed", "retry"}, at \in OptTime :
          /\ AfterError(worker[w], temporary, now) = ToMark(worker[w].id, v, at)
          /\ v = "retry" => at # NoTime
    <3>1. NextAttemptTime(worker[w].attempts, now) \in Time
      BY <1>1, NextAttemptType DEF WorkerState
    <3>2. NoTime \in OptTime /\ NextAttemptTime(worker[w].attempts, now) \in OptTime
          /\ NextAttemptTime(worker[w].attempts, now) # NoTime
      BY <3>1, NoTimeAssumption DEF OptTime, Time
    <3> QED
      BY <3>2, Zenon DEF AfterError
  <2>4. v \in Verdict /\ v # "none" /\ v # "completed"
    BY DEF Verdict
  <2>5. delivered \subseteq delivered' /\ delivered' \subseteq Transfers
    BY <1>1, <1>3, <2>1, <2>2, <2>3, <2>4 DEF MoveFails, TypeOK
  <2> QED
    BY <1>1, <1>3, <2>1, <2>2, <2>3, <2>4, <2>5, WorkerOnly DEF MoveFails, TypeOK
<1>9. CASE StatementFails(w)
  <2>1. CASE ExpireFails(w)
    <3> DEFINE s == [worker[w] EXCEPT !.pc = "acquire"]
    <3>1. /\ s \in WorkerState /\ s.pc = "acquire" /\ s.at = worker[w].at
          /\ s.id = worker[w].id /\ s.verdict = worker[w].verdict
          /\ s.retryAt = worker[w].retryAt
      BY <1>1 DEF WorkerState
    <3>2. Goto(w, s) /\ worker[w].pc = "expire"
          /\ UNCHANGED <<now, proc, rows, delivered, crashes>> /\ faults' = faults + 1
      BY <2>1 DEF ExpireFails
    <3> HIDE DEF s
    <3>3. GoodWorker(s)
      BY <1>1, <3>1, <3>2 DEF GoodWorker, WorkerShape
    <3> QED
      BY <1>1, <3>1, <3>2, <3>3, BusyIsUp, WorkerOnly DEF TypeOK, WorkerShape
  <2>2. CASE AcquireFails(w)
    BY <1>1, <1>2, <2>2, IdleFacts, BusyIsUp, WorkerOnly DEF AcquireFails, TypeOK
  <2>3. CASE WriteFails(w)
    BY <1>1, <1>2, <2>3, IdleFacts, BusyIsUp, WorkerOnly DEF WriteFails, TypeOK
  <2> QED
    BY <1>9, <2>1, <2>2, <2>3 DEF StatementFails
<1> QED
  BY <1>4, <1>5, <1>6, <1>7, <1>8, <1>9

\* Every step preserves the inductive invariant.
LEMMA StepInv == IInv /\ [Next]_vars => IInv'
<1> SUFFICES ASSUME IInv, [Next]_vars PROVE IInv'
  OBVIOUS
<1>1. CASE Tick \/ Start \/ RunReset \/ RunExpire \/ Crash
  BY <1>1, RunSteps
<1>2. ASSUME NEW x \in Transfers, NEW d \in Timeouts, Enqueue(x, d) PROVE IInv'
  BY <1>2, EnqueueStep
<1>3. ASSUME NEW w \in Workers, WorkerStep(w) \/ StatementFails(w) PROVE IInv'
  <2>1. CASE ExpirePass(w)
    BY <2>1, ExpirePassStep
  <2>2. ASSUME NEW x \in Transfers, AcquireDueTransfer(w, x) PROVE IInv'
    BY <2>2, AcquireStep
  <2>3. CASE WriteVerdict(w)
    BY <2>3, VerdictStep
  <2> QED
    BY <1>3, <2>1, <2>2, <2>3, LocalSteps DEF WorkerStep
<1>4. CASE UNCHANGED vars
  BY <1>4 DEF vars, IInv, TypeOK, DownIsIdle, WorkerShape, RowShape, NoDoubleClaim,
              OnlyExpiryTakesBack, CompletedIsDelivered
<1> QED
  BY <1>1, <1>2, <1>3, <1>4 DEF Next

\* The inductive invariant holds in every reachable state.
THEOREM Invariance == Spec => []IInv
BY InitInv, StepInv, PTL DEF Spec

\* The table, the workers' locals and the counters keep their types; in
\* particular every verdict written is one of the three the code knows.
THEOREM TypeCorrect == Spec => []TypeOK
<1>1. IInv => TypeOK
  BY DEF IInv
<1> QED
  BY <1>1, Invariance, PTL

\* AcquireDueTransfer never hands one transfer to two workers, for any number
\* of workers and transfers, through expiry, retries and restarts.
THEOREM MutualExclusion == Spec => [](NoDoubleClaim /\ OnlyExpiryTakesBack)
<1>1. IInv => NoDoubleClaim /\ OnlyExpiryTakesBack
  BY DEF IInv
<1> QED
  BY <1>1, Invariance, PTL

\* MarkCompleted is written only for data that has reached its destination.
THEOREM Delivery == Spec => []CompletedIsDelivered
<1>1. IInv => CompletedIsDelivered
  BY DEF IInv
<1> QED
  BY <1>1, Invariance, PTL

\* MarkExpired fails no transfer a second or more before its deadline, for
\* every resolution of the clock.
THEOREM ExpiryBound == Spec => []ExpiryNotEarly
<1>1. IInv => ExpiryNotEarly
  BY DEF IInv, RowShape, ExpiryNotEarly
<1> QED
  BY <1>1, Invariance, PTL

-----------------------------------------------------------------------------
(* What a step may never do.                                                *)

\* Only the start-up passes, a request and three steps of a worker write to
\* the table.
LEMMA WhoWrites ==
  ASSUME [Next]_vars, rows' # rows
  PROVE  \/ RunReset \/ RunExpire
         \/ \E x \in Transfers, d \in Timeouts : Enqueue(x, d)
         \/ \E w \in Workers :
              \/ ExpirePass(w) \/ WriteVerdict(w)
              \/ \E x \in Transfers : AcquireDueTransfer(w, x)
BY DEF Next, vars, Tick, Start, Crash, WorkerStep, StatementFails, Wake, NothingDue,
       CheckDeadline, MoveSucceeds, MoveFails, ExpireFails, AcquireFails, WriteFails

\* A row that is completed, or failed and in no worker's hands, is never
\* written again.
THEOREM Settled == Spec => SettledIsFinal
<1> DEFINE Done(x) == \/ rows[x].state = "completed"
                      \/ rows[x].state = "failed" /\ \A w \in Workers : worker[w].id # x
<1>1. ASSUME IInv, [Next]_vars, NEW x \in Transfers, Done(x)
      PROVE  rows'[x] = rows[x]
  <2>1. CASE rows' = rows
    BY <2>1
  <2>2. CASE RunReset
    <3>1. now \in OptTime
      BY <1>1 DEF IInv, TypeOK, OptTime, Time
    <3> QED
      BY <1>1, <2>2, <3>1, ResetFacts DEF RunReset, IInv
  <2>3. CASE RunExpire
    <3>1. now \in Time
      BY <1>1 DEF IInv, TypeOK, Time
    <3> QED
      BY <1>1, <2>3, <3>1, ExpireFacts DEF RunExpire, IInv
  <2>4. ASSUME NEW y \in Transfers, NEW d \in Timeouts, Enqueue(y, d)
        PROVE  rows'[x] = rows[x]
    BY <1>1, <2>4 DEF Enqueue, IInv, TypeOK
  <2>5. ASSUME NEW w \in Workers, ExpirePass(w) PROVE rows'[x] = rows[x]
    <3>1. worker[w].at \in Time
      BY <1>1 DEF IInv, TypeOK, WorkerState
    <3> QED
      BY <1>1, <2>5, <3>1, ExpireFacts DEF ExpirePass, IInv
  <2>6. ASSUME NEW w \in Workers, WriteVerdict(w) PROVE rows'[x] = rows[x]
    <3>1. worker[w].id # NoTransfer
      BY <1>1, <2>6 DEF IInv, WorkerShape, WriteVerdict
    <3>2. worker[w].id # x
      BY <1>1, <3>1 DEF IInv, OnlyExpiryTakesBack
    <3> QED
      BY <1>1, <2>6, <3>2 DEF WriteVerdict, IInv, TypeOK
  <2>7. ASSUME NEW w \in Workers, NEW y \in Transfers, AcquireDueTransfer(w, y)
        PROVE  rows'[x] = rows[x]
    BY <1>1, <2>7 DEF AcquireDueTransfer, IsNext, IsDue, IInv, TypeOK
  <2> QED
    BY <1>1, <2>1, <2>2, <2>3, <2>4, <2>5, <2>6, <2>7, WhoWrites
<1>2. IInv /\ [Next]_vars => [\A x \in Transfers : Done(x) => rows'[x] = rows[x]]_vars
  BY <1>1
<1> QED
  BY <1>2, Invariance, PTL DEF Spec, SettledIsFinal

\* Comparing text lets neither MarkExpired nor AcquireDueTransfer act a second
\* or more before its time, for every resolution of the clock.
THEOREM TextOrderBound == Spec => NotEarly
<1> DEFINE Taken(x) == rows[x].state # "running" /\ rows'[x].state = "running"
<1>1. ASSUME IInv, [Next]_vars, NEW x \in Transfers, Taken(x)
      PROVE  rows[x].nextAttemptAt < now + TicksPerSecond
  <2>1. CASE RunReset
    <3>1. now \in OptTime
      BY <1>1 DEF IInv, TypeOK, OptTime, Time
    <3> QED
      BY <1>1, <2>1, <3>1, ResetFacts DEF RunReset, IInv
  <2>2. CASE RunExpire
    <3>1. now \in Time
      BY <1>1 DEF IInv, TypeOK, Time
    <3> QED
      BY <1>1, <2>2, <3>1, ExpireFacts DEF RunExpire, IInv
  <2>3. ASSUME NEW y \in Transfers, NEW d \in Timeouts, Enqueue(y, d) PROVE FALSE
    BY <1>1, <2>3 DEF Enqueue, NewRow, IInv, TypeOK
  <2>4. ASSUME NEW w \in Workers, ExpirePass(w) PROVE FALSE
    <3>1. worker[w].at \in Time
      BY <1>1 DEF IInv, TypeOK, WorkerState
    <3> QED
      BY <1>1, <2>4, <3>1, ExpireFacts DEF ExpirePass, IInv
  <2>5. ASSUME NEW w \in Workers, WriteVerdict(w) PROVE FALSE
    <3>1. worker[w].verdict \in {"completed", "failed", "retry"} /\ rows[x] \in Row
      BY <1>1, <2>5 DEF IInv, WorkerShape, WriteVerdict, TypeOK, WorkerState, Verdict
    <3> QED
      BY <1>1, <2>5, <3>1
         DEF WriteVerdict, MarkCompleted, MarkFailed, MarkRetry, IInv, TypeOK, Row
  <2>6. ASSUME NEW w \in Workers, NEW y \in Transfers, AcquireDueTransfer(w, y)
        PROVE  rows[x].nextAttemptAt < now + TicksPerSecond
    <3>1. y = x
      BY <1>1, <2>6 DEF AcquireDueTransfer, IInv, TypeOK
    <3>2. /\ rows[x].nextAttemptAt \in Time
          /\ TextLeq(rows[x].nextAttemptAt, worker[w].at)
      BY <1>1, <2>6, <3>1
         DEF AcquireDueTransfer, IsNext, IsDue, IInv, RowShape, TypeOK, Row, OptTime
    <3>3. worker[w].at \in Time /\ worker[w].at <= now /\ now \in Nat
      BY <1>1 DEF IInv, TypeOK, WorkerShape, WorkerState
    <3>4. rows[x].nextAttemptAt < worker[w].at + TicksPerSecond
      BY <3>2, <3>3, TextLeqBound
    <3> QED
      BY <3>2, <3>3, <3>4, ClockAssumption DEF Time
  <2> QED
    BY <1>1, <2>1, <2>2, <2>3, <2>4, <2>5, <2>6, WhoWrites
<1>2. IInv /\ [Next]_vars =>
        [\A x \in Transfers :
           Taken(x) => rows[x].nextAttemptAt < now + TicksPerSecond]_vars
  BY <1>1
<1> QED
  BY <1>2, Invariance, ExpiryBound, PTL DEF Spec, NotEarly

-----------------------------------------------------------------------------
(* Rows that are running with no worker behind them.                        *)

\* No step but the loss of a verdict strands a row.
LEMMA StrandedShrinks ==
  ASSUME IInv, [Next]_vars, proc' \in {"expire", "up"}, ~RunReset,
         \A w \in Workers : ~WriteFails(w)
  PROVE  Stranded' \subseteq Stranded /\ proc \in {"expire", "up"} /\ faults' >= faults
<1> DEFINE Goal == /\ Stranded' \subseteq Stranded
                   /\ proc \in {"expire", "up"}
                   /\ faults' >= faults
<1>1. TypeOK /\ WorkerShape /\ faults \in Nat /\ faults + 1 >= faults
  BY DEF IInv, TypeOK
<1>2. CASE Tick \/ UNCHANGED vars
  BY <1>1, <1>2 DEF Tick, vars, Stranded
<1>3. CASE Start \/ Crash
  BY <1>3 DEF Start, Crash
<1>4. CASE RunExpire
  <2>1. now \in Time
    BY <1>1 DEF TypeOK, Time
  <2> QED
    BY <1>1, <1>4, <2>1, ExpireFacts DEF RunExpire, Stranded
<1>5. ASSUME NEW y \in Transfers, NEW d \in Timeouts, Enqueue(y, d) PROVE Goal
  BY <1>1, <1>5 DEF Enqueue, NewRow, Stranded, TypeOK
<1>6. ASSUME NEW w \in Workers, NEW s, Goto(w, s), s.id = worker[w].id,
             UNCHANGED <<proc, rows>>, faults' \in {faults, faults + 1}
      PROVE  Goal
  BY <1>1, <1>6 DEF Goto, Stranded, TypeOK
<1>7. ASSUME NEW w \in Workers, Wake(w) PROVE Goal
  <2> DEFINE s == [Idle EXCEPT !.pc = "expire", !.at = now]
  <2>1. s.id = NoTransfer /\ worker[w].id = NoTransfer
    BY <1>1, <1>7, IdleFacts DEF Wake, WorkerShape, WorkerState
  <2> QED
    BY <1>6, <1>7, <2>1 DEF Wake
<1>8. ASSUME NEW w \in Workers, NothingDue(w) \/ AcquireFails(w) PROVE Goal
  <2>1. worker[w].id = NoTransfer
    BY <1>1, <1>8 DEF NothingDue, AcquireFails, WorkerShape
  <2> QED
    BY <1>6, <1>8, <2>1, IdleFacts DEF NothingDue, AcquireFails
<1>9. ASSUME NEW w \in Workers, ExpireFails(w) PROVE Goal
  <2>1. [worker[w] EXCEPT !.pc = "acquire"].id = worker[w].id
    BY <1>1 DEF TypeOK, WorkerState
  <2> QED
    BY <1>6, <1>9, <2>1 DEF ExpireFails
<1>10. ASSUME NEW w \in Workers, CheckDeadline(w) PROVE Goal
  <2>1. /\ [worker[w] EXCEPT !.pc = "move"].id = worker[w].id
        /\ worker[w].id \in Transfers
    BY <1>1, <1>10 DEF TypeOK, WorkerState, WorkerShape, CheckDeadline
  <2>2. ToMark(worker[w].id, "failed", NoTime).id = worker[w].id
    BY <2>1, ToMarkFacts DEF Verdict, OptTime
  <2> QED
    BY <1>6, <1>10, <2>1, <2>2 DEF CheckDeadline
<1>11. ASSUME NEW w \in Workers,
              \/ MoveSucceeds(w)
              \/ \E temporary, arrived \in BOOLEAN : MoveFails(w, temporary, arrived)
       PROVE  Goal
  <2>1. PICK v, at : Goto(w, ToMark(worker[w].id, v, at))
    BY <1>11 DEF MoveSucceeds, MoveFails, AfterError
  <2>2. ToMark(worker[w].id, v, at).id = worker[w].id
    BY IdleFacts DEF ToMark, WorkerState
  <2> QED
    BY <1>6, <1>11, <2>1, <2>2 DEF MoveSucceeds, MoveFails
<1>12. ASSUME NEW w \in Workers, ExpirePass(w) PROVE Goal
  <2>1. worker[w].at \in Time /\ [worker[w] EXCEPT !.pc = "acquire"].id = worker[w].id
    BY <1>1 DEF TypeOK, WorkerState
  <2>2. \A v \in Workers : worker'[v].id = worker[v].id
    BY <1>1, <1>12, <2>1 DEF ExpirePass, Goto, TypeOK
  <2>3. \A x \in Transfers : rows'[x].state = "running" => rows[x].state = "running"
    BY <1>1, <1>12, <2>1, ExpireFacts DEF ExpirePass
  <2> QED
    BY <1>1, <1>12, <2>2, <2>3 DEF ExpirePass, Stranded
<1>13. ASSUME NEW w \in Workers, NEW y \in Transfers, AcquireDueTransfer(w, y) PROVE Goal
  <2> DEFINE s == [Idle EXCEPT !.pc = "check", !.id = y,
                               !.attempts = rows[y].attempts + 1,
                               !.deadlineAt = rows[y].deadlineAt]
  <2>1. s.id = y /\ worker[w].id = NoTransfer
    BY <1>1, <1>13, IdleFacts DEF AcquireDueTransfer, WorkerShape, WorkerState
  <2>2. Goto(w, s) /\ rows' = [rows EXCEPT ![y] = Claimed(rows[y])]
        /\ UNCHANGED <<proc, faults>>
    BY <1>13 DEF AcquireDueTransfer
  <2> HIDE DEF s
  <2>3. \A v \in Workers : worker[v].id = worker'[v].id \/ worker[v].id = NoTransfer
    BY <1>1, <2>1, <2>2 DEF Goto, TypeOK
  <2>4. worker'[w].id = y
    BY <1>1, <2>1, <2>2 DEF Goto, TypeOK
  <2>5. \A x \in Transfers : x # y => rows'[x] = rows[x]
    BY <1>1, <2>2 DEF TypeOK
  <2> QED
    BY <1>1, <2>2, <2>3, <2>4, <2>5, NoTransferAssumption DEF Stranded
<1>14. ASSUME NEW w \in Workers, WriteVerdict(w) PROVE Goal
  <2> DEFINE y == worker[w].id
  <2>1. /\ y \in Transfers /\ rows[y] \in Row
        /\ worker[w].verdict \in {"completed", "failed", "retry"}
    BY <1>1, <1>14 DEF WriteVerdict, WorkerShape, TypeOK, WorkerState, Verdict
  <2>2. rows'[y].state # "running"
    BY <1>1, <1>14, <2>1
       DEF WriteVerdict, MarkCompleted, MarkFailed, MarkRetry, TypeOK, Row
  <2>3. \A x \in Transfers : x # y => rows'[x] = rows[x]
    BY <1>1, <1>14, <2>1 DEF WriteVerdict, TypeOK
  <2>4. \A v \in Workers : v # w => worker'[v] = worker[v]
    BY <1>1, <1>14 DEF WriteVerdict, Goto, TypeOK
  <2>5. ASSUME NEW x \in Stranded' PROVE x \in Stranded
    <3>1. x \in Transfers /\ rows'[x].state = "running" /\ x # y
      BY <2>2, <2>5 DEF Stranded
    <3>2. \A v \in Workers : worker[v].id # x
      BY <2>4, <2>5, <3>1 DEF Stranded
    <3> QED
      BY <2>3, <3>1, <3>2 DEF Stranded
  <2>6. UNCHANGED <<proc, faults>>
    BY <1>14 DEF WriteVerdict
  <2> QED
    BY <1>1, <2>5, <2>6
<1>15. ASSUME NEW w \in Workers, WorkerStep(w) \/ StatementFails(w) PROVE Goal
  BY <1>7, <1>8, <1>9, <1>10, <1>11, <1>12, <1>13, <1>14, <1>15
     DEF WorkerStep, StatementFails
<1> QED
  BY <1>2, <1>3, <1>4, <1>5, <1>15 DEF Next

\* After the start-up repairs, the rows that are running with no worker
\* behind them are at most as many as the statements that have failed.
THEOREM StrandedBound ==
  ASSUME IsFiniteSet(Transfers)
  PROVE  Spec => []StrandedOnlyByFaults
<1>1. IsFiniteSet(Stranded) /\ Cardinality(Stranded) \in Nat
  BY FS_Subset, FS_CardinalityType DEF Stranded
<1>2. IsFiniteSet(Stranded') /\ Cardinality(Stranded') \in Nat
  BY FS_Subset, FS_CardinalityType DEF Stranded
<1>3. Init => StrandedOnlyByFaults
  BY DEF Init, StrandedOnlyByFaults
<1>4. ASSUME IInv, StrandedOnlyByFaults, [Next]_vars
      PROVE  StrandedOnlyByFaults'
  <2> SUFFICES ASSUME proc' \in {"expire", "up"}
               PROVE  Cardinality(Stranded') <= faults'
    BY DEF StrandedOnlyByFaults
  <2>1. faults \in Nat
    BY <1>4 DEF IInv, TypeOK
  <2>2. CASE RunReset
    <3>1. now \in OptTime
      BY <1>4 DEF IInv, TypeOK, OptTime, Time
    <3>2. Stranded' = {}
      BY <1>4, <2>2, <3>1, ResetFacts DEF RunReset, IInv, Stranded
    <3>3. faults' = faults
      BY <2>2 DEF RunReset
    <3> QED
      BY <3>2, <3>3, <2>1, FS_EmptySet
  <2>3. ASSUME NEW w \in Workers, WriteFails(w)
        PROVE  Cardinality(Stranded') <= faults'
    <3> DEFINE T == Stranded \cup {worker[w].id}
    <3>1. IsFiniteSet(T) /\ Cardinality(T) <= Cardinality(Stranded) + 1
          /\ Cardinality(T) \in Nat
      <4>1. /\ IsFiniteSet(T)
            /\ Cardinality(T) = IF worker[w].id \in Stranded THEN Cardinality(Stranded)
                                ELSE Cardinality(Stranded) + 1
        BY <1>1, FS_AddElement
      <4> QED
        BY <1>1, <4>1
    <3>2. Stranded' \subseteq T
      BY <1>4, <2>3 DEF WriteFails, Goto, IInv, TypeOK, Stranded
    <3>3. Cardinality(Stranded') <= Cardinality(T)
      BY <3>1, <3>2, FS_Subset
    <3>4. faults' = faults + 1 /\ proc \in {"expire", "up"}
      BY <2>3 DEF WriteFails
    <3>5. Cardinality(Stranded) <= faults
      BY <1>4, <3>4 DEF StrandedOnlyByFaults
    <3> QED
      BY <1>1, <1>2, <2>1, <3>1, <3>3, <3>4, <3>5
  <2>4. CASE ~RunReset /\ \A w \in Workers : ~WriteFails(w)
    <3>1. Stranded' \subseteq Stranded /\ proc \in {"expire", "up"} /\ faults' >= faults
          /\ faults' \in Nat
      BY <1>4, <2>4, StrandedShrinks, StepInv DEF IInv, TypeOK
    <3>2. Cardinality(Stranded') <= Cardinality(Stranded)
      BY <1>1, <3>1, FS_Subset
    <3> QED
      BY <1>1, <1>2, <1>4, <2>1, <3>1, <3>2 DEF StrandedOnlyByFaults
  <2> QED
    BY <2>2, <2>3, <2>4
<1>5. IInv /\ StrandedOnlyByFaults /\ [Next]_vars => StrandedOnlyByFaults'
  BY <1>4
<1> QED
  BY <1>3, <1>5, Invariance, PTL DEF Spec

-----------------------------------------------------------------------------
(* CloudTransfer implements TransferQueue.                                  *)

Held(x) == \E w \in Workers : worker[w].id = x

\* The status the mapping gives, by who holds the transfer and by its row.
LEMMA StatusFacts ==
  ASSUME TypeOK, NEW x \in Transfers
  PROVE  /\ Held(x) => StatusOf(x) = "open"
         /\ ~Held(x) /\ rows[x].state \in {"queued", "retry_wait", "running"}
              => StatusOf(x) = "open"
         /\ ~Held(x) /\ rows[x].state \in {"absent", "completed", "failed"}
              => StatusOf(x) = rows[x].state
         /\ rows[x].state \in State
BY DEF StatusOf, Held, TypeOK, Row

LEMMA StatusFactsNext ==
  ASSUME TypeOK', NEW x \in Transfers
  PROVE  /\ Held(x)' => StatusOf(x)' = "open"
         /\ ~Held(x)' /\ rows'[x].state \in {"queued", "retry_wait", "running"}
              => StatusOf(x)' = "open"
         /\ ~Held(x)' /\ rows'[x].state \in {"absent", "completed", "failed"}
              => StatusOf(x)' = rows'[x].state
         /\ rows'[x].state \in State
BY DEF StatusOf, Held, TypeOK, Row

\* The transfers in the queue's hands are the ones some worker holds.
LEMMA InHandsFacts ==
  ASSUME NEW x \in Transfers
  PROVE  x \in Queue!InHands <=> Held(x)
BY NoTransferAssumption DEF Queue!InHands, Held

\* A held transfer has a row that is running, or that MarkExpired has failed.
LEMMA HeldFacts ==
  ASSUME IInv, NEW x \in Transfers, Held(x)
  PROVE  rows[x].state \in {"running", "failed"}
BY NoTransferAssumption DEF Held, IInv, OnlyExpiryTakesBack

\* A step the queue's user does not see.
LEMMA Stutter ==
  ASSUME \A w \in Workers : worker'[w].id = worker[w].id,
         \A x \in Transfers : StatusOf(x)' = StatusOf(x),
         delivered' = delivered
  PROVE  UNCHANGED Queue!queueVars
BY DEF Queue!queueVars

LEMMA StutterRows ==
  ASSUME \A w \in Workers : worker'[w].id = worker[w].id, UNCHANGED <<rows, delivered>>
  PROVE  UNCHANGED Queue!queueVars
<1>1. \A x \in Transfers : StatusOf(x)' = StatusOf(x)
  BY DEF StatusOf
<1> QED BY <1>1, Stutter

\* MarkExpired gives up the expired transfers that no worker holds.
LEMMA ExpireSimulates ==
  ASSUME IInv, IInv', NEW t \in Time, rows' = MarkExpired(rows, t),
         \A w \in Workers : worker'[w].id = worker[w].id, delivered' = delivered
  PROVE  Queue!Next
<1> DEFINE given == {x \in Transfers : rows'[x] # rows[x] /\ ~Held(x)}
<1>1. \A x \in Transfers : Held(x)' <=> Held(x)
  BY DEF Held
<1>2. \A x \in Transfers :
        \/ rows'[x] = rows[x]
        \/ /\ rows[x].state \in {"queued", "retry_wait", "running"}
           /\ rows'[x].state = "failed"
  BY ExpireFacts DEF IInv
<1>3. \A x \in given : StatusOf(x) = "open" /\ x \notin Queue!InHands
  BY <1>2, StatusFacts, InHandsFacts DEF IInv
<1>4. \A x \in Transfers : StatusOf(x)' = IF x \in given THEN "failed" ELSE StatusOf(x)
  <2> SUFFICES ASSUME NEW x \in Transfers
               PROVE  StatusOf(x)' = IF x \in given THEN "failed" ELSE StatusOf(x)
    OBVIOUS
  <2>0. TypeOK /\ TypeOK'
    BY DEF IInv
  <2>1. CASE Held(x)
    BY <1>1, <2>0, <2>1, StatusFacts, StatusFactsNext
  <2>2. CASE ~Held(x) /\ rows'[x] = rows[x]
    BY <1>1, <2>0, <2>2, StatusFacts, StatusFactsNext DEF State
  <2>3. CASE ~Held(x) /\ rows'[x] # rows[x]
    BY <1>1, <1>2, <2>0, <2>3, StatusFactsNext
  <2> QED BY <2>1, <2>2, <2>3
<1> HIDE DEF given
<1>5. Queue!GiveUp(given)
  BY <1>3, <1>4, Stutter DEF Queue!GiveUp, given
<1> QED BY <1>5 DEF Queue!Next, given

\* A worker lets go of its transfer, whose row is then settled or open.
LEMMA GiveBackSimulates ==
  ASSUME IInv, IInv', NEW w \in Workers, NEW y \in Transfers, worker[w].id = y,
         Goto(w, Idle),
         \A x \in Transfers : x # y => rows'[x] = rows[x],
         rows'[y].state \in {"running", "retry_wait", "failed", "completed"},
         rows'[y].state = "completed" => y \in delivered,
         delivered' = delivered
  PROVE  Queue!Next
<1>0. TypeOK /\ TypeOK'
  BY DEF IInv
<1>1. worker'[w].id = NoTransfer /\ \A v \in Workers : v # w => worker'[v].id = worker[v].id
  BY <1>0, IdleFacts, GotoFacts
<1>2. \A v \in Workers : v # w => worker[v].id # y
  BY NoTransferAssumption DEF IInv, NoDoubleClaim
<1>3. ~Held(y)' /\ \A x \in Transfers : x # y => (Held(x)' <=> Held(x))
  BY <1>1, <1>2, NoTransferAssumption DEF Held
<1>4. \A x \in Transfers : x # y => StatusOf(x)' = StatusOf(x)
  BY <1>0, <1>3, StatusFacts, StatusFactsNext DEF State
<1>5. \E t \in {"open", "completed", "failed"} :
        StatusOf(y)' = t /\ (t = "completed" => y \in delivered)
  BY <1>0, <1>3, StatusFactsNext
<1>6. PICK t \in {"open", "completed", "failed"} :
        StatusOf(y)' = t /\ (t = "completed" => y \in delivered)
  BY <1>5
<1>7. Queue!GiveBack(w, t)
  <2>1. y # NoTransfer
    BY NoTransferAssumption
  <2>2. [x \in Transfers |-> StatusOf(x)]' = [[x \in Transfers |-> StatusOf(x)] EXCEPT ![y] = t]
    BY <1>4, <1>6
  <2>3. [v \in Workers |-> worker[v].id]'
          = [[v \in Workers |-> worker[v].id] EXCEPT ![w] = NoTransfer]
    BY <1>1
  <2>4. [v \in Workers |-> worker[v].id][w] = y
    OBVIOUS
  <2> QED BY <1>6, <2>1, <2>2, <2>3, <2>4 DEF Queue!GiveBack
<1> QED BY <1>7 DEF Queue!Next

\* A worker about to write its verdict still holds the transfer.
LEMMA ToMarkHolds == \A x, v, at : ToMark(x, v, at).id = x
BY DEF ToMark, Idle

\* Every step of cloud-transfer is a step of the queue or invisible to it.
LEMMA QueueStep == IInv /\ IInv' /\ [Next]_vars => [Queue!Next]_(Queue!queueVars)
<1> SUFFICES ASSUME IInv, IInv', [Next]_vars
             PROVE  Queue!Next \/ UNCHANGED Queue!queueVars
  OBVIOUS
<1>0. TypeOK /\ TypeOK'
  BY DEF IInv
<1>1. CASE UNCHANGED vars \/ Tick \/ Start
  BY <1>1, StutterRows DEF vars, Tick, Start
<1>2. CASE RunReset
  <2>1. now \in OptTime /\ rows' = ResetRunning(rows, now) /\ UNCHANGED <<worker, delivered>>
    BY <1>0, <1>2 DEF TypeOK, OptTime, Time, RunReset
  <2>2. \A x \in Transfers : Held(x)' <=> Held(x)
    BY <2>1 DEF Held
  <2>3. \A x \in Transfers : \/ rows'[x].state = rows[x].state
                             \/ rows[x].state = "running" /\ rows'[x].state = "retry_wait"
    BY <1>0, <2>1, ResetFacts
  <2>4. \A x \in Transfers : StatusOf(x)' = StatusOf(x)
    BY <1>0, <2>2, <2>3, StatusFacts, StatusFactsNext DEF State
  <2> QED BY <2>1, <2>4, Stutter
<1>3. CASE RunExpire
  <2>1. now \in Time
    BY <1>0 DEF TypeOK, Time
  <2> QED BY <1>3, <2>1, ExpireSimulates DEF RunExpire
<1>4. CASE Crash
  <2>1. rows' = rows /\ delivered' = delivered /\ \A w \in Workers : worker'[w].id = NoTransfer
    BY <1>4, IdleFacts DEF Crash
  <2>2. PICK given \in SUBSET Transfers :
          \A x \in Transfers : x \in given <=> Held(x) /\ rows[x].state = "failed"
    <3> WITNESS {x \in Transfers : Held(x) /\ rows[x].state = "failed"} \in SUBSET Transfers
    <3> QED OBVIOUS
  <2>3. \A x \in Transfers : ~Held(x)'
    BY <2>1, NoTransferAssumption DEF Held
  <2>4. \A x \in Transfers : StatusOf(x)' = IF x \in given THEN "failed" ELSE StatusOf(x)
    BY <1>0, <2>1, <2>2, <2>3, HeldFacts, StatusFacts, StatusFactsNext DEF State
  <2>5. given \subseteq Queue!InHands
    BY <2>2, InHandsFacts
  <2>6. [w \in Workers |-> worker[w].id]' = [w \in Workers |-> NoTransfer]
    BY <2>1
  <2>7. [x \in Transfers |-> StatusOf(x)]'
          = [x \in Transfers |-> IF x \in given THEN "failed"
                                 ELSE [z \in Transfers |-> StatusOf(z)][x]]
    BY <2>4
  <2>8. Queue!Die(given)
    BY <2>1, <2>5, <2>6, <2>7 DEF Queue!Die
  <2> QED BY <2>8 DEF Queue!Next
<1>5. ASSUME NEW x \in Transfers, NEW d \in Timeouts, Enqueue(x, d) PROVE Queue!Next
  <2>1. rows[x].state = "absent" /\ rows'[x].state = "queued"
        /\ \A y \in Transfers : y # x => rows'[y] = rows[y]
    BY <1>0, <1>5 DEF Enqueue, NewRow, TypeOK
  <2>2. UNCHANGED <<worker, delivered>>
    BY <1>5 DEF Enqueue
  <2>3. ~Held(x)
    BY <2>1, HeldFacts
  <2>4. \A y \in Transfers : Held(y)' <=> Held(y)
    BY <2>2 DEF Held
  <2>5. StatusOf(x) = "absent" /\ StatusOf(x)' = "open"
        /\ \A y \in Transfers : y # x => StatusOf(y)' = StatusOf(y)
    BY <1>0, <2>1, <2>3, <2>4, StatusFacts, StatusFactsNext DEF State
  <2>6. [y \in Transfers |-> StatusOf(y)]'
          = [[y \in Transfers |-> StatusOf(y)] EXCEPT ![x] = "open"]
    BY <2>5
  <2>7. Queue!Accept(x)
    BY <2>2, <2>5, <2>6 DEF Queue!Accept
  <2> QED BY <2>7 DEF Queue!Next
<1>6. ASSUME NEW w \in Workers, ExpirePass(w) PROVE Queue!Next
  <2>1. worker[w].at \in Time /\ worker[w] \in WorkerState
    BY <1>0 DEF TypeOK, WorkerState
  <2>2. \A v \in Workers : worker'[v].id = worker[v].id
    BY <1>0, <1>6, <2>1 DEF ExpirePass, Goto, TypeOK, WorkerState
  <2> QED BY <1>6, <2>1, <2>2, ExpireSimulates DEF ExpirePass
<1>7. ASSUME NEW w \in Workers, NEW x \in Transfers, AcquireDueTransfer(w, x)
      PROVE  Queue!Next
  <2>1. rows[x].state \in {"queued", "retry_wait"}
        /\ \A y \in Transfers : y # x => rows'[y] = rows[y]
    BY <1>0, <1>7 DEF AcquireDueTransfer, IsNext, IsDue, TypeOK
  <2>2. ~Held(x) /\ StatusOf(x) = "open"
    BY <1>0, <2>1, HeldFacts, StatusFacts
  <2>3. worker[w].id = NoTransfer
    BY <1>7 DEF AcquireDueTransfer, IInv, WorkerShape
  <2>4. worker'[w].id = x /\ \A v \in Workers : v # w => worker'[v].id = worker[v].id
    BY <1>0, <1>7 DEF AcquireDueTransfer, Goto, Idle, TypeOK
  <2>5. Held(x)' /\ \A y \in Transfers : y # x => (Held(y)' <=> Held(y))
    BY <2>3, <2>4, NoTransferAssumption DEF Held
  <2>6. \A y \in Transfers : StatusOf(y)' = StatusOf(y)
    BY <1>0, <2>1, <2>2, <2>5, StatusFacts, StatusFactsNext DEF State
  <2>7. delivered' = delivered /\ x \notin Queue!InHands
    BY <1>7, <2>2, InHandsFacts DEF AcquireDueTransfer
  <2>8. [v \in Workers |-> worker[v].id]' = [[v \in Workers |-> worker[v].id] EXCEPT ![w] = x]
    BY <2>4
  <2>9. [y \in Transfers |-> StatusOf(y)]' = [y \in Transfers |-> StatusOf(y)]
    BY <2>6
  <2>10. Queue!Take(w, x)
    BY <2>2, <2>3, <2>7, <2>8, <2>9 DEF Queue!Take
  <2> QED BY <2>10 DEF Queue!Next
<1>8. ASSUME NEW w \in Workers, WriteVerdict(w) \/ WriteFails(w) PROVE Queue!Next
  <2>1. \E y \in Transfers : worker[w].id = y
    BY <1>0, <1>8 DEF WriteVerdict, WriteFails, IInv, WorkerShape, TypeOK, WorkerState
  <2>2. PICK y \in Transfers : worker[w].id = y
    BY <2>1
  <2>3. Goto(w, Idle) /\ delivered' = delivered
    BY <1>8 DEF WriteVerdict, WriteFails
  <2>4. Held(y) /\ rows[y].state \in {"running", "failed"} /\ rows[y] \in Row
    BY <1>0, <2>2, HeldFacts DEF Held, TypeOK
  <2>5. CASE WriteFails(w)
    <3>1. rows' = rows
      BY <2>5 DEF WriteFails
    <3> QED BY <2>2, <2>3, <2>4, <3>1, GiveBackSimulates
  <2>6. CASE WriteVerdict(w)
    <3>1. worker[w].verdict \in {"completed", "failed", "retry"}
      BY <1>0, <2>6 DEF WriteVerdict, IInv, WorkerShape, TypeOK, WorkerState, Verdict
    <3>2. \A x \in Transfers : x # y => rows'[x] = rows[x]
      BY <1>0, <2>2, <2>6 DEF WriteVerdict, TypeOK
    <3>3. rows'[y].state \in {"completed", "failed", "retry_wait"}
          /\ (rows'[y].state = "completed" => worker[w].verdict = "completed")
      BY <1>0, <2>2, <2>4, <2>6, <3>1
      DEF WriteVerdict, MarkCompleted, MarkFailed, MarkRetry, TypeOK, Row
    <3>4. worker[w].verdict = "completed" => y \in delivered
      BY <2>2 DEF IInv, WorkerShape
    <3> QED BY <2>2, <2>3, <3>2, <3>3, <3>4, GiveBackSimulates
  <2> QED BY <1>8, <2>5, <2>6
<1>9. ASSUME NEW w \in Workers,
             MoveSucceeds(w) \/ \E temporary, arrived \in BOOLEAN : MoveFails(w, temporary, arrived)
      PROVE  Queue!Next \/ UNCHANGED Queue!queueVars
  <2>1. worker[w] \in WorkerState /\ worker[w].id # NoTransfer
    BY <1>0, <1>9 DEF MoveSucceeds, MoveFails, IInv, WorkerShape, TypeOK
  <2>2. \E v, at : Goto(w, ToMark(worker[w].id, v, at))
    BY <1>9, <2>1, Zenon DEF MoveSucceeds, MoveFails, AfterError
  <2>3. \A v \in Workers : worker'[v].id = worker[v].id
    BY <1>0, <2>2, ToMarkHolds DEF Goto, TypeOK
  <2>4. rows' = rows /\ (delivered' = delivered \/ delivered' = delivered \cup {worker[w].id})
    BY <1>9 DEF MoveSucceeds, MoveFails
  <2>5. CASE delivered' = delivered
    BY <2>3, <2>4, <2>5, StutterRows
  <2>6. CASE delivered' = delivered \cup {worker[w].id}
    <3>1. \A x \in Transfers : StatusOf(x)' = StatusOf(x)
      BY <2>3, <2>4 DEF StatusOf
    <3>2. [x \in Transfers |-> StatusOf(x)]' = [x \in Transfers |-> StatusOf(x)]
      BY <3>1
    <3>3. [v \in Workers |-> worker[v].id]' = [v \in Workers |-> worker[v].id]
      BY <2>3
    <3>4. Queue!Arrive(w)
      BY <2>1, <2>6, <3>2, <3>3 DEF Queue!Arrive
    <3> QED BY <3>4 DEF Queue!Next
  <2> QED BY <2>4, <2>5, <2>6
<1>10. ASSUME NEW w \in Workers,
              Wake(w) \/ NothingDue(w) \/ CheckDeadline(w) \/ ExpireFails(w) \/ AcquireFails(w)
       PROVE  UNCHANGED Queue!queueVars
  <2>1. worker[w] \in WorkerState /\ UNCHANGED <<rows, delivered>>
    BY <1>0, <1>10 DEF Wake, NothingDue, CheckDeadline, ExpireFails, AcquireFails, TypeOK
  <2>2. worker[w].pc \in {"idle", "acquire"} => worker[w].id = NoTransfer
    BY DEF IInv, WorkerShape
  <2>3. \A v \in Workers : worker'[v].id = worker[v].id
    <3>1. CASE Wake(w) \/ NothingDue(w) \/ AcquireFails(w)
      <4>1. worker[w].id = NoTransfer
        BY <2>2, <3>1 DEF Wake, NothingDue, AcquireFails
      <4>2. CASE Wake(w)
        BY <1>0, <4>1, <4>2 DEF Wake, Goto, Idle, TypeOK
      <4>3. CASE NothingDue(w) \/ AcquireFails(w)
        BY <1>0, <4>1, <4>3, IdleFacts, GotoFacts DEF NothingDue, AcquireFails
      <4> QED BY <3>1, <4>2, <4>3
    <3>2. CASE CheckDeadline(w)
      <4>1. CASE Goto(w, ToMark(worker[w].id, "failed", NoTime))
        BY <1>0, <4>1, ToMarkHolds DEF Goto, TypeOK
      <4>2. CASE Goto(w, [worker[w] EXCEPT !.pc = "move"])
        BY <1>0, <2>1, <4>2 DEF Goto, TypeOK, WorkerState
      <4> QED BY <3>2, <4>1, <4>2 DEF CheckDeadline
    <3>3. CASE ExpireFails(w)
      BY <1>0, <2>1, <3>3 DEF ExpireFails, Goto, TypeOK, WorkerState
    <3> QED BY <1>10, <3>1, <3>2, <3>3
  <2> QED BY <2>1, <2>3, StutterRows
<1> QED
  BY <1>1, <1>2, <1>3, <1>4, <1>5, <1>6, <1>7, <1>8, <1>9, <1>10
  DEF Next, WorkerStep, StatementFails

\* The table and its workers implement the queue their users may count on:
\* one holder at a time, nothing settled under a worker's hands, nothing
\* completed before its data has arrived, for every number of transfers,
\* workers, restarts and failed statements.
THEOREM Refinement == Spec => ImplementsQueue
<1>1. Init => Queue!Init
  <2> SUFFICES ASSUME Init PROVE Queue!Init
    OBVIOUS
  <2>1. \A w \in Workers : worker[w].id = NoTransfer
    BY IdleFacts DEF Init
  <2>2. \A x \in Transfers : StatusOf(x) = "absent"
    BY <2>1, NoTransferAssumption DEF Init, StatusOf, NoRow
  <2> QED BY <2>1, <2>2 DEF Init, Queue!Init
<1> QED
  BY <1>1, QueueStep, Invariance, PTL DEF Spec, ImplementsQueue, Queue!Spec

=============================================================================
