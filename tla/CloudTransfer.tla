---------------------------- MODULE CloudTransfer ----------------------------
(***************************************************************************)
(* The device's cloud-transfer service (device/internal/cloudtransfer): a   *)
(* SQLite table of upload and download jobs, a pool of worker goroutines    *)
(* that claim due jobs, move the data and write the verdict back, and the   *)
(* start-up pass that repairs what a crash left behind.                     *)
(*                                                                          *)
(* The store opens one connection (SetMaxOpenConns(1)), so every statement  *)
(* and the one transaction are atomic; everything between two statements    *)
(* of a worker interleaves with the other workers, with new requests, with  *)
(* the clock and with a crash.                                              *)
(*                                                                          *)
(* Time is counted in ticks, TicksPerSecond to the second.  The table keeps *)
(* instants as RFC3339Nano text, which drops trailing zeros, and the SQL    *)
(* compares that text: see TextRank.                                        *)
(***************************************************************************)
EXTENDS Integers, FiniteSets

CONSTANTS
  Transfers,         \* pool of transfer ids (uuid.NewString never repeats)
  Workers,           \* cfg.Queue.WorkerCount worker goroutines
  TicksPerSecond,    \* resolution of the modelled clock
  InitialBackoffSec, \* cfg.Queue.InitialBackoffSec
  MaxBackoffSec,     \* cfg.Queue.MaxBackoffSec
  Timeouts,          \* request timeouts in ticks; NoTime is "no timeout"
  NoTime,            \* SQL NULL / Go nil for a *time.Time
  NoTransfer,        \* a worker that holds no transfer
  MaxTime,           \* bound: last instant of the clock
  MaxCrashes,        \* bound: how often the process dies
  MaxFaults          \* bound: how many SQL statements fail

ASSUME ClockAssumption == TicksPerSecond \in Nat \ {0} /\ MaxTime \in Nat
\* LoadConfig forces 0 < InitialBackoffSec <= MaxBackoffSec.
ASSUME BackoffAssumption ==
  /\ InitialBackoffSec \in Nat \ {0}
  /\ MaxBackoffSec \in Nat
  /\ InitialBackoffSec <= MaxBackoffSec
ASSUME NoTimeAssumption == NoTime \notin Int
\* parseTimeoutWindow rejects a duration that is not positive.
ASSUME TimeoutsAssumption ==
  \A d \in Timeouts : d = NoTime \/ (d \in Nat /\ d > 0)
ASSUME NoTransferAssumption == NoTransfer \notin Transfers
ASSUME BoundsAssumption == MaxCrashes \in Nat /\ MaxFaults \in Nat

VARIABLES
  now,       \* the wall clock
  proc,      \* progress of Service.Run: "down", "reset", "expire", "up"
  rows,      \* the transfers table, by id
  worker,    \* the local state of each worker goroutine
  delivered, \* transfers whose data has reached its destination
  crashes,   \* how often the process has died
  faults     \* how many statements have failed

vars == <<now, proc, rows, worker, delivered, crashes, faults>>

-----------------------------------------------------------------------------
(* Instants and their text.                                                 *)

Time == Int
OptTime == Time \cup {NoTime}

(***************************************************************************)
(* The position of an instant in the order of its RFC3339Nano text.  A      *)
(* whole second prints as "...:05Z" and a fraction of it as "...:05.5Z";    *)
(* '.' sorts before 'Z', so the whole second comes after its own fractions. *)
(* One fractional digit stands for nine: longer fractions misplace          *)
(* instants in the same way and never by a second or more.                  *)
(***************************************************************************)
TextRank(t) == IF (t % TicksPerSecond) = 0 THEN t + TicksPerSecond ELSE t

\* SQLite's a <= b on two stored instants.
TextLeq(a, b) == TextRank(a) <= TextRank(b)

\* nextAttemptTime: exponential backoff in whole seconds, capped.
NextAttemptTime(attempts, t) ==
  LET n   == IF attempts < 1 THEN 1 ELSE attempts
      raw == InitialBackoffSec * (2 ^ (n - 1))
  IN  t + TicksPerSecond * (IF raw > MaxBackoffSec THEN MaxBackoffSec ELSE raw)

\* parseTimeoutWindow
Deadline(timeout, t) == IF timeout = NoTime THEN NoTime ELSE t + timeout

-----------------------------------------------------------------------------
(* The table.                                                               *)

State == {"absent", "queued", "retry_wait", "running", "completed", "failed"}
LastError == {"none", "error", "restarted", "expired"}

Row == [state: State, attempts: Nat, createdAt: Time,
        nextAttemptAt: OptTime, deadlineAt: OptTime, lastError: LastError]

NoRow == [state |-> "absent", attempts |-> 0, createdAt |-> 0,
          nextAttemptAt |-> NoTime, deadlineAt |-> NoTime, lastError |-> "none"]

\* Store.Enqueue of the row enqueueUpload or enqueueDownload builds.
NewRow(t, deadline) ==
  [state |-> "queued", attempts |-> 0, createdAt |-> t,
   nextAttemptAt |-> t, deadlineAt |-> deadline, lastError |-> "none"]

\* CASE WHEN last_error = '' THEN msg ELSE last_error END
KeepError(row, msg) == IF row.lastError = "none" THEN msg ELSE row.lastError

\* Mutant: Run starts the workers without the start-up reset.
ResetForgotten(table, t) == table

\* Store.ResetRunningTransfers
ResetRunning(table, t) ==
  [x \in Transfers |->
     IF table[x].state = "running"
     THEN [table[x] EXCEPT !.state = "retry_wait", !.nextAttemptAt = t,
                           !.lastError = KeepError(table[x], "restarted")]
     ELSE table[x]]

\* Mutants of IsExpired: the deadline is not compared; every state but
\* 'failed' is selected; running rows are spared.
ExpiresAnyDeadline(row, t) ==
  row.state \in {"queued", "retry_wait", "running"} /\ row.deadlineAt # NoTime
ExpiresAllButFailed(row, t) ==
  /\ row.state \in {"queued", "retry_wait", "running", "completed"}
  /\ row.deadlineAt # NoTime
  /\ TextLeq(row.deadlineAt, t)
ExpirySparesRunning(row, t) ==
  /\ row.state \in {"queued", "retry_wait"}
  /\ row.deadlineAt # NoTime
  /\ TextLeq(row.deadlineAt, t)

\* The WHERE clause of Store.MarkExpired.
IsExpired(row, t) ==
  /\ row.state \in {"queued", "retry_wait", "running"}
  /\ row.deadlineAt # NoTime
  /\ TextLeq(row.deadlineAt, t)

\* Mutant: expired rows are deleted.
DeletesExpired(table, t) ==
  [x \in Transfers |-> IF IsExpired(table[x], t) THEN NoRow ELSE table[x]]

\* Store.MarkExpired
MarkExpired(table, t) ==
  [x \in Transfers |->
     IF IsExpired(table[x], t)
     THEN [table[x] EXCEPT !.state = "failed", !.nextAttemptAt = NoTime,
                           !.lastError = KeepError(table[x], "expired")]
     ELSE table[x]]

\* Mutants of IsDue: running rows are claimed again; next_attempt_at is
\* ignored; retries are forgotten.
ClaimsRunning(row, t) ==
  /\ row.state \in {"queued", "retry_wait", "running"}
  /\ row.nextAttemptAt = NoTime \/ TextLeq(row.nextAttemptAt, t)
ClaimsAtOnce(row, t) == row.state \in {"queued", "retry_wait"}
ClaimsQueuedOnly(row, t) ==
  row.state = "queued" /\ (row.nextAttemptAt = NoTime \/ TextLeq(row.nextAttemptAt, t))

\* The WHERE clause of Store.AcquireDueTransfer.
IsDue(row, t) ==
  /\ row.state \in {"queued", "retry_wait"}
  /\ row.nextAttemptAt = NoTime \/ TextLeq(row.nextAttemptAt, t)

\* ORDER BY COALESCE(next_attempt_at, created_at), created_at
SortKey(row) ==
  TextRank(IF row.nextAttemptAt = NoTime THEN row.createdAt ELSE row.nextAttemptAt)
Before(r, s) ==
  \/ SortKey(r) < SortKey(s)
  \/ SortKey(r) = SortKey(s) /\ TextRank(r.createdAt) <= TextRank(s.createdAt)

\* The row a claim may take: due, and no due row sorts strictly before it.
IsNext(x, t) ==
  /\ IsDue(rows[x], t)
  /\ \A y \in Transfers : IsDue(rows[y], t) => Before(rows[x], rows[y])

\* Mutant: attempts counts down.
CountsDown(row) ==
  [row EXCEPT !.state = "running", !.attempts = @ - 1, !.nextAttemptAt = NoTime]

\* The UPDATE of Store.AcquireDueTransfer.
Claimed(row) ==
  [row EXCEPT !.state = "running", !.attempts = @ + 1, !.nextAttemptAt = NoTime]

\* Store.MarkCompleted, Store.MarkFailed and Store.MarkRetry: WHERE id = ?,
\* whatever state the row is in by then.
MarkCompleted(row) ==
  [row EXCEPT !.state = "completed", !.nextAttemptAt = NoTime, !.lastError = "none"]
MarkFailed(row) ==
  [row EXCEPT !.state = "failed", !.nextAttemptAt = NoTime, !.lastError = "error"]
MarkRetry(row, at) ==
  [row EXCEPT !.state = "retry_wait", !.nextAttemptAt = at, !.lastError = "error"]

-----------------------------------------------------------------------------
(* The workers.  pc is where workerLoop and processTransfer stand:          *)
(*   idle     select on the poll timer and workSignal                       *)
(*   expire   now is read; MarkExpired(now) comes next                      *)
(*   acquire  AcquireDueTransfer(now) comes next                            *)
(*   check    a transfer is claimed; its deadline is about to be tested     *)
(*   move     handleUpload or handleDownload is running                     *)
(*   mark     the verdict is known; its UPDATE comes next                   *)

Verdict == {"none", "completed", "failed", "retry"}

WorkerState ==
  [pc: {"idle", "expire", "acquire", "check", "move", "mark"},
   at: Time,                       \* the now of this iteration
   id: Transfers \cup {NoTransfer}, \* the transfer held,
   attempts: Nat,                  \* and the snapshot AcquireDueTransfer
   deadlineAt: OptTime,            \* returned of it
   verdict: Verdict,               \* what is to be written,
   retryAt: OptTime]               \* and when to try again

Idle == [pc |-> "idle", at |-> 0, id |-> NoTransfer, attempts |-> 0,
         deadlineAt |-> NoTime, verdict |-> "none", retryAt |-> NoTime]

\* A worker about to write its verdict; what it no longer needs is dropped.
ToMark(x, verdict, at) ==
  [Idle EXCEPT !.pc = "mark", !.id = x, !.verdict = verdict, !.retryAt = at]

Goto(w, s) == worker' = [worker EXCEPT ![w] = s]

Init ==
  /\ now = 0
  /\ proc = "down"
  /\ rows = [x \in Transfers |-> NoRow]
  /\ worker = [w \in Workers |-> Idle]
  /\ delivered = {}
  /\ crashes = 0
  /\ faults = 0

-----------------------------------------------------------------------------
(* Service.Run: the repairs come before the first worker.                   *)

Start ==
  /\ proc = "down"
  /\ proc' = "reset"
  /\ UNCHANGED <<now, rows, worker, delivered, crashes, faults>>

RunReset ==
  /\ proc = "reset"
  /\ rows' = ResetRunning(rows, now)
  /\ proc' = "expire"
  /\ UNCHANGED <<now, worker, delivered, crashes, faults>>

RunExpire ==
  /\ proc = "expire"
  /\ rows' = MarkExpired(rows, now)
  /\ proc' = "up"
  /\ UNCHANGED <<now, worker, delivered, crashes, faults>>

\* The process dies, or is stopped: a cancelled context fails every later
\* statement, so the workers' pending writes are lost either way.
Crash ==
  /\ proc # "down"
  /\ crashes < MaxCrashes
  /\ crashes' = crashes + 1
  /\ proc' = "down"
  /\ worker' = [w \in Workers |-> Idle]
  /\ UNCHANGED <<now, rows, delivered, faults>>

-----------------------------------------------------------------------------
(* HandleEnqueueUpload and HandleEnqueueDownload.  A request that fails its  *)
(* checks (paths, missing upload source, timeout) or whose INSERT fails is   *)
(* answered with an error and changes nothing.  The deadline is kept a       *)
(* second inside the clock's bound, so that it can pass.                     *)

Enqueue(x, timeout) ==
  /\ proc = "up"
  /\ rows[x].state = "absent"
  /\ timeout # NoTime => now + timeout + TicksPerSecond <= MaxTime
  /\ rows' = [rows EXCEPT ![x] = NewRow(now, Deadline(timeout, now))]
  /\ UNCHANGED <<now, proc, worker, delivered, crashes, faults>>

-----------------------------------------------------------------------------
(* workerLoop                                                               *)

\* The poll timer or a work signal.  The timer is always armed while the
\* worker waits, so which of the two fired is not observable.
Wake(w) ==
  /\ proc = "up"
  /\ worker[w].pc = "idle"
  /\ Goto(w, [Idle EXCEPT !.pc = "expire", !.at = now])
  /\ UNCHANGED <<now, proc, rows, delivered, crashes, faults>>

ExpirePass(w) ==
  /\ worker[w].pc = "expire"
  /\ rows' = MarkExpired(rows, worker[w].at)
  /\ Goto(w, [worker[w] EXCEPT !.pc = "acquire"])
  /\ UNCHANGED <<now, proc, delivered, crashes, faults>>

\* A failed MarkExpired is logged and the loop goes on.
ExpireFails(w) ==
  /\ worker[w].pc = "expire"
  /\ faults < MaxFaults
  /\ faults' = faults + 1
  /\ Goto(w, [worker[w] EXCEPT !.pc = "acquire"])
  /\ UNCHANGED <<now, proc, rows, delivered, crashes>>

AcquireDueTransfer(w, x) ==
  /\ worker[w].pc = "acquire"
  /\ IsNext(x, worker[w].at)
  /\ rows' = [rows EXCEPT ![x] = Claimed(rows[x])]
  /\ Goto(w, [Idle EXCEPT !.pc = "check", !.id = x,
                          !.attempts = rows[x].attempts + 1,
                          !.deadlineAt = rows[x].deadlineAt])
  /\ UNCHANGED <<now, proc, delivered, crashes, faults>>

NothingDue(w) ==
  /\ worker[w].pc = "acquire"
  /\ \A x \in Transfers : ~IsDue(rows[x], worker[w].at)
  /\ Goto(w, Idle)
  /\ UNCHANGED <<now, proc, rows, delivered, crashes, faults>>

AcquireFails(w) ==
  /\ worker[w].pc = "acquire"
  /\ faults < MaxFaults
  /\ faults' = faults + 1
  /\ Goto(w, Idle)
  /\ UNCHANGED <<now, proc, rows, delivered, crashes>>

-----------------------------------------------------------------------------
(* processTransfer                                                          *)

\* !DeadlineAt.After(now) on the parsed instants, not on their text.
CheckDeadline(w) ==
  /\ worker[w].pc = "check"
  /\ IF worker[w].deadlineAt # NoTime /\ worker[w].deadlineAt <= now
     THEN Goto(w, ToMark(worker[w].id, "failed", NoTime))
     ELSE Goto(w, [worker[w] EXCEPT !.pc = "move"])
  /\ UNCHANGED <<now, proc, rows, delivered, crashes, faults>>

\* Mutant: a permanent error is swallowed and the transfer reported done.
SwallowsError(s, temporary, t) ==
  IF ~temporary THEN ToMark(s.id, "completed", NoTime)
  ELSE ToMark(s.id, "retry", NextAttemptTime(s.attempts, t))

\* What an error means: permanent unless a retry fits before the deadline.
AfterError(s, temporary, t) ==
  LET next == NextAttemptTime(s.attempts, t) IN
  IF ~temporary \/ (s.deadlineAt # NoTime /\ s.deadlineAt <= next)
  THEN ToMark(s.id, "failed", NoTime)
  ELSE ToMark(s.id, "retry", next)

\* The object is stored, or the downloaded temp file renamed into place.
MoveSucceeds(w) ==
  /\ worker[w].pc = "move"
  /\ delivered' = delivered \cup {worker[w].id}
  /\ Goto(w, ToMark(worker[w].id, "completed", NoTime))
  /\ UNCHANGED <<now, proc, rows, crashes, faults>>

\* An error.  A PUT whose answer was lost has stored the object all the same.
MoveFails(w, temporary, arrived) ==
  /\ worker[w].pc = "move"
  /\ delivered' = IF arrived THEN delivered \cup {worker[w].id} ELSE delivered
  /\ Goto(w, AfterError(worker[w], temporary, now))
  /\ UNCHANGED <<now, proc, rows, crashes, faults>>

WriteVerdict(w) ==
  LET x == worker[w].id IN
  /\ worker[w].pc = "mark"
  /\ rows' = [rows EXCEPT ![x] =
       CASE worker[w].verdict = "completed" -> MarkCompleted(rows[x])
         [] worker[w].verdict = "failed"    -> MarkFailed(rows[x])
         [] worker[w].verdict = "retry"     -> MarkRetry(rows[x], worker[w].retryAt)]
  /\ Goto(w, Idle)
  /\ UNCHANGED <<now, proc, delivered, crashes, faults>>

\* The UPDATE fails: the error is logged and the worker drops the transfer.
WriteFails(w) ==
  /\ worker[w].pc = "mark"
  /\ faults < MaxFaults
  /\ faults' = faults + 1
  /\ Goto(w, Idle)
  /\ UNCHANGED <<now, proc, rows, delivered, crashes>>

-----------------------------------------------------------------------------

Tick ==
  /\ now < MaxTime
  /\ now' = now + 1
  /\ UNCHANGED <<proc, rows, worker, delivered, crashes, faults>>

WorkerStep(w) ==
  \/ Wake(w)
  \/ ExpirePass(w)
  \/ \E x \in Transfers : AcquireDueTransfer(w, x)
  \/ NothingDue(w)
  \/ CheckDeadline(w)
  \/ MoveSucceeds(w)
  \/ \E temporary, arrived \in BOOLEAN : MoveFails(w, temporary, arrived)
  \/ WriteVerdict(w)

StatementFails(w) == ExpireFails(w) \/ AcquireFails(w) \/ WriteFails(w)

Next ==
  \/ Tick
  \/ Start \/ RunReset \/ RunExpire \/ Crash
  \/ \E x \in Transfers, d \in Timeouts : Enqueue(x, d)
  \/ \E w \in Workers : WorkerStep(w) \/ StatementFails(w)

Spec == Init /\ [][Next]_vars

(***************************************************************************)
(* The clock runs, the supervisor restarts the process, and each worker     *)
(* keeps stepping: its timer re-arms, the HTTP clients time out, SQLite's   *)
(* busy_timeout is finite.  Requests, crashes and failures are not fair.    *)
(***************************************************************************)
Fairness ==
  /\ WF_vars(Tick)
  /\ WF_vars(Start) /\ WF_vars(RunReset) /\ WF_vars(RunExpire)
  /\ \A w \in Workers : WF_vars(WorkerStep(w))

FairSpec == Spec /\ Fairness

-----------------------------------------------------------------------------
(* Properties                                                               *)

\* The shape of the state: the table, the workers' locals and the counters.
TypeOK ==
  /\ now \in Nat
  /\ proc \in {"down", "reset", "expire", "up"}
  /\ rows \in [Transfers -> Row]
  /\ worker \in [Workers -> WorkerState]
  /\ delivered \subseteq Transfers
  /\ crashes \in Nat
  /\ faults \in Nat

\* AcquireDueTransfer hands a transfer to one worker at a time: two workers
\* never process the same row, through expiry, retries and restarts.
NoDoubleClaim ==
  \A v, w \in Workers :
    v # w /\ worker[v].id # NoTransfer => worker[v].id # worker[w].id

\* While a worker processes a transfer, its row is "running"; only
\* MarkExpired, for a transfer with a deadline, may fail it meanwhile.
OnlyExpiryTakesBack ==
  \A w \in Workers : worker[w].id # NoTransfer =>
    LET row == rows[worker[w].id] IN
    \/ row.state = "running"
    \/ row.state = "failed" /\ row.deadlineAt # NoTime

Stranded ==
  {x \in Transfers : /\ rows[x].state = "running"
                     /\ \A w \in Workers : worker[w].id # x}

\* After the start-up repairs a row is "running" with no worker behind it
\* only because the UPDATE of its verdict failed: one row per failure.
StrandedOnlyByFaults ==
  proc \in {"expire", "up"} => Cardinality(Stranded) <= faults

\* A row says "completed" only when the object is stored or the file is in
\* place: processTransfer writes MarkCompleted after the data has moved.
CompletedIsDelivered ==
  \A x \in Transfers : rows[x].state = "completed" => x \in delivered

\* MarkExpired may fire early, because it compares text, but by less than
\* a second.
ExpiryNotEarly ==
  \A x \in Transfers :
    rows[x].state = "failed" /\ rows[x].lastError = "expired" =>
      rows[x].deadlineAt < now + TicksPerSecond

\* A completed row, and a failed row that no worker still processes, never
\* changes again: no expiry pass, restart or late verdict touches it.
SettledIsFinal ==
  [][\A x \in Transfers :
       \/ rows[x].state = "completed"
       \/ rows[x].state = "failed" /\ \A w \in Workers : worker[w].id # x
       => rows'[x] = rows[x]]_vars

\* Instants are compared as text, so MarkExpired and AcquireDueTransfer may
\* act early, but never by a second or more: no step leaves a transfer failed
\* that long before its deadline, nor takes one that long before its
\* next_attempt_at, which would shorten its backoff.
NotEarly ==
  [][/\ ExpiryNotEarly'
     /\ \A x \in Transfers :
          rows[x].state # "running" /\ rows'[x].state = "running" =>
            rows[x].nextAttemptAt < now + TicksPerSecond]_vars

\* A row as the queue's users may take it: nothing is settled while a worker
\* still holds the transfer, and a row left running is open.
StatusOf(x) ==
  IF \E w \in Workers : worker[w].id = x THEN "open"
  ELSE CASE rows[x].state \in {"queued", "retry_wait", "running"} -> "open"
         [] OTHER -> rows[x].state

Queue == INSTANCE TransferQueue WITH
  status <- [x \in Transfers |-> StatusOf(x)],
  hands <- [w \in Workers |-> worker[w].id],
  arrived <- delivered

\* Through claims, retries, expiry passes, failed statements and restarts the
\* table and its workers are a TransferQueue: one holder at a time, what was
\* given up under a worker is settled only when that worker lets go, and
\* nothing is completed before its data has arrived.
ImplementsQueue == Queue!Spec

\* A transfer with a deadline ends "completed" or "failed" and stays so,
\* whatever crashes, failed statements and late verdicts come in between.
DeadlineSettles ==
  \A x \in Transfers :
    (rows[x].deadlineAt # NoTime) ~> [](rows[x].state \in {"completed", "failed"})

\* A transfer whose time has come does not wait for ever: some worker takes
\* it, or it expires.
DueIsTaken ==
  \A x \in Transfers :
    (rows[x].state \in {"queued", "retry_wait"} /\ rows[x].nextAttemptAt <= now)
      ~> rows[x].state \notin {"queued", "retry_wait"}
=============================================================================
