---------------------------- MODULE CronScheduler ----------------------------
(***************************************************************************)
(* apps/trakrai-workflow-scheduler with the cron trigger of the workflow    *)
(* plugins: the web application keeps the triggers, Redis (BullMQ) one job  *)
(* scheduler for each, and a pass every minute reconciles the second with   *)
(* the first from two lists read at its start.  Requests of the application *)
(* and several passes run at once, each command to Redis a step of its own. *)
(* A job posts the trigger back; without an answer it is tried again.  The  *)
(* application's store, Redis and the HTTP calls between them are external. *)
(***************************************************************************)
EXTENDS Integers, FiniteSets, SequencesExt

CONSTANTS
  Triggers,        \* cronTriggerIds
  Expressions,     \* cron expressions; 0 is none
  Passes,          \* reconciliations that may run at once
  MaxEdits, MaxPasses, MaxJobs,   \* bounds
  MaxJobAttempts   \* MAX_JOB_ATTEMPTS

ASSUME CsAssumption ==
  /\ {0, 1} \subseteq Expressions
  /\ {MaxEdits, MaxPasses, MaxJobs} \subseteq Nat /\ MaxJobAttempts \in Nat \ {0}

VARIABLES
  stored,       \* external: the application's active triggers
  announced,    \* changes the application made and has not told the scheduler yet
  scheduled,    \* external: the job schedulers in Redis
  pass,         \* the reconciliations: their phase, and the ids left to remove and to upsert
  job,          \* jobs made so far: trigger, attempts made, where it is, runs it started
  serving,      \* "up", "closing" (the HTTP server is closed), "down"
  edits, passed,
  settled       \* history: a pass that met no change and no other pass has ended since

csVars == <<stored, announced, scheduled, pass, job, serving, edits, passed, settled>>

NoPass == [phase |-> "idle", active |-> [t \in Triggers |-> 0], stale |-> {}, todo |-> {}, clean |-> FALSE]

CsInit ==
  /\ stored \in [Triggers -> {0, 1}]
  /\ scheduled \in [Triggers -> {0, 1}]
  /\ announced = {}
  /\ pass = [p \in Passes |-> NoPass]
  /\ job = <<>>
  /\ serving = "up"
  /\ edits = 0 /\ passed = 0
  /\ settled = FALSE

\* A pass is clean while nothing else wrote what it reads or writes.
Soiled == [p \in Passes |-> [pass[p] EXCEPT !.clean = FALSE]]

-----------------------------------------------------------------------------
(* The editor's node: onNodeAdded, onNodeUpdated, onNodeRemoved             *)

\* A node whose expression did not change is not saved again.
NodeChanges(t, e) ==
  /\ edits < MaxEdits
  /\ e # stored[t]
  /\ stored' = [stored EXCEPT ![t] = e]
  /\ announced' = announced \cup {t}
  /\ edits' = edits + 1
  /\ pass' = Soiled /\ settled' = FALSE
  /\ UNCHANGED <<scheduled, job, serving, passed>>

\* The application calls upsertCronTrigger or deleteCronTrigger with what it holds ...
Announced(t) ==
  /\ t \in announced /\ serving = "up"
  /\ announced' = announced \ {t}
  /\ scheduled' = [scheduled EXCEPT ![t] = stored[t]]
  /\ pass' = Soiled
  /\ UNCHANGED <<stored, job, serving, edits, passed, settled>>

\* ... or the call fails, and only a pass can bring the change.
AnnouncementLost(t) ==
  /\ t \in announced
  /\ announced' = announced \ {t}
  /\ UNCHANGED <<stored, scheduled, pass, job, serving, edits, passed, settled>>

-----------------------------------------------------------------------------
(* reconcileCronTriggers                                                    *)

\* Both lists are asked for at once; a pass that cannot read them ends there.
PassStarts(p) ==
  LET alone == \A q \in Passes \ {p} : pass[q].phase = "idle" IN
  /\ serving = "up" /\ pass[p].phase = "idle" /\ passed < MaxPasses
  /\ passed' = passed + 1
  /\ pass' = [Soiled EXCEPT ![p] = [NoPass EXCEPT !.phase = "listed", !.active = stored,
                                                 !.clean = alone /\ announced = {}]]
  /\ UNCHANGED <<stored, announced, scheduled, job, serving, edits, settled>>

\* Mutant: what Redis holds already is left out of the list of what to remove.
KeepsStale(active, listed) == {}

\* The schedulers that no active trigger stands for.
StaleTriggers(active, listed) == {t \in listed : active[t] = 0}

PassLists(p) ==
  LET listed == {t \in Triggers : scheduled[t] # 0} IN
  /\ pass[p].phase = "listed"
  /\ pass' = [pass EXCEPT ![p].phase = "removing", ![p].stale = StaleTriggers(pass[p].active, listed),
                          ![p].todo = {t \in Triggers : pass[p].active[t] # 0}]
  /\ UNCHANGED <<stored, announced, scheduled, job, serving, edits, passed, settled>>

PassRemoves(p, t) ==
  /\ pass[p].phase = "removing" /\ t \in pass[p].stale
  /\ scheduled' = [scheduled EXCEPT ![t] = 0]
  /\ pass' = [pass EXCEPT ![p].stale = @ \ {t}]
  /\ UNCHANGED <<stored, announced, job, serving, edits, passed, settled>>

PassUpserts(p, t) ==
  /\ pass[p].phase = "removing" /\ pass[p].stale = {} /\ t \in pass[p].todo
  /\ scheduled' = [scheduled EXCEPT ![t] = pass[p].active[t]]
  /\ pass' = [pass EXCEPT ![p].todo = @ \ {t}]
  /\ UNCHANGED <<stored, announced, job, serving, edits, passed, settled>>

PassEnds(p) ==
  /\ pass[p].phase = "removing" /\ pass[p].stale = {} /\ pass[p].todo = {}
  /\ pass' = [pass EXCEPT ![p] = NoPass]
  /\ settled' = (settled \/ pass[p].clean)
  /\ UNCHANGED <<stored, announced, scheduled, job, serving, edits, passed>>

\* A list or a command to Redis fails: the pass ends where it is, the next one starts anew.
PassFails(p) ==
  /\ pass[p].phase # "idle"
  /\ pass' = [pass EXCEPT ![p] = NoPass]
  /\ UNCHANGED <<stored, announced, scheduled, job, serving, edits, passed, settled>>

-----------------------------------------------------------------------------
(* The worker                                                               *)

\* The expression comes due: BullMQ adds a job.
ComesDue(t) ==
  /\ scheduled[t] # 0 /\ Len(job) < MaxJobs
  /\ job' = Append(job, [trigger |-> t, attempts |-> 0, at |-> "waiting", runs |-> 0])
  /\ UNCHANGED <<stored, announced, scheduled, pass, serving, edits, passed, settled>>

JobStarts(j) ==
  /\ serving # "down" /\ job[j].at = "waiting"
  /\ job' = [job EXCEPT ![j].at = "posted", ![j].attempts = @ + 1]
  /\ UNCHANGED <<stored, announced, scheduled, pass, serving, edits, passed, settled>>

\* POST /trigger/cron: preCheck knows the trigger or refuses it.
ApplicationRuns(j) ==
  /\ job[j].at = "posted"
  /\ job' = [job EXCEPT ![j].at = IF stored[job[j].trigger] # 0 THEN "ran" ELSE "refused",
                        ![j].runs = IF stored[job[j].trigger] # 0 THEN @ + 1 ELSE @]
  /\ UNCHANGED <<stored, announced, scheduled, pass, serving, edits, passed, settled>>

\* Mutant: a job is tried for ever.
RetriesForEver(k) == [k EXCEPT !.at = "waiting"]

\* The attempt throws: again after a delay, or failed for good.
AfterFailure(k) == [k EXCEPT !.at = IF k.attempts < MaxJobAttempts THEN "waiting" ELSE "failed"]

\* The answer comes; or it does not, in time or at all.
JobAnswered(j) ==
  /\ job[j].at \in {"ran", "refused"}
  /\ job' = [job EXCEPT ![j] = IF @.at = "ran" THEN [@ EXCEPT !.at = "completed"] ELSE AfterFailure(@)]
  /\ UNCHANGED <<stored, announced, scheduled, pass, serving, edits, passed, settled>>

JobTimesOut(j) ==
  /\ job[j].at \in {"posted", "ran", "refused"}
  /\ job' = [job EXCEPT ![j] = AfterFailure(@)]
  /\ UNCHANGED <<stored, announced, scheduled, pass, serving, edits, passed, settled>>

-----------------------------------------------------------------------------
(* index.ts: shutdown, and the start that follows                           *)

\* clearInterval and closeHttpServer: no new pass, no new request.
Shutdown ==
  /\ serving = "up"
  /\ serving' = "closing"
  /\ UNCHANGED <<stored, announced, scheduled, pass, job, edits, passed, settled>>

\* closeQueueResources waits for the active jobs; a pass under way dies with the process.
Exits ==
  /\ serving = "closing" /\ \A j \in 1..Len(job) : job[j].at \in {"waiting", "completed", "failed"}
  /\ serving' = "down"
  /\ pass' = [p \in Passes |-> NoPass]
  /\ UNCHANGED <<stored, announced, scheduled, job, edits, passed, settled>>

\* The process dies: BullMQ takes a stalled job back.
Dies ==
  /\ serving # "down"
  /\ serving' = "down"
  /\ pass' = [p \in Passes |-> NoPass]
  /\ job' = [j \in 1..Len(job) |-> IF job[j].at \in {"posted", "ran", "refused"}
                                   THEN AfterFailure(job[j]) ELSE job[j]]
  /\ UNCHANGED <<stored, announced, scheduled, edits, passed, settled>>

startService ==
  /\ serving = "down"
  /\ serving' = "up"
  /\ UNCHANGED <<stored, announced, scheduled, pass, job, edits, passed, settled>>

CsNext ==
  \/ \E t \in Triggers, e \in Expressions : NodeChanges(t, e)
  \/ \E t \in Triggers : Announced(t) \/ AnnouncementLost(t) \/ ComesDue(t)
  \/ \E p \in Passes : PassStarts(p) \/ PassLists(p) \/ PassEnds(p) \/ PassFails(p)
  \/ \E p \in Passes, t \in Triggers : PassRemoves(p, t) \/ PassUpserts(p, t)
  \/ \E j \in 1..Len(job) : JobStarts(j) \/ ApplicationRuns(j) \/ JobAnswered(j) \/ JobTimesOut(j)
  \/ Shutdown \/ Exits \/ Dies \/ startService

CsSpec == CsInit /\ [][CsNext]_csVars

-----------------------------------------------------------------------------

\* The shape of the state.
CsTypeOK ==
  /\ stored \in [Triggers -> Expressions] /\ scheduled \in [Triggers -> Expressions]
  /\ announced \subseteq Triggers
  /\ \A p \in Passes : pass[p].stale \subseteq Triggers /\ pass[p].todo \subseteq Triggers
  /\ serving \in {"up", "closing", "down"}
  /\ edits \in 0..MaxEdits /\ passed \in 0..MaxPasses /\ Len(job) <= MaxJobs

\* A pass repairs what lost announcements, deaths between two commands and older
\* passes left behind: once one has run to its end with no change and no other
\* pass beside it, Redis holds exactly the stored triggers until the next change.
\* And a job starts at most one run for every attempt, is marked complete only
\* after a run, and never has more attempts than it may.
ReconciledAndRetried ==
  /\ settled => scheduled = stored
  /\ \A j \in 1..Len(job) :
       /\ job[j].attempts <= MaxJobAttempts /\ job[j].runs <= job[j].attempts
       /\ job[j].at = "completed" => job[j].runs > 0
=============================================================================
