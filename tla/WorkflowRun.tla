---------------------------- MODULE WorkflowRun ----------------------------
(***************************************************************************)
(* One run of a workflow inside an Inngest function                        *)
(* (trakrai-workflow-inngest/src/execution/workflowAutomation.ts).         *)
(*                                                                         *)
(* All nodes of the chart are started at once; each waits for the          *)
(* completion events of its sources, then for the named events it reads    *)
(* from them, checks its dependencies against the results gathered so far  *)
(* and either executes or records a dependency failure.  Both outcomes     *)
(* send the node's completion event.  A node in mode "any" takes its       *)
(* sources one after the other, any of those that have completed: of        *)
(* several, Promise.race takes the first of the dependencies, whose order    *)
(* the model leaves open.                                                     *)
(*                                                                         *)
(* Inngest is external: a wait gets the first matching event sent after    *)
(* the wait was registered, or nothing when its year has passed.           *)
(***************************************************************************)
EXTENDS Naturals, Sequences, FiniteSets

CONSTANTS Nodes,    \* the nodes of the charts
          Charts,   \* [deps : [Nodes -> SUBSET Dep], mode : [Nodes -> {"all", "any"}]]
          NoNode

ASSUME WfAssumption ==
    /\ NoNode \notin Nodes
    /\ \A n, m \in Nodes : <<n, "event">> # m   \* the keys of resultMap differ
    /\ \A c \in Charts :
         /\ c.deps \in [Nodes -> SUBSET [from : Nodes, handle : {"success", "output", "event"},
                                       cond : {"none", "true", "false"}]]
         /\ c.mode \in [Nodes -> {"all", "any"}]

VARIABLES
    chart,      \* the validated chart and its dependency map
    stage,      \* where the node's async function stands
    outcome,    \* how the node ended: "none" while it has not
    results,    \* resultMap: of nodes and of their events
    heard,      \* sources whose completion wait has resolved
    arrived,    \* "any": resolved sources the loop has not taken yet
    source,     \* "any": the source the loop looks at
    awaiting,   \* sources of the event waits still open
    fired,      \* nodes whose event has been emitted
    expired     \* nodes one of whose waits has timed out

wfVars == <<chart, stage, outcome, results, heard, arrived, source, awaiting, fired, expired>>

(***************************************************************************)
(* A dependency: its source, the handle it reads ("success" is the         *)
(* execution-success handle, "output" a field of the result, "event" a     *)
(* field of the source's event) and the value its condition asks for.      *)
(***************************************************************************)
Dep == [from : Nodes, handle : {"success", "output", "event"}, cond : {"none", "true", "false"}]

EventOf(n) == <<n, "event">>

Results == {"none", "true", "false", "failed"}

Sources(n) == {d.from : d \in chart.deps[n]}

\* The dependencies of n that the current decision is about.
Considered(n) == IF source[n] = NoNode THEN chart.deps[n]
                 ELSE {d \in chart.deps[n] : d.from = source[n]}

\* Mutant: a condition on the success handle is not looked at.
IgnoresCondition(d) ==
    IF d.handle = "success" THEN results[d.from] \in {"none", "failed"}
    ELSE LET r == results[IF d.handle = "event" THEN EventOf(d.from) ELSE d.from] IN
         r \in {"none", "failed"} \/ (d.cond # "none" /\ r # d.cond)

\* A condition of the success handle compares with success, the others with the value.
checkDependencyFailure(d) ==
    IF d.handle = "success"
    THEN \/ results[d.from] = "none"
         \/ IF d.cond = "none" THEN results[d.from] = "failed"
            ELSE (results[d.from] # "failed") # (d.cond = "true")
    ELSE LET r == results[IF d.handle = "event" THEN EventOf(d.from) ELSE d.from] IN
         \/ r \in {"none", "failed"}
         \/ d.cond # "none" /\ r # d.cond

EventSources(deps) == {d.from : d \in {e \in deps : e.handle = "event"}}

-----------------------------------------------------------------------------
WfInit ==
    /\ chart \in Charts
    /\ stage = [n \in Nodes |-> IF chart.deps[n] = {} THEN "running" ELSE "waiting"]
    /\ outcome = [n \in Nodes |-> "none"]
    /\ results = [i \in Nodes \cup {EventOf(n) : n \in Nodes} |-> "none"]
    /\ heard = [n \in Nodes |-> {}]
    /\ arrived = [n \in Nodes |-> {}]
    /\ source = [n \in Nodes |-> NoNode]
    /\ awaiting = [n \in Nodes |-> {}]
    /\ fired = {}
    /\ expired = {}

\* Every node that still waits for n's completion has its wait resolved.
Completes(n, isTimeout, whom) ==
    LET open == {w \in whom : n \in Sources(w) /\ n \notin heard[w]} IN
    /\ heard' = [w \in Nodes |-> heard[w] \cup IF w \in open THEN {n} ELSE {}]
    /\ arrived' = [w \in Nodes |->
         IF w \in open /\ chart.mode[w] = "any" THEN arrived[w] \cup {<<n, isTimeout>>}
         ELSE arrived[w]]

\* executeNode: the handler returns a value or throws.
executeNode(n) ==
    /\ stage[n] = "running"
    /\ \E r \in {"true", "false", "failed"} :
         /\ results' = [results EXCEPT ![n] = r]
         /\ outcome' = [outcome EXCEPT ![n] = IF r = "failed" THEN "threw" ELSE "ran"]
    /\ stage' = [stage EXCEPT ![n] = "emitting"]
    /\ UNCHANGED <<chart, heard, arrived, source, awaiting, fired, expired>>

\* step.sendEvent of the completion, or of the failure.
EmitCompletion(n) ==
    /\ stage[n] = "emitting"
    /\ stage' = [stage EXCEPT ![n] = "done"]
    /\ Completes(n, FALSE, Nodes)
    /\ UNCHANGED <<chart, outcome, results, source, awaiting, fired, expired>>

\* Sending the completion failed inside the try block: the node becomes a failed one.
EmitFails(n) ==
    /\ stage[n] = "emitting" /\ outcome[n] = "ran"
    /\ outcome' = [outcome EXCEPT ![n] = "threw"]
    /\ results' = [results EXCEPT ![n] = "failed"]
    /\ UNCHANGED <<chart, stage, heard, arrived, source, awaiting, fired, expired>>

\* A handler's event reaches the waits that are registered at that time.
FireEvent(n, value) ==
    /\ n \notin fired
    /\ stage[n] = "running" \/ outcome[n] \in {"ran", "threw"}
    /\ \E w \in Nodes : \E d \in chart.deps[w] : d.from = n /\ d.handle = "event"
    /\ fired' = fired \cup {n}
    /\ awaiting' = [w \in Nodes |-> awaiting[w] \ {n}]
    /\ results' = IF \E w \in Nodes : n \in awaiting[w]
                  THEN [results EXCEPT ![EventOf(n)] = value] ELSE results
    /\ UNCHANGED <<chart, stage, outcome, heard, arrived, source, expired>>

\* "all": every source has completed; the event waits are registered now.
SourcesComplete(n) ==
    /\ stage[n] = "waiting" /\ chart.mode[n] = "all"
    /\ heard[n] = Sources(n)
    /\ stage' = [stage EXCEPT ![n] = "events"]
    /\ awaiting' = [awaiting EXCEPT ![n] = EventSources(chart.deps[n])]
    /\ UNCHANGED <<chart, outcome, results, heard, arrived, source, fired, expired>>

Skip(n) ==
    /\ results' = [results EXCEPT ![n] = "failed"]
    /\ outcome' = [outcome EXCEPT ![n] = "skipped"]
    /\ stage' = [stage EXCEPT ![n] = "emitting"]

\* "any": the loop takes a resolved source, or gives up when none is pending.
waitForAnyDependency(n) ==
    /\ stage[n] = "waiting" /\ chart.mode[n] = "any"
    /\ \/ \E next \in arrived[n] :
          /\ arrived' = [arrived EXCEPT ![n] = @ \ {next}]
          /\ IF next[2] THEN UNCHANGED <<stage, source, awaiting>>
             ELSE /\ source' = [source EXCEPT ![n] = next[1]]
                  /\ stage' = [stage EXCEPT ![n] = "events"]
                  /\ awaiting' = [awaiting EXCEPT ![n] =
                       EventSources({d \in chart.deps[n] : d.from = next[1]})]
          /\ UNCHANGED <<outcome, results>>
       \/ /\ arrived[n] = {} /\ heard[n] = Sources(n)
          /\ Skip(n)
          /\ UNCHANGED <<arrived, source, awaiting>>
    /\ UNCHANGED <<chart, heard, fired, expired>>

\* No event wait is open: the dependencies decide.
Decide(n) ==
    /\ stage[n] = "events" /\ awaiting[n] = {}
    /\ IF \A d \in Considered(n) : ~checkDependencyFailure(d)
       THEN /\ stage' = [stage EXCEPT ![n] = "running"]
            /\ UNCHANGED <<outcome, results, source>>
       ELSE IF chart.mode[n] = "all"
       THEN Skip(n) /\ UNCHANGED source
       ELSE /\ stage' = [stage EXCEPT ![n] = "waiting"]
            /\ source' = [source EXCEPT ![n] = NoNode]
            /\ UNCHANGED <<outcome, results>>
    /\ UNCHANGED <<chart, heard, arrived, awaiting, fired, expired>>

\* A wait's year passes; nothing else of the run takes that long.
Quiet == \A n \in Nodes :
    /\ stage[n] \in {"waiting", "events", "done"}
    /\ stage[n] = "events" => awaiting[n] # {}
    /\ stage[n] = "waiting" => arrived[n] = {} /\ heard[n] # Sources(n)

CompletionTimesOut(n, s) ==
    /\ Quiet /\ stage[n] = "waiting" /\ s \in Sources(n) \ heard[n]
    /\ Completes(s, TRUE, {n})
    /\ expired' = expired \cup {n}
    /\ UNCHANGED <<chart, stage, outcome, results, source, awaiting, fired>>

\* processEventDependencyData(null): the event's shared result becomes a failure.
EventTimesOut(n, s) ==
    /\ Quiet /\ s \in awaiting[n]
    /\ awaiting' = [awaiting EXCEPT ![n] = @ \ {s}]
    /\ results' = [results EXCEPT ![EventOf(s)] = "failed"]
    /\ expired' = expired \cup {n}
    /\ UNCHANGED <<chart, stage, outcome, heard, arrived, source, fired>>

WfNext ==
    \/ \E n \in Nodes : \/ executeNode(n) \/ EmitCompletion(n) \/ EmitFails(n)
                        \/ SourcesComplete(n) \/ waitForAnyDependency(n) \/ Decide(n)
                        \/ \E v \in {"true", "false", "failed"} : FireEvent(n, v)
                        \/ \E s \in Nodes : CompletionTimesOut(n, s) \/ EventTimesOut(n, s)

WfSpec == WfInit /\ [][WfNext]_wfVars

-----------------------------------------------------------------------------
WfTypeOK ==
    /\ chart \in Charts
    /\ stage \in [Nodes -> {"waiting", "events", "running", "emitting", "done"}]
    /\ outcome \in [Nodes -> {"none", "ran", "threw", "skipped"}]
    /\ results \in [Nodes \cup {EventOf(n) : n \in Nodes} -> Results]
    /\ heard \in [Nodes -> SUBSET Nodes]
    /\ source \in [Nodes -> Nodes \cup {NoNode}]
    /\ awaiting \in [Nodes -> SUBSET Nodes]
    /\ fired \subseteq Nodes /\ expired \subseteq Nodes

(***************************************************************************)
(* What a dependency promises its target, told from what the nodes did     *)
(* and not from the result map the code decides with.                      *)
(***************************************************************************)
Satisfied(d) ==
    CASE d.handle = "success" -> (outcome[d.from] = "ran") = (d.cond # "false")
      [] d.handle = "output" ->
           outcome[d.from] = "ran" /\ d.cond \in {"none", results[d.from]}
      [] OTHER -> d.from \in fired

(***************************************************************************)
(* Nodes run on satisfied dependencies and are skipped only for a reason:  *)
(* whoever executes has every dependency of its chart (mode "any": of the  *)
(* source it chose) satisfied by a node that has sent its completion, and   *)
(* whoever is skipped has for each alternative an unsatisfied dependency,   *)
(* an event value that did not match, or a wait of this run that timed out. *)
(* A node in mode "all" does not look at how its waits ended: after a        *)
(* timeout it may start on a source that runs late and fails after all.       *)
(***************************************************************************)
RunsWhatItsChartAllows == \A n \in Nodes :
    /\ stage[n] = "running" \/ outcome[n] \in {"ran", "threw"} =>
         \/ chart.mode[n] = "all" /\ n \in expired
         \/ \A d \in Considered(n) : stage[d.from] = "done" /\ Satisfied(d)
    /\ outcome[n] = "skipped" /\ expired = {} =>
         \A s \in IF chart.mode[n] = "any" THEN Sources(n) ELSE {NoNode} :
            \E d \in {e \in chart.deps[n] : s \in {NoNode, e.from}} :
               ~Satisfied(d) \/ d.handle = "event"
=============================================================================
