----------------------------- MODULE WorkflowRuns -----------------------------
(***************************************************************************)
(* The editor's runs tab.  It lists the runs of a workflow, and while a run is *)
(* selected it polls the run's trace and lays it over the canvas: the workflow  *)
(* the run was started with in place of the one being edited, and a status for   *)
(* each node shown.  Changing the tab unmounts it and clears nothing.  The run     *)
(* itself, on the engine's side, goes on whatever is shown.                         *)
(***************************************************************************)
EXTENDS Naturals, FiniteSets

CONSTANTS RunIds,
          RsNodes,        \* node ids
          RunChart,       \* the nodes of the workflow each run was started with
          EditedChart,    \* the nodes of the workflow being edited
          InsideOf,       \* pairs of node ids, the first a substring of the second
          KeepsPolling,   \* runPollingEnabled
          MaxRsTurns,     \* bound: what the user does
          MaxEngineTurns, \* bound: steps of the runs, together
          NoRun, NoChart, NotFetched

ASSUME RsAssumption == MaxRsTurns \in Nat /\ MaxEngineTurns \in Nat

VARIABLES engine,      \* external: each run's status and the spans of its trace
          runList,     \* the cached answer of getRuns: absent, or whether a run in it is active
          runDetails,  \* the cached answer of getRunDetails, for each run
          runTrace,    \* the cached answer of getTraceResult, for each run
          selectedRun, \* the run id in the host's hands
          runsTab,     \* the runs tab is the one mounted
          nodeTips,    \* the cached details of a node of a run, as its tooltip shows them
          overlay,     \* the editor's run presentation and dummy workflow
          rsTurns, engineTurns

rsVars == <<engine, runList, runDetails, runTrace, selectedRun, runsTab, nodeTips, overlay,
            rsTurns, engineTurns>>

ActiveStatuses == {"Queued", "Running"}
FinalStatuses == {"Completed", "Failed", "Cancelled"}
SpanStatuses == {"none", "Running", "Retrying", "Failed", "Completed"}
Emissions == {"none", "completion", "failure"}
NodeStatuses == {"Waiting", "Running", "Retrying", "Failing", "Failed", "Completed"}

FreshRun == [status |-> "Queued", output |-> "none",
             span |-> [n \in RsNodes |-> "none"], emitted |-> [n \in RsNodes |-> "none"]]

RsInit ==
    /\ engine = [r \in RunIds |-> FreshRun]
    /\ runList = "absent"
    /\ runDetails = [r \in RunIds |-> NotFetched]
    /\ runTrace = [r \in RunIds |-> NotFetched]
    /\ selectedRun = NoRun
    /\ runsTab = FALSE
    /\ nodeTips = [r \in RunIds |-> [n \in RsNodes |-> NotFetched]]
    /\ overlay = [run |-> NoRun, dummy |-> NoChart, statuses |-> <<>>]
    /\ rsTurns = 0 /\ engineTurns = 0

\* getNodeRunStatus: an emission whose name contains the id decides, then the execution span.
CompletionEvents(run, n) ==
    {run.emitted[m] : m \in {m \in RsNodes : <<n, m>> \in InsideOf \/ m = n}} \ {"none"}
getNodeRunStatus(run, n) ==
    IF CompletionEvents(run, n) # {}
    THEN {IF e = "failure" THEN "Failed" ELSE "Completed" : e \in CompletionEvents(run, n)}
    ELSE {CASE run.span[n] = "none" -> "Waiting"
            [] run.span[n] = "Failed" -> "Failing"
            [] OTHER -> run.span[n]}

getWorkflowDataOutputId(run) == run # NotFetched /\ run.output # "none"
\* The router answers '{}' for a result that is not there yet: no nodes, and no second request.
traceResultAnswer(run) == IF run.output = "saved" THEN "workflow" ELSE "{}"
parseWorkflowData(r) == IF runTrace'[r] = "workflow" THEN RunChart[r] ELSE NoChart

\* FluxeryCanvasProvider and the editor: the dummy workflow is shown in place of the edited one.
DisplayedNodeIds(dummy) == IF dummy = NoChart THEN EditedChart ELSE dummy

\* nodeStatuses: of the nodes on the canvas, once the run's trace is there.
nodeStatuses(r, dummy) ==
    IF runDetails'[r] = NotFetched THEN {<<>>}
    ELSE {s \in [DisplayedNodeIds(dummy) -> NodeStatuses] :
             \A n \in DisplayedNodeIds(dummy) : s[n] \in getNodeRunStatus(runDetails'[r], n)}

\* The first effect of useRunsData: another selection empties the overlay.
\* Mutant: the dummy workflow of the run before stays until the new one is there.
KeepsDummy(dummy) == dummy
ClearedDummy(dummy) == NoChart

\* useRunsData's effects after a render, the render they cause included.
useRunsData(selectionChanged) ==
    LET before == IF selectionChanged THEN ClearedDummy(overlay.dummy) ELSE overlay.dummy
        parsed == IF selectedRun' = NoRun THEN NoChart ELSE parseWorkflowData(selectedRun')
        dummy == IF parsed = NoChart THEN before ELSE parsed
    IN IF ~runsTab' THEN UNCHANGED overlay
       ELSE IF selectedRun' = NoRun
       THEN IF selectionChanged
            THEN overlay' = [run |-> NoRun, dummy |-> NoChart, statuses |-> <<>>]
            ELSE UNCHANGED overlay
       ELSE \E s \in nodeStatuses(selectedRun', dummy) :
               overlay' = [run |-> selectedRun', dummy |-> dummy, statuses |-> s]

\* hasRunningOrQueuedRuns: the list is polled while a run in it is active, or for ever.
getRuns == [r \in RunIds |-> engine[r].status]
hasRunningOrQueuedRuns == \E r \in RunIds : getRuns[r] \in ActiveStatuses
PollRuns ==
    /\ runList \in {"absent", "active"} \/ KeepsPolling
    /\ runList' = IF hasRunningOrQueuedRuns THEN "active" ELSE "idle"
    /\ UNCHANGED <<engine, runDetails, runTrace, selectedRun, runsTab, nodeTips, overlay,
                   rsTurns, engineTurns>>

getRunData(r) == engine[r]

\* getRunDetails: asked for the selected run, and again while it is active.
PollRunDetails ==
    /\ runsTab /\ selectedRun # NoRun
    /\ runDetails[selectedRun] # NotFetched => runDetails[selectedRun].status \in ActiveStatuses
    /\ runDetails' = [runDetails EXCEPT ![selectedRun] = getRunData(selectedRun)]
    /\ UNCHANGED <<engine, runList, runTrace, selectedRun, runsTab, nodeTips, rsTurns, engineTurns>>
    /\ useRunsData(FALSE)

\* getTraceResult: asked once the trace names the output of get-workflow; an answer gone stale
\* is asked for again when the window is focused or the tab mounted.
QueryTraceResult ==
    /\ runsTab /\ selectedRun # NoRun
    /\ getWorkflowDataOutputId(runDetails[selectedRun])
    /\ runTrace' = [runTrace EXCEPT ![selectedRun] = traceResultAnswer(engine[selectedRun])]
    /\ UNCHANGED <<engine, runList, runDetails, selectedRun, runsTab, nodeTips, rsTurns, engineTurns>>
    /\ useRunsData(FALSE)

\* A click in RunsList, or the host's own choice; the host also lets go of a run.  A run newly
\* selected mounts the tab (useRunsAutoSelect).
SelectRun(r) ==
    /\ rsTurns < MaxRsTurns /\ r # selectedRun
    /\ selectedRun' = r /\ rsTurns' = rsTurns + 1
    /\ runsTab' = (runsTab \/ r # NoRun)
    /\ UNCHANGED <<engine, runList, runDetails, runTrace, nodeTips, engineTurns>>
    /\ useRunsData(TRUE)

\* The runs tab is opened, or left for another one.
SwitchTab ==
    /\ rsTurns < MaxRsTurns
    /\ runsTab' = ~runsTab /\ rsTurns' = rsTurns + 1
    /\ UNCHANGED <<engine, runList, runDetails, runTrace, selectedRun, nodeTips, engineTurns>>
    /\ useRunsData(TRUE)

\* getNodeOutputFromRunData: what goes with a status is read from another output of the trace.
\* Mutant: the execution span alone decides, and a span that ended is taken for a success.
SpanIsSuccess(run, n) == {IF run.span[n] = "Failed" THEN "Completed" ELSE s :
                             s \in getNodeRunStatus(run, n)}
NodeDetails(run, n) == getNodeRunStatus(run, n)

\* A node is hovered while a run is laid over it: its details are asked for when they are not
\* cached, or have gone stale, under the run's id and through the run's resolver.
HoverNode(n) ==
    /\ rsTurns < MaxRsTurns /\ rsTurns' = rsTurns + 1
    /\ overlay.run # NoRun /\ n \in DisplayedNodeIds(overlay.dummy)
    /\ \E s \in NodeDetails(getRunData(overlay.run), n) :
          nodeTips' = [nodeTips EXCEPT ![overlay.run][n] = s]
    /\ UNCHANGED <<engine, runList, runDetails, runTrace, selectedRun, runsTab, overlay, engineTurns>>

\* External: the engine runs the workflow.
EngineStep(r, run) ==
    /\ engineTurns < MaxEngineTurns /\ engineTurns' = engineTurns + 1
    /\ engine[r].status \in ActiveStatuses
    /\ engine' = [engine EXCEPT ![r] = run]
    /\ UNCHANGED <<runList, runDetails, runTrace, selectedRun, runsTab, nodeTips, overlay, rsTurns>>
GetsWorkflow(r) ==
    \/ engine[r].status = "Queued"
       /\ EngineStep(r, [engine[r] EXCEPT !.status = "Running", !.output = "pending"])
    \/ engine[r].output = "pending" /\ EngineStep(r, [engine[r] EXCEPT !.output = "saved"])
ExecutesNode(r, n, s) ==
    /\ engine[r].output = "saved" /\ n \in RunChart[r]
    /\ engine[r].emitted[n] = "none"
    /\ <<engine[r].span[n], s>> \in {<<"none", "Running">>, <<"Running", "Retrying">>,
          <<"Running", "Failed">>, <<"Running", "Completed">>, <<"Retrying", "Failed">>,
          <<"Retrying", "Completed">>}
    /\ EngineStep(r, [engine[r] EXCEPT !.span[n] = s])
\* A node whose dependencies fail is not executed; an emission may fail after the execution.
EmitsFor(r, n, e) ==
    /\ engine[r].output = "saved" /\ n \in RunChart[r]
    /\ engine[r].emitted[n] = "none"
    /\ <<engine[r].span[n], e>> \in {<<"none", "failure">>, <<"Failed", "failure">>,
          <<"Completed", "failure">>, <<"Completed", "completion">>}
    /\ EngineStep(r, [engine[r] EXCEPT !.emitted[n] = e])
EndsRun(r, s) ==
    /\ s = "Completed" => \A n \in RunChart[r] : engine[r].emitted[n] # "none"
    /\ EngineStep(r, [engine[r] EXCEPT !.status = s])

RsNext ==
    \/ PollRuns \/ PollRunDetails \/ QueryTraceResult \/ SwitchTab
    \/ \E r \in RunIds \cup {NoRun} : SelectRun(r)
    \/ \E n \in RsNodes : HoverNode(n)
    \/ \E r \in RunIds : GetsWorkflow(r) \/ \E s \in FinalStatuses : EndsRun(r, s)
    \/ \E r \in RunIds, n \in RsNodes :
          \/ \E s \in SpanStatuses : ExecutesNode(r, n, s)
          \/ \E e \in Emissions : EmitsFor(r, n, e)

RsSpec == RsInit /\ [][RsNext]_rsVars

RsTypeOK ==
    /\ \A r \in RunIds : engine[r].status \in ActiveStatuses \cup FinalStatuses
    /\ selectedRun \in RunIds \cup {NoRun} /\ overlay.run \in RunIds \cup {NoRun}
    /\ runsTab \in BOOLEAN /\ rsTurns \in 0..MaxRsTurns
    /\ engineTurns \in 0..MaxEngineTurns /\ runList \in {"absent", "active", "idle"}

\* The runs tab never lays one run over another.  While it is mounted the overlay is the selected
\* run's: a workflow shown in place of the edited one is the one that run was started with, with
\* no selection the edited workflow is shown, and a node shown as ended has ended in that very run
\* (of the nodes whose id is not part of another's: emissions are found by substring), and so do
\* the tooltips, however old their answers.  Left for another tab, the overlay still is of one run
\* (useRunsData, sidebar-runs-tab.tsx; getNodeRunStatus and getNodeOutputFromRunData, helpers.ts).
EndedIn(r, n, s) ==
    /\ s = "Completed" => engine[r].span[n] = "Completed"
    /\ s = "Failed" => engine[r].emitted[n] = "failure"
    /\ s = "Failing" => engine[r].span[n] = "Failed"
OverlayIsOfOneRun ==
    /\ runsTab => overlay.run = selectedRun
    /\ overlay.run = NoRun => overlay.dummy = NoChart /\ overlay.statuses = <<>>
    /\ overlay.dummy # NoChart => overlay.dummy = RunChart[overlay.run]
    /\ \A n \in {n \in RsNodes : \A m \in RsNodes \ {n} : <<n, m>> \notin InsideOf} :
          /\ n \in DOMAIN overlay.statuses => EndedIn(overlay.run, n, overlay.statuses[n])
          /\ \A r \in RunIds : nodeTips[r][n] # NotFetched => EndedIn(r, n, nodeTips[r][n])
===============================================================================
