--------------------------- MODULE MCWebPlatform ---------------------------
(***************************************************************************)
(* The parts around workflows and administration: the schedulers, the editor, *)
(* the executor and the runs; access rights, the scripts that set them up, and  *)
(* the administration pages.  One run checks them side by side, the initial       *)
(* state says which is at work.                                                    *)
(***************************************************************************)
EXTENDS CronScheduler, CronBuilder, WorkflowRun, WorkflowEditor, WorkflowBlocks, WorkflowRuns,
        ManualTrigger, AccessViews, LocalBootstrap, AuthzState, DataTable, ManagementPages, PackageStorage,
        TLC

CONSTANTS na, nb, nc, nd   \* model values

\* The parameters that are functions or sets of records.
MCSize == [minutes |-> 2, hours |-> 2, daysOfMonth |-> 2, months |-> 2, daysOfWeek |-> 2]
MCFirst == [minutes |-> 0, hours |-> 0, daysOfMonth |-> 1, months |-> 1, daysOfWeek |-> 0]
MCTexts == {<<Numbers(<<0>>), Numbers(<<0>>), Star, Star, Numbers(<<0>>)>>,
            <<Numbers(<<0>>), Numbers(<<1>>), Question, Star, [k |-> "1-5", v |-> <<1>>]>>,
            <<[k |-> "*/5", v |-> <<>>], Star, Star, Star, Star>>,
            <<Numbers(<<0>>), Star>>}
\* Three workflows of four nodes: a conditional merge of two branches, a chain with an event,
\* and a node that may time out waiting for an event before the one that uses its output.
From(n, handle, cond) == [from |-> n, handle |-> handle, cond |-> cond]
MCCharts ==
    {[deps |-> (na :> {}) @@ (nb :> {})
            @@ (nc :> {From(na, "output", "true"), From(nb, "success", "false")})
            @@ (nd :> {From(nc, "output", "none"), From(na, "event", "none")}),
      mode |-> (na :> "all") @@ (nb :> "all") @@ (nc :> "any") @@ (nd :> "all")],
     [deps |-> (na :> {}) @@ (nb :> {From(na, "success", "true")})
            @@ (nc :> {From(na, "event", "true"), From(nb, "event", "none")})
            @@ (nd :> {From(nb, "output", "none"), From(na, "event", "true"),
                       From(nc, "success", "none")}),
      mode |-> (na :> "all") @@ (nb :> "all") @@ (nc :> "any") @@ (nd :> "any")],
     [deps |-> (na :> {}) @@ (nb :> {From(na, "event", "none")}) @@ (nc :> {From(nb, "output", "none")})
            @@ (nd :> {}),
      mode |-> [n \in {na, nb, nc, nd} |-> "all"]]}
MCRunChart == [run1 |-> {"n1"}, run2 |-> {"n1", "n12"}]
MCInsideOf == {<<"n1", "n12">>}
ManifestEntry(methods, read, write) ==
    [methods |-> methods, read |-> read, write |-> write, known |-> TRUE]
MCManifests == {[k1 |-> ManifestEntry({"get", "set"}, {}, {}), k2 |-> ManifestEntry({"get", "set"}, {}, {})],
                [k1 |-> ManifestEntry({"get", "set"}, {"set"}, {})],
                [k2 |-> ManifestEntry({"get"}, {"get"}, {"get"})]}
MCKind == [name |-> "text", level |-> "range", tag |-> "multiSelect", factoryId |-> "select",
           since |-> "date"]
MCJoined == ("foo" :> "foo") @@ ("foo bar" :> "foo,bar") @@ ("foo,bar" :> "foo,bar")

\* A release of one service in two versions, and an object beside them that is no release.
Released(version) == <<"svc", version, "arm", "file">>
MCDevicePaths == {<<"log">>, <<"..", "d2", "log">>}
MCPackagePaths == {Released("1.9.0"), Released("1.10.0")}
MCEarlier == {{}, {<<"device-packages">> \o path : path \in MCPackagePaths \cup {Released("latest")}}}
MCServiceNames == {<<>>, <<"svc", "">>}
MCSemver == ("1.9.0" :> <<1, 9, 0>>) @@ ("1.10.0" :> <<1, 10, 0>>)
MCAlphabet == <<"1.10.0", "1.9.0", "arm", "file", "svc">>
MCSlots == {<<"s1", 1>>, <<"s1", 2>>, <<"s2", 1>>}

VARIABLE part   \* the component at work: it does not change

Parts == {"scheduler", "schedule", "executor", "editor", "blocks", "runs",
          "manual", "access", "bootstrap", "authz", "table", "pages", "storage"}

\* A component that is not at work holds no state.
CsOff ==
    /\ stored = 0 /\ announced = 0 /\ scheduled = 0 /\ pass = 0
    /\ job = 0 /\ serving = 0 /\ edits = 0 /\ passed = 0
    /\ settled = 0
CbOff ==
    /\ cbStored = 0 /\ cbForm = 0 /\ cbEntered = 0 /\ cbByHand = 0
    /\ cbTurns = 0
WfOff ==
    /\ chart = 0 /\ stage = 0 /\ outcome = 0 /\ results = 0
    /\ heard = 0 /\ arrived = 0 /\ source = 0 /\ awaiting = 0
    /\ fired = 0 /\ expired = 0
EdOff ==
    /\ config = 0 /\ links = 0 /\ readOnly = 0 /\ layouts = 0
    /\ mutations = 0 /\ todo = 0 /\ triggerRows = 0 /\ callbackFailed = 0
    /\ chartEdits = 0
WbOff ==
    /\ raw = 0 /\ wires = 0 /\ scope = 0 /\ preview = 0
    /\ saving = 0 /\ dropping = 0 /\ library = 0 /\ blockEdits = 0
RsOff ==
    /\ engine = 0 /\ runList = 0 /\ runDetails = 0 /\ runTrace = 0
    /\ selectedRun = 0 /\ runsTab = 0 /\ nodeTips = 0 /\ overlay = 0
    /\ rsTurns = 0 /\ engineTurns = 0
MtOff ==
    /\ savedTriggers = 0 /\ triggerList = 0 /\ listLoading = 0 /\ runDialog = 0
    /\ posted = 0 /\ startedRuns = 0 /\ typedFor = 0 /\ mtEdits = 0
    /\ mtTurns = 0
AcOff ==
    /\ rowParent = 0 /\ installed = 0 /\ bare = 0 /\ catalogued = 0 /\ tuples = 0
    /\ acTodo = 0 /\ seen = 0 /\ begun = 0 /\ disturbed = 0 /\ crossed = 0
LbOff ==
    /\ lbRows = 0 /\ lbTuples = 0 /\ lbCatalog = 0 /\ sysadmin = 0
    /\ manifest = 0 /\ script = 0 /\ lbStep = 0 /\ sysStep = 0
    /\ staleKeys = 0 /\ leaving = 0 /\ lbRun = 0 /\ handMade = 0
FgaOff ==
    /\ fgaModel = 0 /\ boot = 0 /\ waitsFor = 0 /\ fgaFaults = 0
    /\ hadStore = 0
DtOff ==
    /\ dtFilters = 0 /\ dtDue = 0 /\ dtUrl = 0 /\ dtShown = 0
    /\ dtDropped = 0 /\ dtPagedUnder = 0 /\ dtTurns = 0
MpOff ==
    /\ mpTab = 0 /\ mpServer = 0 /\ mpRows = 0 /\ mpCached = 0
    /\ mpDialog = 0 /\ mpCalls = 0 /\ mpRefresh = 0 /\ mpRefetch = 0 /\ mpRead = 0
    /\ mpStray = 0 /\ mpMade = 0
PsOff ==
    /\ provider = 0 /\ bucket = 0 /\ objects = 0 /\ check = 0
    /\ asks = 0 /\ signed = 0 /\ listing = 0 /\ asked = 0
    /\ psFaults = 0

Init ==
    /\ part \in Parts
    /\ IF part = "scheduler" THEN CsInit ELSE CsOff
    /\ IF part = "schedule" THEN CbInit ELSE CbOff
    /\ IF part = "executor" THEN WfInit ELSE WfOff
    /\ IF part = "editor" THEN EdInit ELSE EdOff
    /\ IF part = "blocks" THEN WbInit ELSE WbOff
    /\ IF part = "runs" THEN RsInit ELSE RsOff
    /\ IF part = "manual" THEN MtInit ELSE MtOff
    /\ IF part = "access" THEN AcInit ELSE AcOff
    /\ IF part = "bootstrap" THEN LbInit ELSE LbOff
    /\ IF part = "authz" THEN FgaInit ELSE FgaOff
    /\ IF part = "table" THEN DtInit ELSE DtOff
    /\ IF part = "pages" THEN MpInit ELSE MpOff
    /\ IF part = "storage" THEN PsInit ELSE PsOff

OthersOff(p) ==
    /\ UNCHANGED part
    /\ IF p = "scheduler" THEN TRUE ELSE UNCHANGED csVars
    /\ IF p = "schedule" THEN TRUE ELSE UNCHANGED cbVars
    /\ IF p = "executor" THEN TRUE ELSE UNCHANGED wfVars
    /\ IF p = "editor" THEN TRUE ELSE UNCHANGED edVars
    /\ IF p = "blocks" THEN TRUE ELSE UNCHANGED wbVars
    /\ IF p = "runs" THEN TRUE ELSE UNCHANGED rsVars
    /\ IF p = "manual" THEN TRUE ELSE UNCHANGED mtVars
    /\ IF p = "access" THEN TRUE ELSE UNCHANGED acVars
    /\ IF p = "bootstrap" THEN TRUE ELSE UNCHANGED lbVars
    /\ IF p = "authz" THEN TRUE ELSE UNCHANGED fgaVars
    /\ IF p = "table" THEN TRUE ELSE UNCHANGED dtVars
    /\ IF p = "pages" THEN TRUE ELSE UNCHANGED mpVars
    /\ IF p = "storage" THEN TRUE ELSE UNCHANGED psVars

CsStep == part = "scheduler" /\ OthersOff("scheduler") /\ CsNext
CbStep == part = "schedule" /\ OthersOff("schedule") /\ CbNext
WfStep == part = "executor" /\ OthersOff("executor") /\ WfNext
EdStep == part = "editor" /\ OthersOff("editor") /\ EdNext
WbStep == part = "blocks" /\ OthersOff("blocks") /\ WbNext
RsStep == part = "runs" /\ OthersOff("runs") /\ RsNext
MtStep == part = "manual" /\ OthersOff("manual") /\ MtNext
AcStep == part = "access" /\ OthersOff("access") /\ AcNext
LbStep == part = "bootstrap" /\ OthersOff("bootstrap") /\ LbNext
FgaStep == part = "authz" /\ OthersOff("authz") /\ FgaNext
DtStep == part = "table" /\ OthersOff("table") /\ DtNext
MpStep == part = "pages" /\ OthersOff("pages") /\ MpNext
PsStep == part = "storage" /\ OthersOff("storage") /\ PsNext

Next ==
    \/ CsStep
    \/ CbStep
    \/ WfStep
    \/ EdStep
    \/ WbStep
    \/ RsStep
    \/ MtStep
    \/ AcStep
    \/ LbStep
    \/ FgaStep
    \/ DtStep
    \/ MpStep
    \/ PsStep

vars == <<part, csVars, cbVars, wfVars, edVars, wbVars, rsVars, mtVars, acVars, lbVars, fgaVars,
          dtVars, mpVars, psVars>>

Spec == Init /\ [][Next]_vars

\* Each component's variables have their types (the tables, caches and state hooks of the
\* modules named above).
WebPlatformTypeOK ==
    /\ part = "scheduler" => CsTypeOK
    /\ part = "schedule" => CbTypeOK
    /\ part = "executor" => WfTypeOK
    /\ part = "editor" => EdTypeOK
    /\ part = "blocks" => WbTypeOK
    /\ part = "runs" => RsTypeOK
    /\ part = "manual" => MtTypeOK
    /\ part = "access" => AcTypeOK
    /\ part = "bootstrap" => LbTypeOK
    /\ part = "authz" => FgaTypeOK
    /\ part = "table" => DtTypeOK
    /\ part = "pages" => MpTypeOK
    /\ part = "storage" => PsTypeOK

\* What the editor stores is what was drawn: the trigger rows mirror the chart once the
\* callbacks have run and none has failed, collapsing nodes into blocks and back neither loses
\* nor bends an edge, a schedule survives reopening its builder, and one reconcile pass that no
\* change overlapped leaves exactly the stored triggers scheduled, each job retried within its
\* attempts (use-fluxery-editor-state.ts, block-utils.ts, cron-builder.tsx, reconciler.ts and
\* queue.ts).
WorkflowIsKeptAsDrawn ==
    /\ part = "editor" => TriggersMirrorChart
    /\ part = "blocks" => ProjectionIsFaithful
    /\ part = "schedule" => ScheduleSurvivesReopening
    /\ part = "scheduler" => ReconciledAndRetried

\* A run does, and shows, what its chart and its starter say: nodes execute only on satisfied
\* dependencies and are skipped only for a reason, a run started by hand fires the trigger that
\* was confirmed, with a payload its schema accepts that was not typed for another trigger the
\* user had picked (the default trigger may get one typed for another), and the run laid over the
\* canvas is the one selected (workflowAutomation.ts, workflow-run-button.tsx,
\* sidebar-runs-tab.tsx).
RunIsWhatTheChartSays ==
    /\ part = "executor" => RunsWhatItsChartAllows
    /\ part = "manual" => RunsWhatWasConfirmed
    /\ part = "runs" => OverlayIsOfOneRun

\* What OpenFGA grants follows what the database holds: once handlers have ended, the tuples
\* mirror the rows of every object none of whose requests overlapped or failed (but installations
\* the bootstrap made have no child tuple), the bootstrap scripts converge however often they
\* died, and a request is only served under this release's authorization model
\* (lib/authz/mutations.ts and the access-control router, local-db-bootstrap.ts,
\* seed-demo-data.ts, openfga-state.ts).
AccessFollowsTheRows ==
    /\ part = "access" => TuplesMirrorRows
    /\ part = "bootstrap" => BootstrapConverges
    /\ part = "authz" => RequestsGetUsableState

\* An administration page and its table come to rest on what was asked and saved: the query
\* string holds the filters the controls show, with a page chosen under them (a clearing that
\* another change replaced within the debounce time stays in it), and the rows, assignments and
\* installations shown are the server's after any overlapping calls, refreshes and dialogs,
\* unless another browser or a call whose answer was lost changed them, or a call was made while
\* its dialog was loading for the first time (use-data-table.ts, the access-control pages).
PagesShowWhatWasAsked ==
    /\ part = "table" => UrlFollowsControls
    /\ part = "pages" => PageShowsWhatWasSaved

\* What is computed from the stored data is exact: the validator accepts exactly the charts that
\* can run, every entry a page shows opens, with as many entries as the links to factories,
\* departments and devices announce (a device page's counts of other devices apart), a list of
\* the schedule builder ticks each value once, a device's storage sessions are for objects of its row alone and
\* outlive a failed check of the bucket, and the catalogue shows the releases stored, the newest
\* first (workflow-validator.ts, the workspace and access-control routers, cron-builder.tsx,
\* package-artifacts.ts).
AnswersAreExact ==
    /\ part = "editor" => ValidatorIsExact
    /\ part = "access" => PagesAgree
    /\ part = "schedule" => ListsHoldNoValueTwice
    /\ part = "storage" => SignedForItsOwner /\ ListingIsComplete
=============================================================================
