----------------------------- MODULE ManualTrigger -----------------------------
(***************************************************************************)
(* Running a workflow by hand.  The editor keeps a row for each manual trigger  *)
(* node; the Run button lists the rows, lets the user pick one, fill in its       *)
(* payload and post it to /trigger/manual, which starts a run naming that node.    *)
(* Without a row it posts at once and names none.  The list may change, or fail      *)
(* to load, at any time, and an answer may be lost after the run has started.          *)
(***************************************************************************)
EXTENDS Naturals, FiniteSets

CONSTANTS TriggerNodes,
          PayloadSchemas,  \* what a trigger asks for; a payload satisfies one of them
          MaxMtEdits,      \* bound: changes of the workflow's triggers
          MaxMtTurns,      \* bound: what the user does with the button
          NoSchema,        \* payloadSchema null: any payload will do
          NoNodeId, NoPayload, NoTrigger, Idling

ASSUME MtAssumption == /\ NoNodeId \notin TriggerNodes /\ NoTrigger \notin TriggerNodes
                       /\ MaxMtEdits \in Nat /\ MaxMtTurns \in Nat

VARIABLES savedTriggers,   \* the persisted triggers and the schema of each
          triggerList,   \* the cached answer of listTriggers; a failed query leaves it empty
          listLoading,   \* no answer yet
          runDialog,     \* open, the node picked, the payload typed, the error shown
          posted,        \* the request under way (isSubmitting while there is one)
          startedRuns,   \* the runs started: what each names, and what the user had confirmed
          typedFor,      \* history: the trigger picked when the payload was typed
          mtEdits, mtTurns

mtVars == <<savedTriggers, triggerList, listLoading, runDialog, posted, startedRuns, typedFor,
            mtEdits, mtTurns>>

NoTriggers == [n \in {} |-> NoSchema]
Accepts(schema, payload) == schema = NoSchema \/ schema = payload
isSubmitting == posted # Idling

MtInit ==
    /\ savedTriggers \in {NoTriggers} \cup {[n \in {t} |-> NoSchema] : t \in TriggerNodes}
    /\ triggerList = NoTriggers /\ listLoading = TRUE
    /\ runDialog = [open |-> FALSE, node |-> NoNodeId, payload |-> NoPayload, error |-> FALSE]
    /\ posted = Idling
    /\ startedRuns = {}
    /\ typedFor = NoTrigger
    /\ mtEdits = 0 /\ mtTurns = 0

EditsTriggers(rows) ==
    /\ mtEdits < MaxMtEdits
    /\ mtEdits' = mtEdits + 1
    /\ savedTriggers' = rows
    /\ UNCHANGED <<triggerList, listLoading, runDialog, posted, startedRuns, typedFor, mtTurns>>

\* onNodeAdded and onNodeUpdated save the row; an update only when the schema changed.
saveTrigger(n, schema) ==
    /\ n \in DOMAIN savedTriggers => savedTriggers[n] # schema
    /\ EditsTriggers([m \in DOMAIN savedTriggers \cup {n} |->
                         IF m = n THEN schema ELSE savedTriggers[m]])
\* onNodeRemoved deletes it.
deleteTrigger(n) ==
    /\ n \in DOMAIN savedTriggers
    /\ EditsTriggers([m \in DOMAIN savedTriggers \ {n} |-> savedTriggers[m]])

\* listTriggers answers, at first or after an invalidation; or its first request fails for good.
listTriggers ==
    /\ \/ triggerList' = savedTriggers
       \/ listLoading /\ UNCHANGED triggerList
    /\ listLoading' = FALSE
    /\ UNCHANGED <<savedTriggers, runDialog, posted, startedRuns, typedFor, mtEdits, mtTurns>>

\* The trigger whose form is shown: the one picked, or the only one there is.
selectedTrigger ==
    LET id == IF runDialog.node # NoNodeId THEN runDialog.node
              ELSE IF Cardinality(DOMAIN triggerList) = 1
              THEN CHOOSE n \in DOMAIN triggerList : TRUE ELSE NoNodeId
    IN IF id \in DOMAIN triggerList THEN id ELSE NoTrigger

Clicks ==
    /\ mtTurns < MaxMtTurns
    /\ mtTurns' = mtTurns + 1
    /\ UNCHANGED <<savedTriggers, triggerList, listLoading, startedRuns, mtEdits>>

\* resetDialogState with the node picked set: payload and error go.
\* Mutant: the payload stays in the form when another trigger is picked.
KeepsPayload(open, n) ==
    runDialog' = [open |-> open, node |-> n, payload |-> runDialog.payload, error |-> FALSE]
resetDialogState(open, n) ==
    runDialog' = [open |-> open, node |-> n, payload |-> NoPayload, error |-> FALSE]

runWorkflow(n, payload) ==
    /\ posted' = [node |-> n, payload |-> payload, typed |-> typedFor, listed |-> triggerList,
                  sent |-> FALSE]
    /\ runDialog' = [runDialog EXCEPT !.error = FALSE]

\* The Run button is disabled while the list loads and while a request is under way.
handleRunClick ==
    /\ ~listLoading /\ ~isSubmitting /\ ~runDialog.open
    /\ Clicks
    /\ IF triggerList = NoTriggers
       THEN runWorkflow(NoNodeId, NoPayload) /\ UNCHANGED typedFor
       ELSE /\ resetDialogState(TRUE, IF Cardinality(DOMAIN triggerList) = 1
                                      THEN CHOOSE n \in DOMAIN triggerList : TRUE ELSE NoNodeId)
            /\ typedFor' = NoTrigger /\ UNCHANGED posted

ShowsTriggerList == selectedTrigger = NoTrigger /\ Cardinality(DOMAIN triggerList) > 1

\* A trigger of the list is picked.
PickTrigger(n) ==
    /\ runDialog.open /\ ShowsTriggerList /\ n \in DOMAIN triggerList
    /\ Clicks
    /\ resetDialogState(TRUE, n)
    /\ typedFor' = IF runDialog'.payload = NoPayload THEN NoTrigger ELSE typedFor
    /\ UNCHANGED posted

\* Back To Trigger List, and Cancel (or closing the dialog): none waits for a request.
BackToList ==
    /\ runDialog.open /\ selectedTrigger # NoTrigger /\ Cardinality(DOMAIN triggerList) > 1
    /\ Clicks
    /\ resetDialogState(TRUE, NoNodeId)
    /\ typedFor' = IF runDialog'.payload = NoPayload THEN NoTrigger ELSE typedFor
    /\ UNCHANGED posted
CancelDialog ==
    /\ runDialog.open
    /\ Clicks
    /\ resetDialogState(FALSE, NoNodeId)
    /\ typedFor' = NoTrigger
    /\ UNCHANGED posted

\* The form's onChange.
TypePayload(p) ==
    /\ runDialog.open /\ ~ShowsTriggerList
    /\ Clicks
    /\ runDialog' = [runDialog EXCEPT !.payload = p]
    /\ typedFor' = runDialog.node
    /\ UNCHANGED posted

\* handleSubmit: the payload is checked against the schema listed.
handleSubmit ==
    /\ runDialog.open /\ selectedTrigger # NoTrigger /\ ~isSubmitting
    /\ Clicks
    /\ UNCHANGED typedFor
    /\ IF Accepts(triggerList[selectedTrigger], runDialog.payload)
       THEN runWorkflow(selectedTrigger, runDialog.payload)
       ELSE runDialog' = [runDialog EXCEPT !.error = TRUE] /\ UNCHANGED posted

\* The HTTP plugin: a run is started that names the node, whatever the rows hold by now.
manualTriggerHTTPPlugin ==
    /\ isSubmitting /\ ~posted.sent
    /\ startedRuns' = startedRuns \cup {[trigger |-> posted.node, data |-> posted.payload,
                                         typed |-> posted.typed, listed |-> posted.listed]}
    /\ posted' = [posted EXCEPT !.sent = TRUE]
    /\ UNCHANGED <<savedTriggers, triggerList, listLoading, runDialog, typedFor, mtEdits, mtTurns>>

\* runWorkflow goes on: success closes the dialog; a refusal or a lost answer shows an error.
RunAnswered(ok) ==
    /\ isSubmitting
    /\ ok => posted.sent
    /\ posted' = Idling
    /\ IF ok THEN resetDialogState(FALSE, NoNodeId) /\ typedFor' = NoTrigger
       ELSE runDialog' = [runDialog EXCEPT !.error = TRUE] /\ UNCHANGED typedFor
    /\ UNCHANGED <<savedTriggers, triggerList, listLoading, startedRuns, mtEdits, mtTurns>>

MtNext ==
    \/ \E n \in TriggerNodes : \/ deleteTrigger(n) \/ PickTrigger(n)
                               \/ \E s \in PayloadSchemas \cup {NoSchema} : saveTrigger(n, s)
    \/ listTriggers \/ handleRunClick \/ BackToList \/ CancelDialog \/ handleSubmit
    \/ manualTriggerHTTPPlugin
    \/ \E p \in PayloadSchemas : TypePayload(p)
    \/ \E ok \in BOOLEAN : RunAnswered(ok)

MtSpec == MtInit /\ [][MtNext]_mtVars

MtTypeOK ==
    /\ DOMAIN savedTriggers \subseteq TriggerNodes /\ DOMAIN triggerList \subseteq TriggerNodes
    /\ runDialog.open \in BOOLEAN /\ runDialog.node \in TriggerNodes \cup {NoNodeId}
    /\ mtEdits \in 0..MaxMtEdits /\ mtTurns \in 0..MaxMtTurns

\* execute: a trigger node runs only when the run names it.
execute(run, n) == run.trigger = n

\* A run started by hand is what the user confirmed, however the list of triggers changed
\* meanwhile: at most one trigger node of the workflow runs in it, that node was listed and its
\* listed schema accepts the payload; a payload typed after a trigger was picked goes to that
\* trigger and no other; and a run that names no node was started from an empty list, without a
\* payload (workflow-run-button.tsx, manual-trigger-api.ts).
RunsWhatWasConfirmed ==
    \A run \in startedRuns :
       LET active == {n \in TriggerNodes : execute(run, n)} IN
       /\ Cardinality(active) <= 1
       /\ \A n \in active : n \in DOMAIN run.listed /\ Accepts(run.listed[n], run.data)
       /\ run.typed \in TriggerNodes /\ run.data # NoPayload => run.typed \in active
       /\ active = {} => run.listed = NoTriggers /\ run.data = NoPayload
===============================================================================
