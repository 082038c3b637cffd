--------------------------- MODULE WorkflowEditor ---------------------------
(***************************************************************************)
(* The state of the workflow editor                                        *)
(* (trakrai-workflow-ui/src/ui/use-fluxery-editor-state.ts with the        *)
(* configuration panel, the edges, the layout) and the life-cycle          *)
(* callbacks of the trigger nodes, which keep the host's list of triggers  *)
(* equal to the trigger nodes of the chart.                                *)
(*                                                                         *)
(* Every edit commits a new chart; the effect that follows compares it     *)
(* with the one before, and appends the callbacks of what changed to a     *)
(* promise chain, where they run one after the other.  A layout computes   *)
(* from the chart it was started on and puts those nodes back when it is   *)
(* done; the elk engine takes long enough for edits to come between.       *)
(***************************************************************************)
EXTENDS WorkflowGraph, Naturals, Sequences, SequencesExt

CONSTANTS EdTriggers,  \* ids of trigger nodes; 1 and 2 are registered events, or schemas
          EdManual,    \* the manual ones among them, the others wait for an event
          EdTasks,     \* ids of nodes with the input field "x"
          EdAsync,     \* the async ones among them
          MaxChartEdits

ASSUME EdAssumption ==
    /\ IsFiniteSet(EdTriggers) /\ EdTriggers \cap EdTasks = {}
    /\ MaxChartEdits \in Nat

EdNodes == EdTriggers \cup EdTasks
Gone == 9                       \* the node, or its row, has been deleted
NotYet == 8                     \* an id that has not been drawn yet

VARIABLES
    config,      \* data.configuration of a node: NotYet, Gone, 0 when unset (or an
                 \* event that is not registered), or its value
    links,       \* edges
    readOnly,    \* a run or a dummy workflow is shown
    layouts,     \* the nodes a running layout has started from, or <<>>
    mutations,   \* the promise chain: pairs of charts to compare
    todo,        \* the callbacks left of the pair that is being dispatched
    triggerRows, \* what the host has stored for each trigger node
    callbackFailed, chartEdits

edVars == <<config, links, readOnly, layouts, mutations, todo, triggerRows, callbackFailed, chartEdits>>

Exists(v) == v \notin {NotYet, Gone}
Present == {n \in EdNodes : Exists(config[n])}

Edge == [from : EdNodes, to : EdTasks, handle : {"x", "trigger"}]

\* The output a target's input can take: any task's, and that of event 1.
Fits == {e \in Edge : e.from \in EdTasks \/ config[e.from] = 1}

\* The row a trigger node stands for: getPersistedEventName of an event trigger
\* with a registered event, the payload schema (null as 0) of a manual one.
Persisted(n, v) == IF v \in {1, 2} \/ (n \in EdManual /\ v = 0) THEN v ELSE Gone

EdInit ==
    /\ config \in {[n \in EdNodes |-> IF n \in EdTriggers THEN 1 ELSE 0],
                   [n \in EdNodes |-> NotYet]}
    /\ links \in {{}} \cup {{e} : e \in {f \in Edge : {f.from, f.to} \subseteq Present}}
    /\ readOnly = FALSE
    /\ layouts = <<>>
    /\ mutations = <<>> /\ todo = <<>>
    /\ triggerRows = [n \in EdTriggers |-> Persisted(n, config[n])]
    /\ callbackFailed = FALSE
    /\ chartEdits = 0

-----------------------------------------------------------------------------
\* getNodeMutations: removals first, then additions and changes of the data.
getNodeMutations(old, new) ==
    LET removed == {n \in EdTriggers : Exists(old[n]) /\ ~Exists(new[n])}
        others == {n \in EdTriggers : Exists(new[n]) /\ old[n] # new[n]}
        order == SetToSeq(removed) \o SetToSeq(others)
    IN [i \in DOMAIN order |-> <<order[i], old[order[i]], new[order[i]]>>]

\* A commit of new nodes and edges, and the effect that runs after it.
Commit(nodes, edges) ==
    /\ config' = nodes
    /\ links' = edges
    /\ mutations' = IF getNodeMutations(config, nodes) = <<>> THEN mutations
                    ELSE Append(mutations, <<config, nodes>>)
    /\ UNCHANGED <<todo, triggerRows, callbackFailed>>

Edit(nodes, edges) ==
    /\ ~readOnly /\ chartEdits < MaxChartEdits
    /\ chartEdits' = chartEdits + 1
    /\ Commit(nodes, edges)
    /\ UNCHANGED <<readOnly, layouts>>

\* addNode: a fresh id, without configuration.
addNode(n) ==
    /\ config[n] = NotYet
    /\ Edit([config EXCEPT ![n] = 0], links)

\* React Flow (external) deletes the edges of the nodes it deletes.
DeleteNodes(S) ==
    /\ S # {} /\ S \subseteq Present
    /\ Edit([n \in EdNodes |-> IF n \in S THEN Gone ELSE config[n]],
            {e \in links : e.from \notin S /\ e.to \notin S})

\* The handler's own field, with its special editor.
updateFieldValue(n, v) ==
    /\ n \in EdTriggers \cap Present /\ v # config[n]
    /\ Edit([config EXCEPT ![n] = v], links)

\* An input's field can be added or removed where no edge is connected.
ToggleField(n) ==
    /\ n \in EdTasks \cap Present
    /\ ~\E e \in links : e.to = n /\ e.handle = "x"
    /\ Edit([config EXCEPT ![n] = 1 - @], links)

connectNodes(e) ==
    /\ e \notin links
    /\ e.to \in Present
    /\ validateConnection(e, Present, config, links, Fits)
    /\ Edit(config, links \cup {e})

\* The panel removes a connected input together with its configuration.
removeConnectedInput(n) ==
    /\ n \in EdTasks \cap Present
    /\ \E e \in links : e.to = n /\ e.handle = "x"
    /\ Edit([config EXCEPT ![n] = 0], {e \in links : e.to # n \/ e.handle # "x"})

DeleteEdge(e) ==
    /\ e \in links
    /\ Edit(config, links \ {e})

onLayout ==
    /\ ~readOnly /\ layouts = <<>>
    /\ layouts' = <<config>>
    /\ UNCHANGED <<config, links, readOnly, mutations, todo, triggerRows, callbackFailed, chartEdits>>

\* The engine is done: setNodes puts back the nodes it was given.
LayoutDone ==
    /\ layouts # <<>>
    /\ layouts' = <<>>
    /\ Commit([n \in EdNodes |-> IF Head(layouts)[n] = NotYet /\ config[n] # NotYet
                                 THEN Gone ELSE Head(layouts)[n]], links)
    /\ UNCHANGED <<readOnly, chartEdits>>

\* setNodeRunPresentation and clearNodeRunPresentation, or the dummy workflow.
ShowRun ==
    /\ readOnly' = ~readOnly
    /\ UNCHANGED <<config, links, layouts, mutations, todo, triggerRows, callbackFailed, chartEdits>>

\* Mutant: a node whose event has been cleared is taken as unchanged.
KeepsRow(c) ==
    IF ~Exists(c[3]) THEN Gone
    ELSE IF Persisted(c[1], c[3]) = Gone THEN triggerRows[c[1]] ELSE Persisted(c[1], c[3])

\* onNodeAdded, onNodeRemoved, onNodeUpdated of the event trigger's handler.
RowAfter(c) ==
    IF ~Exists(c[3]) THEN Gone
    ELSE IF Persisted(c[1], c[2]) = Persisted(c[1], c[3]) THEN triggerRows[c[1]]
    ELSE Persisted(c[1], c[3])

\* The next link of the promise chain starts when the one before has ended.
dispatchNodeMutationCallbacks ==
    /\ todo = <<>> /\ mutations # <<>>
    /\ todo' = getNodeMutations(Head(mutations)[1], Head(mutations)[2])
    /\ mutations' = Tail(mutations)
    /\ UNCHANGED <<config, links, readOnly, layouts, triggerRows, callbackFailed, chartEdits>>

Callback ==
    /\ todo # <<>>
    /\ triggerRows' = [triggerRows EXCEPT ![Head(todo)[1]] = RowAfter(Head(todo))]
    /\ todo' = Tail(todo)
    /\ UNCHANGED <<config, links, readOnly, layouts, mutations, callbackFailed, chartEdits>>

\* A callback that throws ends its dispatch; the error is reported and dropped.
CallbackThrows ==
    /\ todo # <<>>
    /\ todo' = <<>>
    /\ callbackFailed' = TRUE
    /\ UNCHANGED <<config, links, readOnly, layouts, mutations, triggerRows, chartEdits>>

EdNext ==
    \/ \E n \in EdNodes : addNode(n) \/ ToggleField(n) \/ removeConnectedInput(n)
                          \/ \E v \in 0..2 : updateFieldValue(n, v)
    \/ \E S \in SUBSET EdNodes : DeleteNodes(S)
    \/ \E e \in Edge : connectNodes(e) \/ DeleteEdge(e)
    \/ onLayout \/ LayoutDone \/ ShowRun
    \/ dispatchNodeMutationCallbacks \/ Callback \/ CallbackThrows

EdSpec == EdInit /\ [][EdNext]_edVars

-----------------------------------------------------------------------------
EdTypeOK ==
    /\ config \in [EdNodes -> {0, 1, 2, NotYet, Gone}]
    /\ links \subseteq Edge
    /\ readOnly \in BOOLEAN /\ callbackFailed \in BOOLEAN
    /\ triggerRows \in [EdTriggers -> {0, 1, 2, Gone}]
    /\ Len(layouts) <= 1 /\ chartEdits \in 0..MaxChartEdits

(***************************************************************************)
(* Once the promise chain has drained and no callback has failed, the host *)
(* knows exactly the trigger nodes of the chart and the events they are    *)
(* set to, however edits, deletions and late layouts were interleaved      *)
(* with the callbacks.                                                     *)
(***************************************************************************)
TriggersMirrorChart ==
    mutations = <<>> /\ todo = <<>> /\ ~callbackFailed =>
        \A n \in EdTriggers : triggerRows[n] = Persisted(n, config[n])

(***************************************************************************)
(* The validator accepts exactly the charts that can be run: no cycle, no  *)
(* edge to a node that is gone, an input for every task; and its async     *)
(* barriers are the nearest async nodes upstream.  The editor never gives  *)
(* an input two edges, also when a late layout puts deleted nodes back.    *)
(***************************************************************************)
ValidatorIsExact ==
    LET deps == buildDependencyMap(EdNodes, links) IN
    /\ validateWorkflow(EdNodes, Present, EdTasks, config, links) <=>
         \/ Present = {}
         \/ /\ ~Cyclic(EdNodes, deps)
            /\ \A e \in links : {e.from, e.to} \subseteq Present
            /\ \A n \in EdTasks \cap Present :
                 config[n] = 0 => \E e \in links : e.to = n /\ e.handle = "x"
    /\ \A n \in Present : buildAsyncDependencyMap(Present, deps, EdAsync)[n]
                            = NearestAsync(EdNodes, deps, EdAsync, n)
    /\ \A n \in EdTasks : Cardinality({e \in links : e.to = n /\ e.handle = "x"}) <= 1
=============================================================================
