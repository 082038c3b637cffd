--------------------------- MODULE WorkflowGraph ---------------------------
(***************************************************************************)
(* The checks on a workflow chart that the editor makes for one connection *)
(* and the executor for the whole chart before a run                       *)
(* (trakrai-workflow-core/src/core/validation), next to what they ought to *)
(* compute.  A chart has nodes (a set), config (the input fields set on    *)
(* the node; a node has the one field "x") and edges.                      *)
(***************************************************************************)
EXTENDS FiniteSets, FiniteSetsExt

\* One dependency per edge; the map has an entry for every edge's target.
buildDependencyMap(ids, edges) ==
    [n \in ids |-> {e.from : e \in {f \in edges : f.to = n}}]

(***************************************************************************)
(* The depth-first search: a node met again while it is still being        *)
(* visited ends the search with an error.                                  *)
(***************************************************************************)
visit(deps, root, before) ==
    LET ids == DOMAIN deps
        from[n \in ids, st \in [visited : SUBSET ids, visiting : SUBSET ids, error : BOOLEAN]] ==
            IF st.error \/ n \in st.visited THEN st
            ELSE IF n \in st.visiting THEN [st EXCEPT !.error = TRUE]
            ELSE LET sources == FoldSet(LAMBDA m, s : from[m, s],
                                        [st EXCEPT !.visiting = @ \cup {n}], deps[n])
                 IN IF sources.error THEN sources
                    ELSE [sources EXCEPT !.visiting = @ \ {n}, !.visited = @ \cup {n}]
    IN from[root, before]

\* Mutant: a node that is being visited counts as visited.
AcceptsBackEdges(nodes, deps) == TRUE

topologicalSort(nodes, deps) ==
    ~FoldSet(LAMBDA n, s : visit(deps, n, s),
             [visited |-> {}, visiting |-> {}, error |-> FALSE], nodes).error

\* Upwards from n, not past an async node.
walk(deps, async, root, before) ==
    LET ids == DOMAIN deps
        up[n \in ids, st \in [visited : SUBSET ids, barriers : SUBSET ids]] ==
            IF n \in st.visited THEN st
            ELSE FoldSet(LAMBDA m, s : IF m \in async THEN [s EXCEPT !.barriers = @ \cup {m}] ELSE up[m, s],
                         [st EXCEPT !.visited = @ \cup {n}], deps[n])
    IN up[root, before]

buildAsyncDependencyMap(nodes, deps, async) ==
    [n \in nodes |-> walk(deps, async, n, [visited |-> {}, barriers |-> {}]).barriers]

\* The one input of a task must come from its configuration or from an edge.
validateNodeInputs(n, needsInput, config, edges) ==
    n \in needsInput =>
        config[n] # 0 \/ \E e \in edges : e.to = n /\ e.handle = "x"

\* The chart's ids are a set and its types are registered, as the editor keeps them: the checks
\* for repeated ids and for missing or unknown types would find nothing and are left out.
validateWorkflow(ids, nodes, needsInput, config, edges) ==
    \/ nodes = {}
    \/ /\ topologicalSort(nodes, buildDependencyMap(ids, edges))
       /\ \A e \in edges : e.from \in nodes /\ e.to \in nodes
       /\ \A n \in nodes : validateNodeInputs(n, needsInput, config, edges)

(***************************************************************************)
(* validateConnection: a trigger edge needs a source only; a data edge     *)
(* needs a free target field that is not configured, and an output whose   *)
(* schema fits (the set of edges whose schemas fit is a parameter).        *)
(***************************************************************************)
validateConnection(e, nodes, config, edges, fits) ==
    /\ e.from \in nodes
    /\ e.handle = "x" =>
         /\ e.to \in nodes
         /\ ~\E f \in edges : f.to = e.to /\ f.handle = "x"
         /\ config[e.to] = 0
         /\ e \in fits

-----------------------------------------------------------------------------
\* Reference: a set of nodes each of which depends on one of the set.
Cyclic(ids, deps) ==
    \E S \in SUBSET ids : S # {} /\ \A n \in S : S \cap deps[n] # {}

\* Reference: the async nodes at the end of a path without an async node between.
NearestAsync(ids, deps, async, n) ==
    LET closed == {S \in SUBSET ids : n \in S /\ \A x \in S : deps[x] \ async \subseteq S}
        reached == {x \in ids : \A S \in closed : x \in S}
    IN async \cap UNION {deps[x] : x \in reached}
=============================================================================
