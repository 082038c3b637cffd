--------------------------- MODULE WorkflowBlocks ---------------------------
(***************************************************************************)
(* Reusable blocks of the workflow editor.  A block is only a mark on raw     *)
(* nodes: the canvas shows a projection in which the nodes of a block are one *)
(* node with the block's ports, edits on the projection are translated back,   *)
(* and a block can be opened (scoped), saved as a template and dropped again.  *)
(* Saving and dropping wait for the network with the editor live: saving then  *)
(* writes back the nodes and edges of the click.                              *)
(* A raw node has one input handle, one output handle and one field, of the     *)
(* input's name, that may be configured; an edge is <<source, target>>.        *)
(***************************************************************************)
EXTENDS Naturals, FiniteSets, FiniteSetsExt, Functions

CONSTANTS RawIds,      \* ids of the nodes of the workflow
          CloneIds,    \* fresh ids for the nodes of a dropped template
          BlockIds, NoBlock,
          MaxBlockEdits  \* bound: user actions in a behaviour

AllIds == RawIds \cup CloneIds

ASSUME WbAssumption ==
    /\ IsFiniteSet(AllIds) /\ NoBlock \notin BlockIds
    /\ \A b \in BlockIds : <<"block", b>> \notin AllIds

VARIABLES raw,         \* id -> node: the raw workflow's nodes
          wires,       \* the raw edges
          scope,       \* scopedBlockId
          preview,     \* blockDragPreviewStates: block -> position
          saving,      \* createBlock waiting for its upload: {} or one snapshot
          dropping,    \* onDrop waiting for the definition: {} or one template
          library,     \* templates stored
          blockEdits

wbVars == <<raw, wires, scope, preview, saving, dropping, library, blockEdits>>

BlockOf(n) == IF n \in DOMAIN raw THEN raw[n].block ELSE NoBlock
NodesOf(b) == {n \in DOMAIN raw : raw[n].block = b}
Blocks == {raw[n].block : n \in DOMAIN raw} \ {NoBlock}
Selected == {n \in DOMAIN raw : raw[n].selected}

\* crypto.randomUUID: an id that neither the workflow, nor a template, nor a snapshot holds.
FreeBlock == BlockIds \ (Blocks \cup {t.id : t \in library}
                                 \cup UNION {{s.nodes[n].block : n \in DOMAIN s.nodes} : s \in saving})
FreeClones == CloneIds \ (DOMAIN raw \cup {e[1] : e \in wires} \cup {e[2] : e \in wires})

WbTypeOK ==
    /\ DOMAIN raw \subseteq AllIds
    /\ \A n \in DOMAIN raw : raw[n].block \in BlockIds \cup {NoBlock}
    /\ wires \subseteq AllIds \X AllIds
    /\ scope \in BlockIds \cup {NoBlock}
    /\ DOMAIN preview \subseteq BlockIds
    /\ Cardinality(saving) <= 1 /\ Cardinality(dropping) <= 1

\* A workflow without blocks; the field is unconfigured where an edge arrives.
WbInit ==
    /\ wires \in SUBSET {wire \in RawIds \X RawIds : wire[1] # wire[2]}
    /\ \A x, y \in RawIds : <<x, y>> \in wires => <<y, x>> \notin wires
    /\ \A e, f \in wires : e[2] = f[2] => e = f
    /\ raw \in {[n \in RawIds |-> [block |-> NoBlock, input |-> FALSE, output |-> FALSE, field |-> FALSE,
                    set |-> n \in C, x |-> IF n = first THEN 0 ELSE 1, selected |-> FALSE]] :
                 C \in {{}, RawIds \ {e[2] : e \in wires}}, first \in {CHOOSE n \in RawIds : TRUE}}
    /\ scope = NoBlock /\ preview = << >>
    /\ saving = {} /\ dropping = {} /\ library = {}
    /\ blockEdits = 0

Counted == blockEdits < MaxBlockEdits /\ blockEdits' = blockEdits + 1

---------------------------------------------------------------------------
\* The projection.

getBlockAnchorPosition(b) == Min({raw[n].x : n \in NodesOf(b)})

\* A node of the canvas: a raw node by its id, a block by <<"block", id>>; a
\* handle on a block's node is <<direction, raw id>>, on a raw node its own.
Own == <<"own">>
Shown(n) == IF BlockOf(n) = NoBlock THEN n ELSE <<"block", BlockOf(n)>>

toDisplayedBoundaryEdge(e) ==
    [source |-> Shown(e[1]), sourceHandle |-> IF BlockOf(e[1]) = NoBlock THEN Own ELSE <<"output", e[1]>>,
     target |-> Shown(e[2]), targetHandle |-> IF BlockOf(e[2]) = NoBlock THEN Own ELSE <<"input", e[2]>>]

Internal(e) == BlockOf(e[1]) # NoBlock /\ BlockOf(e[1]) = BlockOf(e[2])

\* projectWorkflowWithBlocks.
displayedNodes ==
    IF scope # NoBlock THEN NodesOf(scope)
    ELSE NodesOf(NoBlock) \cup {<<"block", b>> : b \in Blocks}

displayedEdges ==
    IF scope # NoBlock
    THEN {[source |-> e[1], sourceHandle |-> Own, target |-> e[2], targetHandle |-> Own] :
            e \in {w \in wires : w[1] \in NodesOf(scope) /\ w[2] \in NodesOf(scope)}}
    ELSE {toDisplayedBoundaryEdge(e) : e \in {w \in wires : ~Internal(w)}}

\* toDisplayedBlockNode: the handles a block's node has.  An input that is
\* configured is shown without its handle.
inputPorts(b) == {n \in NodesOf(b) : raw[n].input \/ raw[n].field}
outputPorts(b) == {n \in NodesOf(b) : raw[n].output}
configuredTargetPorts(b) == {n \in inputPorts(b) : raw[n].set}

\* Mutant: the handle of the other end is taken.
SwapsHandles(c) ==
    <<IF c.targetHandle[1] = "own" THEN c.source ELSE c.targetHandle[2],
      IF c.sourceHandle[1] = "own" THEN c.target ELSE c.sourceHandle[2]>>

\* resolveRawConnectionFromDisplayed: handles decode to the raw ends.
resolveRawConnectionFromDisplayed(c) ==
    <<IF c.sourceHandle[1] = "own" THEN c.source ELSE c.sourceHandle[2],
      IF c.targetHandle[1] = "own" THEN c.target ELSE c.targetHandle[2]>>

\* getSelectedBlockId: the scoped block, or the one whose nodes are selected.
getSelectedBlockId ==
    IF scope # NoBlock THEN scope
    ELSE LET S == {b \in Blocks : NodesOf(b) = Selected}
         IN  IF S = {} THEN NoBlock ELSE CHOOSE b \in S : TRUE

---------------------------------------------------------------------------
\* Selection, moves and removals made on the canvas (onNodesChange).

SelectNode(n) ==
    /\ n \in displayedNodes \cap AllIds
    /\ raw' = [raw EXCEPT ![n].selected = ~@]
    /\ Counted
    /\ UNCHANGED <<wires, scope, preview, saving, dropping, library>>

selectBlockNodes(b, v) ==
    /\ scope = NoBlock /\ b \in Blocks
    /\ raw' = [n \in DOMAIN raw |-> [raw[n] EXCEPT !.selected =
                 IF raw[n].block = b THEN v ELSE IF v THEN FALSE ELSE @]]
    /\ Counted
    /\ UNCHANGED <<wires, scope, preview, saving, dropping, library>>

DragBlock(b) ==
    /\ scope = NoBlock /\ b \in Blocks
    /\ preview' = [x \in DOMAIN preview \cup {b} |-> IF x = b THEN 3 ELSE preview[x]]
    /\ Counted
    /\ UNCHANGED <<raw, wires, scope, saving, dropping, library>>

moveBlockNodes(b, x) ==
    /\ b \in DOMAIN preview /\ b \in Blocks
    /\ preview' = Restrict(preview, DOMAIN preview \ {b})
    /\ raw' = [n \in DOMAIN raw |->
                 IF raw[n].block = b THEN [raw[n] EXCEPT !.x = x + @ - getBlockAnchorPosition(b)] ELSE raw[n]]
    /\ UNCHANGED <<wires, scope, saving, dropping, library, blockEdits>>

\* A displayed raw node is deleted; React Flow (external) deletes with it the
\* edges it displays.  Inside a scope the edges that leave the block are not.
RemoveNode(n) ==
    /\ n \in displayedNodes \cap AllIds
    /\ raw' = Restrict(raw, DOMAIN raw \ {n})
    /\ wires' = {e \in wires : ~(n \in {e[1], e[2]}
                  /\ (scope = NoBlock \/ (e[1] \in NodesOf(scope) /\ e[2] \in NodesOf(scope))))}
    /\ Counted
    /\ UNCHANGED <<scope, preview, saving, dropping, library>>

removeBlockFromWorkflow(b) ==
    /\ scope = NoBlock /\ b \in Blocks
    /\ raw' = Restrict(raw, DOMAIN raw \ NodesOf(b))
    /\ wires' = {e \in wires : e[1] \notin NodesOf(b) /\ e[2] \notin NodesOf(b)}
    /\ preview' = Restrict(preview, DOMAIN preview \ {b})
    /\ Counted
    /\ UNCHANGED <<scope, saving, dropping, library>>

\* onConnect: between handles the canvas shows; the raw edge is added, and the
\* configured value of a block's input goes.
onConnect(s, t) ==
    /\ s # t /\ {s, t} \subseteq DOMAIN raw
    /\ IF scope # NoBlock THEN {s, t} \subseteq NodesOf(scope)
       ELSE /\ ~Internal(<<s, t>>)
            /\ BlockOf(s) # NoBlock => s \in outputPorts(BlockOf(s))
            /\ BlockOf(t) # NoBlock => t \in inputPorts(BlockOf(t)) \ configuredTargetPorts(BlockOf(t))
    /\ ~raw[t].set                      \* the rules of validateConnection
    /\ \A e \in wires : e[2] # t
    /\ LET shown == IF scope # NoBlock
                    THEN [source |-> s, sourceHandle |-> Own, target |-> t, targetHandle |-> Own]
                    ELSE toDisplayedBoundaryEdge(<<s, t>>)
       IN  wires' = wires \cup {resolveRawConnectionFromDisplayed(shown)}
    /\ Counted
    /\ UNCHANGED <<raw, scope, preview, saving, dropping, library>>

\* onNodeDoubleClick, enterScope, and the button that leaves; it is only shown
\* while the block still has nodes.
enterScope(b) ==
    /\ scope = NoBlock /\ b \in Blocks
    /\ scope' = b
    /\ Counted
    /\ UNCHANGED <<raw, wires, preview, saving, dropping, library>>

exitScope ==
    /\ scope # NoBlock /\ NodesOf(scope) # {}
    /\ scope' = NoBlock
    /\ Counted
    /\ UNCHANGED <<raw, wires, preview, saving, dropping, library>>

---------------------------------------------------------------------------
\* Templates.

buildBlockTemplateFromSelection ==
    [nodes |-> Restrict(raw, Selected),
     origin |-> Min({raw[n].x : n \in Selected}),
     edges |-> {e \in wires : e[1] \in Selected /\ e[2] \in Selected},
     inputs |-> {e[2] : e \in {w \in wires : w[1] \notin Selected /\ w[2] \in Selected}},
     outputs |-> {e[1] : e \in {w \in wires : w[1] \in Selected /\ w[2] \notin Selected}},
     fields |-> {n \in Selected : raw[n].set}]

\* getTemplateNodeMetadata.
Marked(t, node, n, b) ==
    [block |-> b, input |-> n \in t.inputs, output |-> n \in t.outputs, field |-> n \in t.fields,
     set |-> node.set, x |-> node.x, selected |-> TRUE]

\* createBlock up to its first await.
CreateBlock ==
    /\ saving = {} /\ scope = NoBlock
    /\ Cardinality(Selected) > 1 /\ \A n \in Selected : raw[n].block = NoBlock
    /\ FreeBlock # {}
    /\ saving' = {[nodes |-> raw, edges |-> wires, picked |-> Selected,
                   template |-> buildBlockTemplateFromSelection]}
    /\ Counted
    /\ UNCHANGED <<raw, wires, scope, preview, dropping, library>>

\* The upload is stored: createBlockFromSelection, with the nodes and edges of
\* the render in which the button was pressed.
createBlockFromSelection(s) ==
    /\ s \in saving /\ FreeBlock # {}
    /\ LET b == CHOOSE x \in FreeBlock : TRUE IN
       /\ raw' = [n \in DOMAIN s.nodes |->
                    IF n \in s.picked THEN Marked(s.template, s.nodes[n], n, b)
                    ELSE [s.nodes[n] EXCEPT !.selected = FALSE]]
       /\ library' = library \cup {[id |-> b, template |-> s.template]}
    /\ wires' = s.edges
    /\ saving' = {}
    /\ UNCHANGED <<scope, preview, dropping, blockEdits>>

UploadFails ==
    /\ saving # {}
    /\ saving' = {}
    /\ UNCHANGED <<raw, wires, scope, preview, dropping, library, blockEdits>>

\* onDrop fetches the definition; in a scope insertBlockTemplate does nothing.
onDrop(t) ==
    /\ dropping = {} /\ scope = NoBlock
    /\ dropping' = {t}
    /\ Counted
    /\ UNCHANGED <<raw, wires, scope, preview, saving, library>>

\* instantiateBlockTemplate under fresh ids, then insertBlockTemplate.
insertBlockTemplate(t) ==
    /\ t \in dropping /\ FreeBlock # {}
    /\ LET old == DOMAIN t.template.nodes
           b == CHOOSE x \in FreeBlock : TRUE
       IN  \E id \in Injection(old, FreeClones) :
             LET back == [m \in {id[n] : n \in old} |-> CHOOSE n \in old : id[n] = m] IN
             /\ raw' = [m \in DOMAIN raw \cup DOMAIN back |->
                         IF m \in DOMAIN back
                         THEN [Marked(t.template, t.template.nodes[back[m]], back[m], b) EXCEPT
                                 !.x = @ - t.template.origin]
                         ELSE [raw[m] EXCEPT !.selected = FALSE]]
             /\ wires' = wires \cup {<<id[e[1]], id[e[2]]>> : e \in t.template.edges}
    /\ dropping' = {}
    /\ UNCHANGED <<scope, preview, saving, library, blockEdits>>

---------------------------------------------------------------------------
\* The block's panel: its target fields, one by one.

connectedEdgesByPort(n) == {e \in wires : e[2] = n /\ e[1] \notin NodesOf(BlockOf(n))}

SelectedTargets == IF getSelectedBlockId = NoBlock THEN {} ELSE inputPorts(getSelectedBlockId)

updateTargetValue(n) ==
    /\ n \in SelectedTargets /\ ~raw[n].set /\ connectedEdgesByPort(n) = {}
    /\ raw' = [raw EXCEPT ![n].set = TRUE]
    /\ Counted
    /\ UNCHANGED <<wires, scope, preview, saving, dropping, library>>

removeTargetValue(n) ==
    /\ n \in SelectedTargets /\ raw[n].set /\ connectedEdgesByPort(n) = {}
    /\ raw' = [raw EXCEPT ![n].set = FALSE]
    /\ Counted
    /\ UNCHANGED <<wires, scope, preview, saving, dropping, library>>

removeConnectedTargetEdges(n) ==
    /\ n \in SelectedTargets /\ connectedEdgesByPort(n) # {}
    /\ wires' = wires \ connectedEdgesByPort(n)
    /\ Counted
    /\ UNCHANGED <<raw, scope, preview, saving, dropping, library>>

WbNext ==
    \/ \E n \in AllIds : SelectNode(n) \/ RemoveNode(n) \/ updateTargetValue(n)
                         \/ removeTargetValue(n) \/ removeConnectedTargetEdges(n)
    \/ \E b \in BlockIds : \/ \E v \in BOOLEAN : selectBlockNodes(b, v)
                           \/ DragBlock(b) \/ moveBlockNodes(b, 3) \/ removeBlockFromWorkflow(b) \/ enterScope(b)
    \/ \E s, t \in AllIds : onConnect(s, t)
    \/ exitScope \/ CreateBlock \/ UploadFails
    \/ \E s \in saving : createBlockFromSelection(s)
    \/ \E t \in library : onDrop(t)
    \/ \E t \in dropping : insertBlockTemplate(t)

WbSpec == WbInit /\ [][WbNext]_wbVars

---------------------------------------------------------------------------
\* The projection loses and invents nothing.  Outside a scope every raw node is
\* shown once, alone or in its block, and every edge that is not inside a block
\* is shown, once, and resolves back to itself; where it meets a block the block
\* has that port, with its handle: the input is not configured as well.
ProjectionIsFaithful ==
    scope = NoBlock =>
      /\ {resolveRawConnectionFromDisplayed(c) : c \in displayedEdges} = {e \in wires : ~Internal(e)}
      /\ Cardinality(displayedEdges) = Cardinality({e \in wires : ~Internal(e)})
      /\ \A n \in DOMAIN raw : Shown(n) \in displayedNodes
      /\ \A e \in wires : ~Internal(e) =>
           /\ BlockOf(e[1]) # NoBlock => e[1] \in outputPorts(BlockOf(e[1]))
           /\ BlockOf(e[2]) # NoBlock => e[2] \in inputPorts(BlockOf(e[2])) \ configuredTargetPorts(BlockOf(e[2]))
=============================================================================
