--------------------------- MODULE RoiConfigurator ---------------------------
(***************************************************************************)
(* trakrai-roi-configurator, device-roi-page.tsx and use-roi-config.ts: the   *)
(* page edits one document, the base locations of each camera and the boxes    *)
(* of each base, and saves the whole of it for every edit.  An item is its id   *)
(* and the edit it was last written by; names, colours, positions and bounds    *)
(* are that edit.  Requests reach the roi-config service (external) in order,    *)
(* unless they are lost; answers arrive in order, or the request times out.     *)
(***************************************************************************)
EXTENDS Integers, Sequences, FiniteSets

CONSTANTS RoiCameras,     \* the enabled cameras, the first is the least
          Documents,      \* what the device may hold at first; its items are numbered below 10
          NoDocument,
          MaxRoiEdits,    \* edits of the page
          MaxRoiOps,      \* requests not settled at once
          MaxRoiTurns     \* clicks, refreshes and connections

VARIABLES stored,         \* external: the document of the device
          document,       \* roi.document
          roiBusy,        \* roi.isBusy
          cameraInput, baseInput, roiInput,   \* the selection, 0 for null
          boxDrawn,       \* draftBounds # null
          ops,            \* requests: kind, document, what follows, where each is, whether the page waits
          edits,          \* edits so far
          savedEdits,     \* history: item written, edit, for each save that was answered
          undone,         \* history: ids of items a delete was asked for
          raced,          \* history: a refresh began while a save was under way, or a save did
                          \*   before the document was known
          roiTurns

roiVars == <<stored, document, roiBusy, cameraInput, baseInput, roiInput, boxDrawn, ops, edits, savedEdits,
             undone, raced, roiTurns>>

Item(c, b, r, e) == [camera |-> c, base |-> b, roi |-> r, edit |-> e]
LeastOf(S) == CHOOSE x \in S : \A y \in S : x <= y

\* A document of items numbered up to e: each has its own key, and every box its base.
Items(e) == [camera : RoiCameras, base : 1..e, roi : 0..e, edit : 0..e]
IsDocument(d, e) ==
    /\ d \subseteq Items(e)
    /\ \A i, j \in d : i.camera = j.camera /\ i.base = j.base /\ i.roi = j.roi => i = j
    /\ \A i \in d : \E j \in d : j.camera = i.camera /\ j.base = i.base /\ j.roi = 0

\* There is a camera, cameras are numbered, and the device's first document is one.
ASSUME RoiAssumption ==
    /\ RoiCameras \subseteq Nat /\ RoiCameras # {}
    /\ \A d \in Documents : IsDocument(d, 10)
    /\ MaxRoiOps \in Nat

\* What a render derives.  Lists are in the order of creation, as the ids are.
roiCameraName == IF cameraInput \in RoiCameras THEN cameraInput ELSE LeastOf(RoiCameras)
currentDocument == IF document = NoDocument THEN {} ELSE document
Bases == {i.base : i \in {j \in currentDocument : j.camera = roiCameraName}}
selectedBase == IF baseInput \in Bases THEN baseInput ELSE IF Bases = {} THEN 0 ELSE LeastOf(Bases)
RoisOf(d, b) == {i.roi : i \in {j \in d : j.camera = roiCameraName /\ j.base = b /\ j.roi # 0}}
Rois == RoisOf(currentDocument, selectedBase)
selectedRoi == IF roiInput \in Rois THEN roiInput ELSE IF Rois = {} THEN 0 ELSE LeastOf(Rois)
hasBoundsDraft == boxDrawn \/ selectedRoi # 0

RoiInit ==
    /\ stored \in Documents
    /\ document = NoDocument /\ roiBusy = FALSE
    /\ cameraInput = 0 /\ baseInput = 0 /\ roiInput = 0 /\ boxDrawn = FALSE
    /\ ops = <<>> /\ edits = 10 /\ savedEdits = {} /\ undone = {} /\ raced = FALSE /\ roiTurns = 0

RoiTurn == roiTurns < MaxRoiTurns /\ roiTurns' = roiTurns + 1

Op(kind, d, after, touched) ==
    [kind |-> kind, document |-> d, after |-> after, touched |-> touched, at |-> "up", waits |-> TRUE]
Saving == \E k \in DOMAIN ops : ops[k].kind = "save" /\ ops[k].waits

\* refresh: by its button, or when the transport connects, whatever is under way.
Refreshes(byButton) ==
    /\ byButton => ~roiBusy
    /\ Len(ops) < MaxRoiOps /\ RoiTurn
    /\ roiBusy' = TRUE
    /\ ops' = Append(ops, Op("get", {}, <<>>, {}))
    /\ raced' = (raced \/ Saving)
    /\ UNCHANGED <<stored, document, cameraInput, baseInput, roiInput, boxDrawn, edits, savedEdits, undone>>

\* Mutant: the page is not busy while it saves.
SavesIdly(d, after, touched) ==
    /\ Len(ops) < MaxRoiOps
    /\ roiBusy' = FALSE
    /\ ops' = Append(ops, Op("save", d, after, touched))

\* saveDocument, from persistDocument.
saveDocument(d, after, touched) ==
    /\ Len(ops) < MaxRoiOps
    /\ roiBusy' = TRUE
    /\ ops' = Append(ops, Op("save", d, after, touched))

\* An edit n: the buttons are disabled while the page is busy.
persistDocument(d, after, touched) ==
    /\ ~roiBusy /\ edits < 10 + MaxRoiEdits
    /\ edits' = edits + 1
    /\ saveDocument(d, after, touched)
    /\ raced' = (raced \/ document = NoDocument \/ \E k \in DOMAIN ops : ops[k].kind = "get" /\ ops[k].waits)
    /\ UNCHANGED <<stored, document, cameraInput, baseInput, roiInput, boxDrawn, savedEdits, roiTurns>>

NewEdit == edits + 1

handleCaptureBase ==
    LET i == Item(roiCameraName, NewEdit, 0, NewEdit) IN
    /\ persistDocument(currentDocument \cup {i}, <<NewEdit, 0>>, {i})
    /\ UNCHANGED undone

\* Update from the current position and rename: both write the base.
WriteBase ==
    LET old == CHOOSE i \in currentDocument : i.camera = roiCameraName /\ i.base = selectedBase /\ i.roi = 0
        new == [old EXCEPT !.edit = NewEdit]
    IN  /\ selectedBase # 0
        /\ persistDocument((currentDocument \ {old}) \cup {new}, <<selectedBase, roiInput>>, {new})
        /\ UNCHANGED undone

handleDeleteBase ==
    LET gone == {i \in currentDocument : i.camera = roiCameraName /\ i.base = selectedBase}
        left == Bases \ {selectedBase}
    IN  /\ selectedBase # 0
        /\ persistDocument(currentDocument \ gone, <<IF left = {} THEN 0 ELSE LeastOf(left), 0>>, {})
        /\ undone' = undone \cup (({i.base : i \in gone} \cup {i.roi : i \in gone}) \ {0})

\* Without a selected box its id is new; the first box stands in for none selected.
handleCreateOrUpdateRoi ==
    LET id == IF selectedRoi # 0 THEN selectedRoi ELSE NewEdit
        old == {i \in currentDocument : i.camera = roiCameraName /\ i.base = selectedBase /\ i.roi = id}
        new == Item(roiCameraName, selectedBase, id, NewEdit)
    IN  /\ selectedBase # 0 /\ hasBoundsDraft
        /\ persistDocument((currentDocument \ old) \cup {new}, <<selectedBase, id>>, {new})
        /\ UNCHANGED undone

handleDeleteRoi ==
    LET gone == {i \in currentDocument : i.camera = roiCameraName /\ i.base = selectedBase /\ i.roi = selectedRoi}
        left == Rois \ {selectedRoi}
    IN  /\ selectedBase # 0 /\ selectedRoi # 0
        /\ persistDocument(currentDocument \ gone, <<selectedBase, IF left = {} THEN 0 ELSE LeastOf(left)>>, {})
        /\ undone' = undone \cup {selectedRoi}

\* Selecting, which nothing disables; drawing selects no box.
Selects(c, b, r, drawn) ==
    /\ cameraInput' = c /\ baseInput' = b /\ roiInput' = r /\ boxDrawn' = drawn
    /\ RoiTurn
    /\ UNCHANGED <<stored, document, roiBusy, ops, edits, savedEdits, undone, raced>>
onSelectCamera(c) == Selects(c, 0, 0, FALSE)
onSelectBase(b) == LET R == RoisOf(currentDocument, b) IN Selects(cameraInput, b, IF R = {} THEN 0 ELSE LeastOf(R), FALSE)
onSelectRoi(r) == Selects(cameraInput, baseInput, r, TRUE)
PicksOnCanvas(r) == Selects(cameraInput, baseInput, r, boxDrawn)   \* another box's draft stays
onDraws == Selects(cameraInput, baseInput, 0, TRUE)
ClearSelection == (selectedRoi # 0 \/ boxDrawn) /\ Selects(cameraInput, baseInput, 0, FALSE)

First(at) == LET K == {k \in DOMAIN ops : ops[k].at = at} IN IF K = {} THEN 0 ELSE LeastOf(K)

\* HandleGetConfig and HandleSaveConfig: the device takes the request that comes next, or it is
\* lost, or fails, a save also after the file was written, when reading it back does.
DeviceHandlesRoi ==
    LET k == First("up")
        done == IF ops[k].kind = "save" THEN ops[k].document ELSE stored
    IN
    /\ k # 0
    /\ \/ stored' = done /\ ops' = [ops EXCEPT ![k].at = "down", ![k].document = done]
       \/ stored' \in {stored, done} /\ ops' = [ops EXCEPT ![k].at = "lost"]
    /\ UNCHANGED <<document, roiBusy, cameraInput, baseInput, roiInput, boxDrawn, edits, savedEdits, undone, raced, roiTurns>>

\* applyPayload, and what persistDocument and its handler do after the await;
\* an answer that nobody waits for is dropped.
applyPayload ==
    LET k == First("down")
        o == ops[k]
    IN  /\ k # 0
        /\ ops' = SubSeq(ops, 1, k - 1) \o SubSeq(ops, k + 1, Len(ops))
        /\ IF o.waits THEN
              /\ document' = o.document /\ roiBusy' = FALSE
              /\ savedEdits' = savedEdits \cup o.touched
              /\ baseInput' = IF o.kind = "save" THEN o.after[1] ELSE baseInput
              /\ roiInput' = IF o.kind = "save" THEN o.after[2] ELSE roiInput
              /\ boxDrawn' = IF o.kind = "save" /\ o.touched = {} THEN FALSE ELSE boxDrawn
           ELSE UNCHANGED <<document, roiBusy, savedEdits, baseInput, roiInput, boxDrawn>>
        /\ UNCHANGED <<stored, cameraInput, edits, undone, raced, roiTurns>>

\* The catch blocks: a timeout.
Fails(k) ==
    /\ ops[k].waits
    /\ ops' = IF ops[k].at = "lost" THEN SubSeq(ops, 1, k - 1) \o SubSeq(ops, k + 1, Len(ops))
              ELSE [ops EXCEPT ![k].waits = FALSE]
    /\ roiBusy' = FALSE
    /\ raced' = (raced \/ (ops[k].kind = "save" /\ ops[k].at # "lost"))
    /\ UNCHANGED <<stored, document, cameraInput, baseInput, roiInput, boxDrawn, edits, savedEdits, undone, roiTurns>>

RoiNext ==
    \/ \E byButton \in BOOLEAN : Refreshes(byButton)
    \/ handleCaptureBase \/ WriteBase \/ handleDeleteBase \/ handleCreateOrUpdateRoi \/ handleDeleteRoi
    \/ \E c \in RoiCameras : onSelectCamera(c)
    \/ \E b \in Bases : onSelectBase(b)
    \/ \E r \in Rois : onSelectRoi(r) \/ PicksOnCanvas(r)
    \/ onDraws \/ ClearSelection
    \/ DeviceHandlesRoi \/ applyPayload
    \/ \E k \in DOMAIN ops : Fails(k)

RoiSpec == RoiInit /\ [][RoiNext]_roiVars

---------------------------------------------------------------------------
RoiTypeOK ==
    /\ roiBusy \in BOOLEAN /\ cameraInput \in RoiCameras \cup {0}
    /\ \A i \in stored : i.camera \in RoiCameras /\ i.edit <= edits
    /\ Len(ops) <= MaxRoiOps

\* What the page has reported as saved stays saved: an item it wrote is on the
\* device, at that edit or a later one, until its deletion is asked for; no two
\* items of a document share an id; and no box lacks its base.  (Not so when a
\* refresh and a save overlap, when a save that timed out was carried out after
\* all, or when the page saved before it had a document: see the hazards.)
SavedEditsStay ==
    /\ ~raced => \A s \in savedEdits :
         \/ {s.base, s.roi} \cap undone # {}
         \/ \E i \in stored : i.camera = s.camera /\ i.base = s.base /\ i.roi = s.roi /\ i.edit >= s.edit
    /\ \A i, j \in stored : i.camera = j.camera /\ i.base = j.base /\ i.roi = j.roi => i = j
    /\ \A i \in stored : \E j \in stored : j.camera = i.camera /\ j.base = i.base /\ j.roi = 0
=============================================================================
