----------------------------- MODULE LiveLayout -----------------------------
(***************************************************************************)
(* The camera wall of the device page (device-live-page.tsx with            *)
(* live-layout-utils.ts): a layout mode, a page start and a selected camera *)
(* over the enabled cameras, a list that changes under them with every      *)
(* status of the device.  What is shown is derived anew from all of them.   *)
(***************************************************************************)
EXTENDS Integers, Sequences, FiniteSets, SequencesExt, FiniteSetsExt

CONSTANTS
  Cameras,     \* cameras the device may have, as numbers in the order of its list
  Capacity     \* LIVE_LAYOUT_CAPACITY_BY_MODE

ASSUME LlAssumption ==
  /\ Cameras \subseteq Nat \ {0} /\ IsFiniteSet(Cameras)
  /\ "single" \in DOMAIN Capacity /\ \A mode \in DOMAIN Capacity : Capacity[mode] \in Nat \ {0}

VARIABLES
  enabledCameras,   \* the enabled cameras of the last status, in their order
  layoutMode, layoutStartIndex,
  selectedCamera    \* 0 is ''

llVars == <<enabledCameras, layoutMode, layoutStartIndex, selectedCamera>>

LlInit ==
  /\ enabledCameras = <<>>
  /\ layoutMode = "single"
  /\ layoutStartIndex = 0
  /\ selectedCamera = 0

-----------------------------------------------------------------------------
(* live-layout-utils.ts                                                     *)

\* Mutant: a page may start anywhere in the list.
Unclamped(startIndex, total, mode) ==
  IF total <= Capacity[mode] THEN 0 ELSE Min({Max({0, startIndex}), total - 1})

clampLiveLayoutStartIndex(startIndex, total, mode) ==
  IF total <= Capacity[mode] THEN 0
  ELSE Min({Max({0, startIndex}), Max({0, total - Capacity[mode]})})

getVisibleLayoutCameras(cameras, startIndex, mode) ==
  LET first == clampLiveLayoutStartIndex(startIndex, Len(cameras), mode) IN
  SubSeq(cameras, first + 1, Min({first + Capacity[mode], Len(cameras)}))

getLiveLayoutPageCount(total, mode) == Max({1, (total + Capacity[mode] - 1) \div Capacity[mode]})

-----------------------------------------------------------------------------
(* device-live-page.tsx: what is shown                                      *)

\* findIndex, 0 when there is none (the code's -1 is 0 here, as are its others plus one).
IndexOf(cameras, camera) ==
  IF \E i \in 1..Len(cameras) : cameras[i] = camera
  THEN CHOOSE i \in 1..Len(cameras) : cameras[i] = camera ELSE 0

getPageStartForCamera(camera, cameras, mode) ==
  LET i == IndexOf(cameras, camera) IN
  IF i = 0 THEN 0
  ELSE clampLiveLayoutStartIndex(((i - 1) \div Capacity[mode]) * Capacity[mode], Len(cameras), mode)

selectedCameraName ==
  IF IndexOf(enabledCameras, selectedCamera) # 0 THEN selectedCamera
  ELSE IF enabledCameras # <<>> THEN enabledCameras[1] ELSE 0

\* The page the start index says, unless the selected camera is not on it.
safeLayoutStartIndex ==
  LET base == clampLiveLayoutStartIndex(layoutStartIndex, Len(enabledCameras), layoutMode)
      shown == getVisibleLayoutCameras(enabledCameras, base, layoutMode)
  IN
  IF selectedCameraName # 0 /\ IndexOf(shown, selectedCameraName) = 0
  THEN getPageStartForCamera(selectedCameraName, enabledCameras, layoutMode) ELSE base

reorderVisibleCameras(cameras, camera) ==
  IF IndexOf(cameras, camera) <= 1 THEN cameras
  ELSE <<camera>> \o RemoveAt(cameras, IndexOf(cameras, camera))

visibleCameras ==
  reorderVisibleCameras(getVisibleLayoutCameras(enabledCameras, safeLayoutStartIndex, layoutMode),
                        selectedCameraName)

canPageBackward == safeLayoutStartIndex > 0
canPageForward == safeLayoutStartIndex + Capacity[layoutMode] < Len(enabledCameras)
activePageNumber == IF visibleCameras = <<>> THEN 1 ELSE (safeLayoutStartIndex \div Capacity[layoutMode]) + 1

-----------------------------------------------------------------------------
(* device-live-page.tsx: handlers                                           *)

\* The cameras of a status that are enabled, in the order of the device's list.
Listed ==
  [S \in SUBSET Cameras |->
     CHOOSE s \in [1..Cardinality(S) -> S] : \A i, j \in 1..Cardinality(S) : i < j => s[i] < s[j]]

StatusArrives(enabled) ==
  /\ enabledCameras' = Listed[enabled]
  /\ UNCHANGED <<layoutMode, layoutStartIndex, selectedCamera>>

handleCameraSelect(camera) ==
  /\ IndexOf(enabledCameras, camera) # 0
  /\ selectedCamera' = camera
  /\ layoutStartIndex' = getPageStartForCamera(camera, enabledCameras, layoutMode)
  /\ UNCHANGED <<enabledCameras, layoutMode>>

handleLayoutChange(mode) ==
  /\ layoutMode' = mode
  /\ layoutStartIndex' = IF selectedCameraName # 0
                         THEN getPageStartForCamera(selectedCameraName, enabledCameras, mode)
                         ELSE clampLiveLayoutStartIndex(layoutStartIndex, Len(enabledCameras), mode)
  /\ UNCHANGED <<enabledCameras, selectedCamera>>

PageStart(direction) ==
  clampLiveLayoutStartIndex(safeLayoutStartIndex + direction * Capacity[layoutMode],
                            Len(enabledCameras), layoutMode)

handlePageShift(direction) ==
  LET next == getVisibleLayoutCameras(enabledCameras, PageStart(direction), layoutMode) IN
  /\ IF direction = 1 THEN canPageForward ELSE canPageBackward
  /\ layoutStartIndex' = PageStart(direction)
  /\ selectedCamera' = IF next # <<>> THEN next[1] ELSE selectedCamera
  /\ UNCHANGED <<enabledCameras, layoutMode>>

LlNext ==
  \/ \E enabled \in SUBSET Cameras : StatusArrives(enabled)
  \/ \E camera \in Cameras : handleCameraSelect(camera)
  \/ \E mode \in DOMAIN Capacity : handleLayoutChange(mode)
  \/ \E direction \in {-1, 1} : handlePageShift(direction)

LlSpec == LlInit /\ [][LlNext]_llVars

-----------------------------------------------------------------------------

\* The shape of the state.
LlTypeOK ==
  /\ Range(enabledCameras) \subseteq Cameras
  /\ layoutMode \in DOMAIN Capacity
  /\ layoutStartIndex \in 0..Cardinality(Cameras)
  /\ selectedCamera \in Cameras \cup {0}

\* Whatever was disabled, selected, paged or rearranged, in whatever order: the
\* first tile is the selected camera and an enabled one, the page is as full as
\* it can be and shows nothing twice; where no page follows (or precedes) the
\* last (first) camera is on the screen, and a shift always moves; and the page
\* number stays within the count.
WallShowsSelection ==
  LET total == Len(enabledCameras)
      shown == Range(visibleCameras)
  IN
  /\ Len(visibleCameras) = Min({Capacity[layoutMode], total})
  /\ Cardinality(shown) = Len(visibleCameras) /\ shown \subseteq Range(enabledCameras)
  /\ total > 0 => visibleCameras[1] = selectedCameraName
  /\ total > 0 /\ ~canPageForward => enabledCameras[total] \in shown
  /\ total > 0 /\ ~canPageBackward => enabledCameras[1] \in shown
  /\ canPageForward => PageStart(1) > safeLayoutStartIndex
  /\ canPageBackward => PageStart(-1) < safeLayoutStartIndex
  /\ activePageNumber \in 1..getLiveLayoutPageCount(total, layoutMode)
=============================================================================
