------------------------------ MODULE RoiCanvas ------------------------------
(***************************************************************************)
(* trakrai-roi-configurator, roi-video-editor.tsx: drawing a box on the live  *)
(* frame.  The frame lies letterboxed in its container (getFrameRect); a drag   *)
(* starts inside the frame, follows the pointer, and is kept relative to the    *)
(* frame.  Lengths are pixels of a small container; a length relative to the     *)
(* frame is kept as its pixels and the frame's.                                *)
(***************************************************************************)
EXTENDS Integers

CONSTANTS Containers,    \* <<width, height>> of the container
          Aspects,       \* <<width, height>> of a frame of the stream; the first guess is one too
          MaxPixel,      \* pointer coordinates 0..MaxPixel
          MinDrawSize    \* MIN_DRAW_SIZE_PX

\* A container has a height (getFrameRect falls back on another aspect without one); a frame
\* has both sides.
ASSUME RcvAssumption ==
    /\ Containers \subseteq Nat \X (Nat \ {0}) /\ Aspects \subseteq (Nat \ {0}) \X (Nat \ {0})
    /\ MaxPixel \in Nat /\ MinDrawSize \in Nat

VARIABLES container, aspect,
          drawActive,    \* isActive: the stream runs
          dragStart,     \* dragStartRef, <<>> for null
          draftBox,      \* draftBounds, <<>> for null
          reframed       \* history: the frame changed under a drag

rcvVars == <<container, aspect, drawActive, dragStart, draftBox, reframed>>

Points == (0..MaxPixel) \X (0..MaxPixel)

\* getFrameRect: as wide or as high as the container, centred.
getFrameRect(c, a) ==
    IF c[1] * a[2] > a[1] * c[2]
    THEN LET w == (c[2] * a[1]) \div a[2] IN [x |-> (c[1] - w) \div 2, y |-> 0, width |-> w, height |-> c[2]]
    ELSE LET h == (c[1] * a[2]) \div a[1] IN [x |-> 0, y |-> (c[2] - h) \div 2, width |-> c[1], height |-> h]

frameRect == getFrameRect(container, aspect)

CanvasClamp(v, lo, hi) == LET up == IF v < lo THEN lo ELSE v IN IF up > hi THEN hi ELSE up
Lesser(a, b) == IF a < b THEN a ELSE b
Distance(a, b) == IF a < b THEN b - a ELSE a - b

RcvInit ==
    /\ container \in Containers /\ aspect \in Aspects
    /\ drawActive = FALSE /\ dragStart = <<>> /\ draftBox = <<>> /\ reframed = FALSE

insideFrame(p) ==
    /\ p[1] >= frameRect.x /\ p[1] <= frameRect.x + frameRect.width
    /\ p[2] >= frameRect.y /\ p[2] <= frameRect.y + frameRect.height

\* The stream starts or stops; a drag goes on without it.
StreamChanges ==
    /\ drawActive' = ~drawActive
    /\ UNCHANGED <<container, aspect, dragStart, draftBox, reframed>>

\* The container is resized, or the stream's first statistics tell its aspect.
FrameChanges ==
    /\ container' \in Containers /\ aspect' \in Aspects
    /\ reframed' = (reframed \/ dragStart # <<>>)
    /\ UNCHANGED <<drawActive, dragStart, draftBox>>

onPointerDown(p) ==
    /\ drawActive /\ frameRect.width > 0 /\ frameRect.height > 0
    /\ insideFrame(p)
    /\ dragStart' = p /\ draftBox' = <<>> /\ reframed' = FALSE
    /\ UNCHANGED <<container, aspect, drawActive>>

\* Mutant: the pointer is not held within the frame.
FollowsPointer(p) ==
    LET x == p[1]
        y == p[2]
        w == Distance(x, dragStart[1])
        h == Distance(y, dragStart[2])
    IN  IF w < MinDrawSize \/ h < MinDrawSize THEN draftBox
        ELSE [x |-> Lesser(dragStart[1], x) - frameRect.x, y |-> Lesser(dragStart[2], y) - frameRect.y,
              width |-> w, height |-> h, of |-> frameRect]

updateDraftBoundsFromPoint(p) ==
    LET x == CanvasClamp(p[1], frameRect.x, frameRect.x + frameRect.width)
        y == CanvasClamp(p[2], frameRect.y, frameRect.y + frameRect.height)
        w == Distance(x, dragStart[1])
        h == Distance(y, dragStart[2])
    IN  IF w < MinDrawSize \/ h < MinDrawSize THEN draftBox
        ELSE [x |-> Lesser(dragStart[1], x) - frameRect.x, y |-> Lesser(dragStart[2], y) - frameRect.y,
              width |-> w, height |-> h, of |-> frameRect]

onPointerMove(p) ==
    /\ dragStart # <<>>
    /\ draftBox' = IF frameRect.width <= 0 \/ frameRect.height <= 0 THEN draftBox ELSE updateDraftBoundsFromPoint(p)
    /\ UNCHANGED <<container, aspect, drawActive, dragStart, reframed>>

onPointerUp(p) ==
    /\ dragStart # <<>>
    /\ draftBox' = IF frameRect.width <= 0 \/ frameRect.height <= 0 THEN draftBox ELSE updateDraftBoundsFromPoint(p)
    /\ dragStart' = <<>>
    /\ UNCHANGED <<container, aspect, drawActive, reframed>>

onPointerCancel ==
    /\ dragStart # <<>> /\ dragStart' = <<>>
    /\ UNCHANGED <<container, aspect, drawActive, draftBox, reframed>>

RcvNext ==
    \/ StreamChanges \/ FrameChanges \/ onPointerCancel
    \/ \E p \in Points : onPointerDown(p) \/ onPointerMove(p) \/ onPointerUp(p)

RcvSpec == RcvInit /\ [][RcvNext]_rcvVars

---------------------------------------------------------------------------
RcvTypeOK ==
    /\ container \in Containers /\ aspect \in Aspects /\ drawActive \in BOOLEAN /\ reframed \in BOOLEAN
    /\ dragStart = <<>> \/ dragStart \in Points

\* The frame fits its container, and a box drawn on it lies within it and has
\* the least size, wherever the pointer went, unless the frame changed under
\* the drag (its start then counts from another frame).
DrawnBoxIsInFrame ==
    /\ frameRect.x >= 0 /\ frameRect.x + frameRect.width <= container[1]
    /\ frameRect.y >= 0 /\ frameRect.y + frameRect.height <= container[2]
    /\ draftBox # <<>> /\ ~reframed =>
         /\ draftBox.x >= 0 /\ draftBox.x + draftBox.width <= draftBox.of.width
         /\ draftBox.y >= 0 /\ draftBox.y + draftBox.height <= draftBox.of.height
         /\ draftBox.width >= MinDrawSize /\ draftBox.height >= MinDrawSize
=============================================================================
