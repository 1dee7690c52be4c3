-------------------------------- MODULE Targets --------------------------------
(***************************************************************************)
(* The training targets (src/visionforge/models/centernet/targets.py): the *)
(* boxes of one image as a heatmap per class and, per object, a size, an   *)
(* offset and the index of its center.                                     *)
(*                                                                         *)
(* A length is counted in eighths of an output cell, which is half an      *)
(* input pixel: a box with whole pixels, its center, its half width and    *)
(* its offset are then all whole.  An object is [cls, box].                *)
(*                                                                         *)
(* Heat is abstracted to its order.  A splat of radius r is                *)
(* exp(-18 d2 / (2r+1)^2) at the squared distance d2, so two values        *)
(* compare the way d2 / (2r+1)^2 does.  A center has the value Top, which  *)
(* stands for 1.0, and the background 0.                                   *)
(***************************************************************************)
EXTENDS Boxes, SequencesExt

CONSTANTS
    MaxRadius,      \* no box has a larger radius
    Spread,         \* a common multiple of the denominators (2r+1)^2
    Top             \* the heat of a center

\* Whole denominators, and no splat sinks to the background inside its window.
ASSUME HeatAssumption ==
    /\ MaxRadius \in Nat /\ Spread \in Nat /\ Top \in Nat
    /\ \A r \in 0..MaxRadius :
        LET diameter == 2 * r + 1
            q == Spread \div (diameter * diameter)
        IN  q \in Nat \ {0} /\ q * diameter * diameter = Spread /\ 2 * r * r * q < Top

Cell == 8               \* units of a cell

Cells(side) == (0..side - 1) \X (0..side - 1)

\* The cells within r of c in both directions, cut off at the border.
Window(c, r, side) ==
    ((Greater(0, c[1] - r)..Lesser(side - 1, c[1] + r))
        \X (Greater(0, c[2] - r)..Lesser(side - 1, c[2] + r)))

\* A heatmap is kept where it is above the background.
HeatAt(heat, c) == IF c \in DOMAIN heat THEN heat[c] ELSE 0

\* min_overlap, 0.7.
OverlapNum == 7
OverlapDen == 10

\* Mutant: r2, the box that shrinks at both ends, is left out.
RootsAtLeastTwo(h, w, n) ==
    /\ 16 * n <= h + w
    /\ 1088 * n * n - 136 * n * (h + w) + 3 * h * w >= 0
    /\ 1792 * n * n + 112 * n * (h + w) <= 3 * h * w

\* Are r1, r2 and r3 all at least n?  Each is a root of a quadratic; r >= n
\* is solved for its square root, squared, and multiplied up to whole numbers.
RootsAtLeast(h, w, n) ==
    /\ 32 * n <= h + w
    /\ 1088 * n * n - 136 * n * (h + w) + 3 * h * w >= 0
    /\ 2560 * n * n - 160 * n * (h + w) + 3 * h * w >= 0
    /\ 1792 * n * n + 112 * n * (h + w) <= 3 * h * w

\* max(0, int(gaussian_radius((h, w)))).
Radius(h, w) == Max({n \in 0..MaxRadius : n = 0 \/ RootsAtLeast(h, w, n)})

\* Two cells' squared distance.
Apart(c, d) == (c[1] - d[1]) * (c[1] - d[1]) + (c[2] - d[2]) * (c[2] - d[2])

\* _gaussian2d of diameter 2 * radius + 1.
Splat(center, radius, c) ==
    Top - Apart(center, c) * (Spread \div ((2 * radius + 1) * (2 * radius + 1)))

\* Mutant: the splat replaces what it finds.
DrawGaussianOver(heat, center, radius, side) ==
    LET window == Window(center, radius, side)
    IN [c \in window \cup DOMAIN heat |-> IF c \in window THEN Splat(center, radius, c) ELSE heat[c]]

\* draw_gaussian: the part of the splat inside the heatmap, the larger value
\* wherever two splats meet.
DrawGaussian(heat, center, radius, side) ==
    LET window == Window(center, radius, side)
    IN [c \in window \cup DOMAIN heat |->
          IF c \in window THEN Greater(HeatAt(heat, c), Splat(center, radius, c)) ELSE heat[c]]
-------------------------------------------------------------------------------
\* A box of input pixels, in units.
Scaled(b) == Box(2 * b.x1, 2 * b.y1, 2 * b.x2, 2 * b.y2)

\* The box as build_targets encodes it: the last cell's origin is the limit.
OutputBox(b, side) == ClipBox(Scaled(b), Cell * (side - 1), Cell * (side - 1))

HasArea(b) == b.x1 < b.x2 /\ b.y1 < b.y2

Middle(b) == <<(b.x1 + b.x2) \div 2, (b.y1 + b.y2) \div 2>>

CenterCell(b, side) ==
    <<Lesser(Middle(b)[1] \div Cell, side - 1), Lesser(Middle(b)[2] \div Cell, side - 1)>>

\* What goes into wh[k], offset[k] and ind[k].
Slot(b, side) ==
    LET c == CenterCell(b, side)
    IN [ind |-> c,
        wh |-> <<b.x2 - b.x1, b.y2 - b.y1>>,
        offset |-> <<Middle(b)[1] - Cell * c[1], Middle(b)[2] - Cell * c[2]>>]

\* build_targets: the objects beyond maxObjects are left out, those without
\* area after clipping too, although they keep their slot.
BuildTargets(objects, classes, side, maxObjects) ==
    LET n == Lesser(Len(objects), maxObjects)
        box(k) == OutputBox(objects[k].box, side)
        used == {k \in 1..n : HasArea(box(k))}
        splat(heat, k) ==
            DrawGaussian(heat, CenterCell(box(k), side),
                         Radius(box(k).y2 - box(k).y1, box(k).x2 - box(k).x1), side)
        heatmap(cls) ==
            LET upTo[k \in 0..n] ==
                  IF k = 0 THEN <<>>
                  ELSE IF k \in used /\ objects[k].cls = cls THEN splat(upTo[k - 1], k) ELSE upTo[k - 1]
            IN upTo[n]
    IN [hm |-> [cls \in classes |-> heatmap(cls)],
        slot |-> [k \in used |-> Slot(box(k), side)]]
===============================================================================
