--------------------------------- MODULE Boxes ---------------------------------
(***************************************************************************)
(* The geometry every backend shares (src/visionforge/core/schema.py, and  *)
(* the numpy copies of it in models/centernet and models/onnx_backend.py). *)
(*                                                                         *)
(* Coordinates are whole numbers of some small unit that each user of the  *)
(* module names; nothing here is rounded.  An intersection over union is   *)
(* compared with the threshold num/den by cross-multiplication.  The 1e-9  *)
(* that some of the copies add to the union decides nothing then: it only  *)
(* keeps 0/0 out, and two boxes without area have no intersection.         *)
(***************************************************************************)
EXTENDS Integers, Sequences, FiniteSets, Functions

BoxState == [x1 : Int, y1 : Int, x2 : Int, y2 : Int]

Box(x1, y1, x2, y2) == [x1 |-> x1, y1 |-> y1, x2 |-> x2, y2 |-> y2]

Lesser(a, b) == IF a < b THEN a ELSE b
Greater(a, b) == IF a > b THEN a ELSE b

\* max(low, min(high, value)), with the bounds put in order first.
Clamp(v, low, high) ==
    Greater(Lesser(low, high), Lesser(Greater(low, high), v))

\* np.clip on the four coordinates: x inside [0, w], y inside [0, h].
ClipBox(b, w, h) ==
    Box(Clamp(b.x1, 0, w), Clamp(b.y1, 0, h), Clamp(b.x2, 0, w), Clamp(b.y2, 0, h))

\* normalize_bbox without bounds, as Detection.__post_init__ calls it.
Ordered(b) ==
    Box(Lesser(b.x1, b.x2), Lesser(b.y1, b.y2), Greater(b.x1, b.x2), Greater(b.y1, b.y2))

\* normalize_bbox with bounds.
NormalizeBBox(b, w, h) == ClipBox(Ordered(b), w, h)

WellOrdered(b) == b.x1 <= b.x2 /\ b.y1 <= b.y2

Inside(b, w, h) ==
    /\ 0 <= b.x1 /\ b.x1 <= w /\ 0 <= b.x2 /\ b.x2 <= w
    /\ 0 <= b.y1 /\ b.y1 <= h /\ 0 <= b.y2 /\ b.y2 <= h

Area(b) == Greater(0, b.x2 - b.x1) * Greater(0, b.y2 - b.y1)

Intersection(a, b) ==
    Area(Box(Greater(a.x1, b.x1), Greater(a.y1, b.y1), Lesser(a.x2, b.x2), Lesser(a.y2, b.y2)))

Union(a, b) == Area(a) + Area(b) - Intersection(a, b)

\* bbox_iou(a, b) >= num/den, for a threshold above 0.
IouAtLeast(a, b, num, den) ==
    /\ Intersection(a, b) > 0
    /\ den * Intersection(a, b) >= num * Union(a, b)

IouAbove(a, b, num, den) == den * Intersection(a, b) > num * Union(a, b)

\* Is box b at least as close to a as box c is?
Nearer(a, b, c) == Intersection(a, b) * Union(a, c) >= Intersection(a, c) * Union(a, b)
-------------------------------------------------------------------------------
\* Every order argsort may bring these rows into: best score first, equal
\* scores as they come.
Rankings(rows) ==
    {s \in [1..Cardinality(rows) -> rows] :
        IsInjective(s) /\ \A i, j \in DOMAIN s : i < j => s[i].score >= s[j].score}

FirstOf(s, k) == SubSeq(s, 1, Lesser(k, Len(s)))

\* The rows of s that are in a set, in their order: indexing with a mask.
Only(s, rows) ==
    LET upTo[i \in 0..Len(s)] ==
          IF i = 0 THEN << >>
          ELSE IF s[i] \in rows THEN Append(upTo[i - 1], s[i]) ELSE upTo[i - 1]
    IN upTo[Len(s)]

\* Mutant: a row is compared with the best row only.
NmsAgainstBest(ranking, num, den) ==
    Only(ranking, {r \in Range(ranking) : r = ranking[1] \/ ~IouAbove(ranking[1].box, r.box, num, den)})

\* Greedy suppression, `while order.size > 0`: the best row that is left is
\* kept, and every row that overlaps it by more than the threshold goes.
Nms(ranking, num, den) ==
    LET kept[i \in 0..Len(ranking)] ==
          IF i = 0 THEN << >>
          ELSE LET better == kept[i - 1]
               IN IF \E k \in 1..Len(better) : IouAbove(better[k].box, ranking[i].box, num, den)
                  THEN better ELSE Append(better, ranking[i])
    IN kept[Len(ranking)]
===============================================================================
