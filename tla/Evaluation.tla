------------------------------- MODULE Evaluation -------------------------------
(***************************************************************************)
(* evaluate (src/visionforge/models/centernet/engine.py) over a data set   *)
(* (models/centernet/dataset.py): each image is drawn or read, flipped or  *)
(* not, encoded as targets, predicted, decoded and counted, and at the end *)
(* the counts become the mAP that chooses best.pt.                         *)
(*                                                                         *)
(* The network is whatever it has learned: exactly its targets, the        *)
(* targets without one object, or with an object that is not there.  What  *)
(* the loss says of the targets themselves is kept too, for training asks  *)
(* the network for what evaluation then decodes.                           *)
(*                                                                         *)
(* Pixels are left out: of an image only its boxes and classes matter.     *)
(***************************************************************************)
EXTENDS Decode, Network, MeanAP

CONSTANTS
    Shapes,         \* the shapes render_shapes_image may draw: [cls, s, cx, cy]
    Annotations,    \* the VOC images: [w, h, objects], an object's class may be unknown
    MaxShapes,      \* bound: how many shapes an image has
    MaxObjects,     \* max_objects of the data set
    Threshold,      \* score_threshold in the order of heats
    Ghosts,         \* what a bad network may see: [cls, cell, wh, score]
    MaxImages       \* bound: how many images the loader has

ASSUME EvaluationAssumption ==
    /\ MaxShapes \in Nat /\ MaxObjects \in Nat /\ MaxImages \in Nat
    /\ Threshold \in 1..Top
    /\ HeadSide(Size) = TargetSide(Size)    \* or the model could not be trained
    /\ \A s \in Shapes :
        /\ s.cls \in Classes
        /\ s.s \in (Size \div 10)..((Size \div 4) - 1)
        /\ s.cx \in s.s..(Size - s.s - 1) /\ s.cy \in s.s..(Size - s.s - 1)
    /\ \A g \in Ghosts :
        /\ g.cls \in Classes /\ g.cell \in Cells(HeadSide(Size)) /\ g.score \in Nat
        /\ g.wh \in Nat \X Nat /\ g.wh[1] % 4 = 0 /\ g.wh[2] % 4 = 0    \* whole pixels
    /\ \A a \in Annotations :
        a.w \in Nat \ {0} /\ a.h \in Nat \ {0} /\ a.objects \in Seq([cls : Nat, box : BoxState])
    /\ \A a \in Annotations : \A i \in 1..Len(a.objects) :
        /\ (a.objects[i].box.x1 * Size) % a.w = 0 /\ (a.objects[i].box.x2 * Size) % a.w = 0
        /\ (a.objects[i].box.y1 * Size) % a.h = 0 /\ (a.objects[i].box.y2 * Size) % a.h = 0

\* MaxRadius is no bound: no box inside the heatmap has a larger radius.
ASSUME RadiusAssumption ==
    LET limit == Cell * (HeadSide(Size) - 1)
    IN  \A h, w \in 1..limit : \A n \in (MaxRadius + 1)..(limit \div 16) : ~RootsAtLeast(h, w, n)

VARIABLES
    pc,         \* where the loop over the batches is
    objects,    \* boxes and labels of the image at hand
    targets,    \* what _to_tensor_and_targets makes of them
    heads,      \* the network's output
    defect,     \* history: what the network got wrong of this image
    rows,       \* dets[i]
    scores,     \* _scores and _tps, by class
    nGt,        \* _n_gt
    images,     \* how many images were counted
    flawless,   \* history: could every image so far be got right, and was it
    aps         \* ap_per_class, each with the ranking it comes from

evalVars == <<pc, objects, targets, heads, defect, rows, scores, nGt, images, flawless, aps>>

NoTargets == [hm |-> <<>>, slot |-> <<>>]
NoHeads == [hm |-> <<>>, wh |-> <<>>, offset |-> <<>>]

EvalInit ==
    /\ pc = "load"
    /\ objects = <<>> /\ targets = NoTargets /\ heads = NoHeads
    /\ defect = "none" /\ rows = <<>>
    /\ scores = [c \in Classes |-> <<>>]
    /\ nGt = [c \in Classes |-> 0]
    /\ images = 0 /\ flawless = TRUE
    /\ aps = <<>>
-------------------------------------------------------------------------------
\* The label of a drawn shape: for a circle and a triangle too, the square of
\* half side s around the center.
LabelOf(shape) ==
    [cls |-> shape.cls,
     box |-> Box(shape.cx - shape.s, shape.cy - shape.s, shape.cx + shape.s, shape.cy + shape.s)]

\* render_shapes_image.
RenderShapes ==
    /\ pc = "load" /\ images < MaxImages
    /\ \E n \in 1..MaxShapes : \E drawn \in [1..n -> Shapes] :
          objects' = [i \in 1..n |-> LabelOf(drawn[i])]
    /\ pc' = "augment"
    /\ UNCHANGED <<targets, heads, defect, rows, scores, nGt, images, flawless, aps>>

\* _parse and __getitem__ of the VOC data set: objects of unknown classes are
\* skipped, the boxes follow the resize to a square.
ReadAnnotated ==
    /\ pc = "load" /\ images < MaxImages
    /\ \E a \in Annotations :
          LET known == Only(a.objects, {o \in Range(a.objects) : o.cls \in Classes})
              fit(b) == Box((b.x1 * Size) \div a.w, (b.y1 * Size) \div a.h,
                            (b.x2 * Size) \div a.w, (b.y2 * Size) \div a.h)
          IN objects' = [i \in 1..Len(known) |-> [cls |-> known[i].cls, box |-> fit(known[i].box)]]
    /\ pc' = "augment"
    /\ UNCHANGED <<targets, heads, defect, rows, scores, nGt, images, flawless, aps>>

Mirrored(b) == Box(Size - b.x2, b.y1, Size - b.x1, b.y2)

\* _augment: a flip, or none; brightness moves nothing.
Augment ==
    /\ pc = "augment"
    /\ \/ objects' = objects
       \/ objects' = [i \in 1..Len(objects) |-> [objects[i] EXCEPT !.box = Mirrored(objects[i].box)]]
    /\ pc' = "encode"
    /\ UNCHANGED <<targets, heads, defect, rows, scores, nGt, images, flawless, aps>>

\* _to_tensor_and_targets: the targets, and the raw boxes cut to max_objects.
Encode ==
    /\ pc = "encode"
    /\ targets' = BuildTargets(objects, Classes, TargetSide(Size), MaxObjects)
    /\ objects' = FirstOf(objects, MaxObjects)
    /\ pc' = "forward"
    /\ UNCHANGED <<heads, defect, rows, scores, nGt, images, flawless, aps>>

Centers == {targets.slot[k].ind : k \in DOMAIN targets.slot}

\* Which object each shared center shows.
Showings == {f \in [Centers -> DOMAIN targets.slot] : \A c \in Centers : targets.slot[f[c]].ind = c}

\* The output that has the targets' heat and, at the center of every object,
\* its size and offset; where two objects share a center, those of one.
Ideal(chosen) ==
    [hm |-> targets.hm,
     wh |-> [c \in Centers |-> targets.slot[chosen[c]].wh],
     offset |-> [c \in Centers |-> targets.slot[chosen[c]].offset]]

\* CenterNetLoss on the regression heads: masked L1 at ind, times mask.sum().
RegressionLoss(output) ==
    LET distance(a, b) == Greater(a[1] - b[1], b[1] - a[1]) + Greater(a[2] - b[2], b[2] - a[2])
        term(k) ==
            LET s == targets.slot[k]
            IN distance(PairAt(output.wh, s.ind), s.wh) + distance(PairAt(output.offset, s.ind), s.offset)
        masked(k) == IF k \in DOMAIN targets.slot THEN term(k) ELSE 0
        upTo[k \in 0..MaxObjects] == IF k = 0 THEN 0 ELSE upTo[k - 1] + masked(k)
    IN upTo[MaxObjects]

\* neg_loss: its positives are the cells where the target is exactly 1.
Positives(cls) == {c \in DOMAIN targets.hm[cls] : targets.hm[cls][c] = Top}

\* A head with one more cell, or with another value there.
With(head, c, v) == [d \in DOMAIN head \cup {c} |-> IF d = c THEN v ELSE head[d]]

\* model(images).
Predict ==
    /\ pc = "forward"
    /\ \E f \in Showings :
          \/ /\ defect' = "none"
             /\ heads' = Ideal(f)
          \/ \E cls \in Classes, c \in Centers :
                /\ HeatAt(targets.hm[cls], c) = Top
                /\ defect' = "blind"
                /\ heads' = [Ideal(f) EXCEPT !.hm[cls][c] = 0]
          \/ \E g \in Ghosts :
                /\ g.cell \notin Centers
                /\ defect' = "ghost"
                /\ heads' = [Ideal(f) EXCEPT !.hm[g.cls] = With(@, g.cell, Greater(HeatAt(@, g.cell), g.score)),
                                             !.wh = With(@, g.cell, g.wh)]
    /\ pc' = "decode"
    /\ UNCHANGED <<objects, targets, rows, scores, nGt, images, flawless, aps>>

\* The product with down_ratio: units become pixels.
InPixels(row) ==
    [row EXCEPT !.box = Box(row.box.x1 \div 2, row.box.y1 \div 2, row.box.x2 \div 2, row.box.y2 \div 2)]

\* decode_detections.
DecodeImage ==
    /\ pc = "decode"
    /\ ~TorchTopkRaises(HeadSide(Size), TopK)
    /\ \E ranking \in Rankings(PeakRows(heads, HeadSide(Size), Padded(HeadSide(Size)))) :
          LET found == DecodeTorch(ranking, TopK, Threshold, NmsNum, NmsDen)
          IN rows' = [i \in 1..Len(found) |-> InPixels(found[i])]
    /\ pc' = "update"
    /\ UNCHANGED <<objects, targets, heads, defect, scores, nGt, images, flawless, aps>>

\* Can a network say all there is to say of this image?  The objects are
\* within the range the targets can express, no two share a center, and
\* those of one class overlap too little for suppression.
Expressible ==
    LET limit == Cell * (TargetSide(Size) - 1)
        n == Len(objects)
        box(i) == Scaled(objects[i].box)
    IN /\ \A i \in 1..n : Inside(box(i), limit, limit) /\ HasArea(box(i))
       /\ \A i \in 1..n, j \in 1..n : i # j =>
            /\ CenterCell(box(i), TargetSide(Size)) # CenterCell(box(j), TargetSide(Size))
            /\ objects[i].cls = objects[j].cls => ~IouAbove(box(i), box(j), NmsNum, NmsDen)

\* metric.update.  The rows come ranked; a tie may be ranked anew.
Update ==
    /\ pc = "update"
    /\ scores' = [c \in Classes |-> scores[c] \o Matches(OfClass(rows, c), OfClassIn(objects, c))]
    /\ nGt' = [c \in Classes |-> nGt[c] + Len(OfClassIn(objects, c))]
    /\ images' = images + 1
    /\ flawless' = (flawless /\ defect = "none" /\ Expressible)
    /\ pc' = "load"
    /\ objects' = <<>> /\ targets' = NoTargets /\ heads' = NoHeads
    /\ defect' = "none" /\ rows' = <<>>
    /\ UNCHANGED aps

\* The order argsort gives the entries of a class in compute.
EntryRankings(cls) ==
    {[i \in 1..Len(s) |-> [score |-> s[i].score, tp |-> s[i].tp]] :
        s \in Rankings({[score |-> scores[cls][i].score, tp |-> scores[cls][i].tp, n |-> i] :
                          i \in 1..Len(scores[cls])})}

\* metric.compute, after the loader's end or max_batches.
Compute ==
    /\ pc = "load"
    /\ \E order \in {f \in [Classes -> UNION {EntryRankings(c) : c \in Classes}] :
                        \A c \in Classes : f[c] \in EntryRankings(c)} :
          aps' = [c \in {d \in Classes : nGt[d] > 0} |->
                    [entries |-> order[c], ap |-> AveragePrecision(order[c])]]
    /\ pc' = "done"
    /\ UNCHANGED <<objects, targets, heads, defect, rows, scores, nGt, images, flawless>>

EvalNext ==
    \/ RenderShapes \/ ReadAnnotated \/ Augment \/ Encode
    \/ Predict \/ DecodeImage \/ Update \/ Compute

EvalSpec == EvalInit /\ [][EvalNext]_evalVars
-------------------------------------------------------------------------------
\* gaussian_radius: "a box within min_overlap IoU stays inside the splat".  A
\* box whose four sides each move by the radius, outward, inward or not at
\* all, still overlaps the object by 0.7, so the penalty is only lowered
\* where the box would be good enough.
RadiusKeepsOverlap ==
    \A k \in DOMAIN targets.slot :
        LET b == Box(0, 0, targets.slot[k].wh[1], targets.slot[k].wh[2])
            r == Cell * Radius(b.y2, b.x2)
        IN \A dx1, dy1, dx2, dy2 \in {-r, 0, r} :
              r > 0 => IouAtLeast(b, Box(dx1, dy1, b.x2 + dx2, b.y2 + dy2), OverlapNum, OverlapDen)

\* The targets of an image can be learned and read back: each object has its
\* own positive for neg_loss, no splat of another object hides or adds one,
\* the peaks a decoder would find are exactly these positives, and where no
\* two objects share a center the regression loss can reach 0.
TargetsAreLearnable ==
    pc = "forward" =>
        /\ \A cls \in Classes :
              Positives(cls) = {targets.slot[k].ind : k \in {j \in DOMAIN targets.slot : objects[j].cls = cls}}
        /\ \A f \in Showings :
              /\ {<<r.cls, r.cell>> : r \in PeakRows(Ideal(f), HeadSide(Size), Padded(HeadSide(Size)))}
                   = UNION {{cls} \X Positives(cls) : cls \in Classes}
              /\ RegressionLoss(Ideal(f)) = 0
                   <=> \A j, k \in DOMAIN targets.slot :
                          targets.slot[j].ind = targets.slot[k].ind => targets.slot[j] = targets.slot[k]

\* Encoding, decoding and the metric fit together: a network that outputs
\* its targets has the average precision 1 in every class, on images whose
\* objects the targets can express.
PerfectNetworkScoresOne ==
    (pc = "done" /\ flawless) => \A c \in DOMAIN aps : aps[c].ap = Whole * nGt[c]

\* update counts each object at most once: the true positives an image adds
\* to a class are as many as its objects that some row is nearest to and near
\* enough, however many rows there are for one object.
ObjectsFoundOnce ==
    [][pc = "update" => \A c \in Classes :
        LET mine == OfClass(rows, c)
            gt == OfClassIn(objects, c)
            found == {Nearest(mine[i].box, gt) : i \in {j \in 1..Len(mine) : Hits(mine[j].box, gt)}}
        IN TpCum(scores'[c], Len(scores'[c])) - TpCum(scores[c], Len(scores[c])) = Cardinality(found)]_evalVars

\* The average precision that chooses best.pt is the area under the curve of
\* the best precision at each recall, for every order of equal scores.
ApIsArea ==
    pc = "done" => \A c \in DOMAIN aps : aps[c].ap = ReferenceAp(aps[c].entries, nGt[c])
===============================================================================
