------------------------------- MODULE Inference -------------------------------
(***************************************************************************)
(* One image through the backends (src/visionforge/models): what each of   *)
(* them makes of its network's output, and the FrameResult they all return *)
(* (src/visionforge/core/schema.py), down to the dictionary that is sent.  *)
(*                                                                         *)
(* The networks are external: what they see in an image is an input.  The  *)
(* two CenterNet backends see the same heads; the YOLO backends the same   *)
(* objects, one as raw rows on the letterboxed canvas, one as the results  *)
(* of Ultralytics; the Transformers pipelines have results of their own.   *)
(*                                                                         *)
(* The image is w by h pixels, the network's input Size by Size.  Boxes    *)
(* of a FrameResult are counted in parts of a pixel of the image, Part =   *)
(* 2 * Size of them, so that no division leaves a remainder.               *)
(***************************************************************************)
EXTENDS Decode, Network

CONSTANTS
    Images,         \* the images, [w, h]
    Blobs,          \* what CenterNet may see: [cls, cell, score, wh, offset]
    MaxBlobs,       \* bound: how many of them at once
    Objects,        \* what YOLO may see: [cls, box, score, mask, pose], pixels of the image
    MaxSeen,        \* bound: how many of them at once
    Stray,          \* raw rows of YOLO that belong to no object: [cls, x, y, w, h, score]
    Conf,           \* the confidence threshold, in the order of the scores
    None            \* Python's None

Part == 2 * Size

ASSUME InferenceAssumption ==
    /\ Conf \in Nat \ {0} /\ MaxBlobs \in Nat /\ MaxSeen \in Nat
    /\ None \notin Images
    /\ \A i \in Images : i.w \in Nat \ {0} /\ i.h \in Nat \ {0}
    /\ \A b \in Blobs :
        /\ b.cls \in Classes /\ b.cell \in Cells(HeadSide(Size)) /\ b.score \in Nat
        /\ b.wh \in Int \X Int /\ b.offset \in Int \X Int
    /\ \A b \in Blobs, c \in Blobs : b.cell = c.cell => b.wh = c.wh /\ b.offset = c.offset
    /\ \A o \in Objects : o.box \in BoxState /\ HasArea(o.box) /\ o.score \in Nat
    /\ \A s \in Stray :
        /\ s.x \in Int /\ s.y \in Int /\ s.w \in Int /\ s.h \in Int /\ s.score \in Nat
        /\ (2 * s.x - s.w) % 4 = 0 /\ (2 * s.y - s.h) % 4 = 0

Backends == {"centernet", "centernet-onnx", "onnx", "yolo", "hf", "hf-classes"}

VARIABLES
    image,      \* the image at hand, or None
    asked,      \* the backends it is for
    blobs,      \* what CenterNet sees in it
    seen,       \* what YOLO and Transformers see in it, a sequence
    stray,      \* the raw rows besides
    result,     \* what infer returned, by backend, or Raised
    stored      \* to_dict of the results

vars == <<image, asked, blobs, seen, stray, result, stored>>

Nothing == [b \in {} |-> None]

Init ==
    /\ image = None /\ asked = {} /\ blobs = {} /\ seen = <<>> /\ stray = {}
    /\ result = Nothing /\ stored = Nothing
-------------------------------------------------------------------------------
\* An image arrives: VisionPipeline.infer_array, the API or a job.  It is for
\* one backend, or for both of CenterNet.
Receive ==
    /\ image = None
    /\ image' \in Images
    /\ asked' \in {{"centernet", "centernet-onnx"}, {"onnx"}, {"yolo"}, {"hf"}, {"hf-classes"}}
    /\ IF "centernet" \in asked'
       THEN /\ blobs' \in {B \in SUBSET Blobs : IsFiniteSet(B) /\ Cardinality(B) <= MaxBlobs}
            /\ seen' = <<>> /\ stray' = {}
       ELSE /\ LET visible == {o \in Objects : Inside(o.box, image'.w, image'.h)}
               IN seen' \in UNION {{s \in [1..n -> visible] : IsInjective(s)} : n \in 0..MaxSeen}
            /\ stray' \in {{}} \cup {{s} : s \in Stray}
            /\ blobs' = {}
    /\ UNCHANGED <<result, stored>>

\* What infer returns for the image.
Asked(b) == b \in asked \ DOMAIN result

Plus(f, b, r) == [x \in DOMAIN f \cup {b} |-> IF x = b THEN r ELSE f[x]]

Answer(b, r) ==
    /\ result' = Plus(result, b, r)
    /\ UNCHANGED <<image, asked, blobs, seen, stray, stored>>

\* No image is without a width.
Raised == [detections |-> <<>>, width |-> 0, height |-> 0, rows |-> <<>>]

\* load, at the start of every infer: a package that does not import, a file
\* that is not there.  Nothing is kept, and the next infer tries again.
CannotLoad(b) == Asked(b) /\ Answer(b, Raised)

Detection(label, score, box, cls, mask, pose, id) ==
    [label |-> label, confidence |-> score, bbox |-> Ordered(box), class_id |-> cls,
     mask |-> mask, keypoints |-> pose, track_id |-> id]

Frame(dets, rows) ==
    [detections |-> dets, width |-> image.w, height |-> image.h, rows |-> rows]

\* class_names[cid] if cid < len(class_names) else str(cid), for n names.
Label(cid, n) == IF cid < n THEN <<"name", cid>> ELSE <<"number", cid>>

NumShapes == 3      \* len(SHAPE_CLASSES)

\* load of CenterNetBackend: a checkpoint with another number of classes has
\* them numbered.  The ONNX backend always has SHAPE_CLASSES.
TorchNames == IF NumClasses = NumShapes THEN NumShapes ELSE 0
OnnxNames == NumShapes
-------------------------------------------------------------------------------
Hottest(scores) == CHOOSE s \in scores : \A t \in scores : s >= t

\* The heads for the blobs of the image.
Heads ==
    LET cells == {b.cell : b \in blobs}
        at(c) == CHOOSE b \in blobs : b.cell = c
    IN [hm |-> [cls \in Classes |->
                  LET mine == {b \in blobs : b.cls = cls}
                  IN [c \in {b.cell : b \in mine} |-> Hottest({b.score : b \in {x \in mine : x.cell = c}})]],
        wh |-> [c \in cells |-> at(c).wh],
        offset |-> [c \in cells |-> at(c).offset]]

\* Undo the resize to a square, in parts of a pixel of the image.
Unresized(b) == Box(b.x1 * image.w, b.y1 * image.h, b.x2 * image.w, b.y2 * image.h)

\* Mutant: only the left and the upper border are clipped to.
ToFrameResultHalfClipped(rows, names) ==
    LET box(r) == Unresized(r.box)
        cut(r) == Box(Greater(0, box(r).x1), Greater(0, box(r).y1), box(r).x2, box(r).y2)
        shown == Only(rows, {r \in Range(rows) : r.score >= Conf /\ HasArea(cut(r))})
    IN Frame([i \in 1..Len(shown) |->
                Detection(Label(shown[i].cls, names), shown[i].score, cut(shown[i]),
                          shown[i].cls, None, None, None)], rows)

\* _to_frame_result: the rows that reach the threshold and still have area
\* once they are clipped to the image.
ToFrameResult(rows, names) ==
    LET cut(r) == ClipBox(Unresized(r.box), Part * image.w, Part * image.h)
        shown == Only(rows, {r \in Range(rows) : r.score >= Conf /\ HasArea(cut(r))})
    IN Frame([i \in 1..Len(shown) |->
                Detection(Label(shown[i].cls, names), shown[i].score, cut(shown[i]),
                          shown[i].cls, None, None, None)], rows)

\* CenterNetBackend.infer.
InferCenterNet ==
    /\ Asked("centernet")
    /\ \E ranking \in Rankings(PeakRows(Heads, HeadSide(Size), Padded(HeadSide(Size)))) :
          Answer("centernet",
                 IF TorchTopkRaises(HeadSide(Size), TopK) THEN Raised
                 ELSE ToFrameResult(DecodeTorch(ranking, TopK, Conf, NmsNum, NmsDen), TorchNames))

\* CenterNetOnnxBackend.infer.
InferCenterNetOnnx ==
    /\ Asked("centernet-onnx")
    /\ \E ranking \in Rankings(PeakRows(Heads, HeadSide(Size), Rolled(HeadSide(Size)))) :
          Answer("centernet-onnx",
                 ToFrameResult(DecodeNumpy(ranking, NumClasses, TopK, NmsNum, NmsDen), OnnxNames))
-------------------------------------------------------------------------------
Long == Greater(image.w, image.h)

\* int(round(n * scale)), scale = Size / Long: halves go to the even side.
Shrunk(n) ==
    LET twice == 2 * n * Size
        down == (twice + Long - 1) \div (2 * Long)
        up == (twice + Long) \div (2 * Long)
    IN IF down % 2 = 0 THEN down ELSE up

\* _letterbox: the size of the resized image and where it lies on the canvas.
\* A side that rounds to 0 cannot be resized to, by neither library.
Letterbox ==
    LET nw == Shrunk(image.w)
        nh == Shrunk(image.h)
    IN [nw |-> nw, nh |-> nh, left |-> (Size - nw) \div 2, top |-> (Size - nh) \div 2]

\* Where an ideal network sees a pixel of the image on the canvas, rounded to
\* half a pixel.
OnCanvas(v, n, shrunk, pad) == 2 * pad + ((2 * v * shrunk) \div n)

RawRow(o) ==
    LET x1 == OnCanvas(o.box.x1, image.w, Letterbox.nw, Letterbox.left)
        x2 == OnCanvas(o.box.x2, image.w, Letterbox.nw, Letterbox.left)
        y1 == OnCanvas(o.box.y1, image.h, Letterbox.nh, Letterbox.top)
        y2 == OnCanvas(o.box.y2, image.h, Letterbox.nh, Letterbox.top)
    IN [cls |-> o.cls, score |-> o.score, x |-> x1 + x2, y |-> y1 + y2,
        w |-> 2 * (x2 - x1), h |-> 2 * (y2 - y1)]

\* The output of the session: rows of a center and a size, in quarters of a
\* canvas pixel.
RawRows == {RawRow(seen[i]) : i \in DOMAIN seen} \cup stray

\* Mutant: the padding is taken off after the division by the scale.
UnletterboxedLate(r) ==
    Box(((2 * r.x - r.w) * Long) \div 4 - Letterbox.left * Part, ((2 * r.y - r.h) * Long) \div 4 - Letterbox.top * Part,
        ((2 * r.x + r.w) * Long) \div 4 - Letterbox.left * Part, ((2 * r.y + r.h) * Long) \div 4 - Letterbox.top * Part)

\* Center and size to corners, padding off, divided by the scale.
Unletterboxed(r) ==
    Box((((2 * r.x - r.w) \div 4) - 2 * Letterbox.left) * Long,
        (((2 * r.y - r.h) \div 4) - 2 * Letterbox.top) * Long,
        (((2 * r.x + r.w) \div 4) - 2 * Letterbox.left) * Long,
        (((2 * r.y + r.h) \div 4) - 2 * Letterbox.top) * Long)

\* _postprocess: the class of a row plays no part in the suppression; each
\* side is clipped to the border it faces.
PostProcess ==
    LET row(r) == [cls |-> r.cls, score |-> r.score, box |-> Unletterboxed(r)]
        facing(b) == Box(Greater(0, b.x1), Greater(0, b.y1),
                         Lesser(Part * image.w, b.x2), Lesser(Part * image.h, b.y2))
        good == {row(r) : r \in {x \in RawRows : x.score >= Conf}}
    IN {Frame([i \in 1..Len(kept) |->
                Detection(<<"coco", kept[i].cls>>, kept[i].score, facing(kept[i].box),
                          kept[i].cls, None, None, None)], kept) :
           kept \in {Nms(ranking, NmsNum, NmsDen) : ranking \in Rankings(good)}}

\* OnnxDetectionBackend.predict.
InferOnnx ==
    /\ Asked("onnx")
    /\ \E r \in (IF Letterbox.nw = 0 \/ Letterbox.nh = 0 THEN {Raised} ELSE PostProcess) :
          Answer("onnx", r)
-------------------------------------------------------------------------------
InParts(b) == Box(Part * b.x1, Part * b.y1, Part * b.x2, Part * b.y2)

\* _extract_masks: a polygon that does not convert becomes None.
ExtractMasks(polygons) ==
    [i \in 1..Len(polygons) |-> IF polygons[i] = "malformed" THEN None ELSE polygons[i]]

At(s, i) == IF i <= Len(s) THEN s[i] ELSE None

\* _convert: box, mask, keypoints and track id of one object share an index.
\* A model without masks, keypoints or tracks has none for any object.
Convert(kind) ==
    LET masks == IF kind = "segmentation" THEN ExtractMasks([i \in DOMAIN seen |-> seen[i].mask]) ELSE <<>>
        poses == IF kind = "pose" THEN [i \in DOMAIN seen |-> seen[i].pose] ELSE <<>>
    IN Frame([i \in DOMAIN seen |->
                Detection(<<"names", seen[i].cls>>, seen[i].score, InParts(seen[i].box), seen[i].cls,
                          At(masks, i), At(poses, i), IF kind = "tracking" THEN i ELSE None)], <<>>)

\* YoloBackend.infer, whose model applies threshold and suppression itself.
InferYolo ==
    /\ Asked("yolo")
    /\ \E kind \in {"detection", "segmentation", "pose", "tracking"} : Answer("yolo", Convert(kind))

\* HFDetectionBackend.predict: no class ids.
InferHF ==
    /\ Asked("hf")
    /\ Answer("hf", Frame([i \in DOMAIN seen |->
                             Detection(<<"hf", seen[i].cls>>, seen[i].score, InParts(seen[i].box),
                                       None, None, None, None)], <<>>))

\* HFClassificationBackend.predict: labels of the image, no detections.
InferClasses ==
    /\ Asked("hf-classes")
    /\ Answer("hf-classes", Frame(<<>>, <<>>))
-------------------------------------------------------------------------------
\* round(v, 2) of a coordinate, in hundredths of a pixel.
Hundredths(v) == (2 * 100 * v + Part) \div (2 * Part)

Rounded(b) == Box(Hundredths(b.x1), Hundredths(b.y1), Hundredths(b.x2), Hundredths(b.y2))

\* count_by_label.
CountByLabel(dets) ==
    LET labels == {dets[i].label : i \in DOMAIN dets}
    IN [l \in labels |-> Cardinality({i \in DOMAIN dets : dets[i].label = l})]

\* FrameResult.to_dict, and with it to_dict of every Detection.
ToDict(r) ==
    [width |-> r.width, height |-> r.height, count |-> Len(r.detections),
     counts_by_label |-> CountByLabel(r.detections),
     detections |-> [i \in DOMAIN r.detections |-> [r.detections[i] EXCEPT !.bbox = Rounded(@)]]]

\* The answer of the API, the message of the stream, the result of the job.
Send(b) ==
    /\ b \in DOMAIN result \ DOMAIN stored
    /\ result[b] # Raised
    /\ stored' = Plus(stored, b, ToDict(result[b]))
    /\ UNCHANGED <<image, asked, blobs, seen, stray, result>>

Next ==
    \/ Receive \/ InferCenterNet \/ InferCenterNetOnnx \/ InferOnnx
    \/ InferYolo \/ InferHF \/ InferClasses
    \/ \E b \in Backends : CannotLoad(b) \/ Send(b)

Spec == Init /\ [][Next]_vars
-------------------------------------------------------------------------------
Answered(b) == b \in DOMAIN result /\ result[b] # Raised

Boxes(dets) == {dets[i].bbox : i \in DOMAIN dets}

\* The coordinate convention of the schema: every box is well ordered, before
\* and after rounding.  CenterNet's boxes have area and lie inside the image,
\* whatever the network says; those of the others do if it saw only objects
\* of the image.
ResultsWellFormed ==
    /\ \A b \in {x \in DOMAIN result : Answered(x)} : \A box \in Boxes(result[b].detections) :
          /\ WellOrdered(box)
          /\ b \in {"centernet", "centernet-onnx"} => HasArea(box)
          /\ b \in {"centernet", "centernet-onnx"} \/ stray = {}
               => Inside(box, Part * image.w, Part * image.h)
    /\ \A b \in DOMAIN stored : \A box \in Boxes(stored[b].detections) :
          /\ WellOrdered(box)
          /\ b \in {"centernet", "centernet-onnx"} => Inside(box, 100 * image.w, 100 * image.h)

\* "Two interchangeable backends": from the same heads the torch path and the
\* numpy path make the same detections, if no two scores are equal, no peak
\* at one border has another across the image at the opposite one, and the
\* names are those of the shapes.  (np.roll joins opposite borders.)
PathsAgree ==
    (/\ Answered("centernet") /\ Answered("centernet-onnx")
     /\ NumClasses = NumShapes
     /\ \A b, c \in blobs : b # c =>
          /\ b.score # c.score
          /\ c.cell \notin NearRolled(b.cell, HeadSide(Size)) \ Near(b.cell, HeadSide(Size)))
    => Range(result["centernet"].detections) = Range(result["centernet-onnx"].detections)

\* What the letterbox does to the image, _postprocess undoes: an object comes
\* back where it is, to a pixel of the canvas, although both sides of the
\* resized image were rounded and the scale was not.
SeenWhereItIs ==
    (Answered("onnx") /\ stray = {}) =>
        \A i \in DOMAIN result["onnx"].detections :
            LET d == result["onnx"].detections[i]
                close(u, v) == Greater(u - v, v - u) <= 2 * Long
            IN \E j \in DOMAIN seen :
                  LET b == InParts(seen[j].box)
                  IN /\ d.confidence = seen[j].score
                     /\ close(d.bbox.x1, b.x1) /\ close(d.bbox.y1, b.y1)
                     /\ close(d.bbox.x2, b.x2) /\ close(d.bbox.y2, b.y2)

\* Suppression is neither short nor hasty: of the rows that are kept no two
\* that may suppress each other overlap too much, and a candidate that is gone
\* overlaps too much with a row that was kept and is at least as good.
Justified(kept, candidates, Rivals(_, _)) ==
    /\ \A i, j \in DOMAIN kept : i # j /\ Rivals(kept[i], kept[j])
          => ~IouAbove(kept[i].box, kept[j].box, NmsNum, NmsDen)
    /\ \A r \in candidates : \E i \in DOMAIN kept :
          \/ kept[i] = r
          \/ /\ Rivals(kept[i], r) /\ kept[i].score >= r.score
             /\ IouAbove(kept[i].box, r.box, NmsNum, NmsDen)

SuppressionJustified ==
    LET sameClass(r, q) == r.cls = q.cls
        any(r, q) == TRUE
        peaks == PeakRows(Heads, HeadSide(Size), Padded(HeadSide(Size)))
    IN /\ Answered("centernet") =>
            Justified(result["centernet"].rows,
                      {r \in peaks : r.score >= Conf /\ Cardinality({q \in peaks : q.score >= r.score}) <= TopK},
                      sameClass)
       /\ Answered("onnx") =>
            Justified(result["onnx"].rows,
                      {[cls |-> r.cls, score |-> r.score, box |-> Unletterboxed(r)] :
                          r \in {x \in RawRows : x.score >= Conf}}, any)
===============================================================================
