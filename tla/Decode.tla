-------------------------------- MODULE Decode --------------------------------
(***************************************************************************)
(* From the heads of CenterNet to boxes: the torch path                    *)
(* (src/visionforge/models/centernet/postprocess.py) and the numpy path    *)
(* of the ONNX backend (models/centernet/infer.py).                        *)
(*                                                                         *)
(* The heads of one image are [hm, wh, offset]: heat by class and cell,    *)
(* and a pair of lengths by cell, in the units of Targets.  Sizes are      *)
(* even, so that half of one is whole.  A row is [cls, score, box]; the    *)
(* box is in units, half an input pixel each: the product with down_ratio  *)
(* is in the choice of the unit.                                           *)
(*                                                                         *)
(* A cell that is no peak has score 0 after suppression.  Such rows fill   *)
(* up a top-k, and never reach a threshold above 0: they are left out.     *)
(***************************************************************************)
EXTENDS Targets

CONSTANTS
    Size,           \* image_size, the input of the network is Size by Size
    NumClasses,     \* num_classes of the checkpoint
    TopK            \* topk

ASSUME DecodeAssumption ==
    Size \in Nat \ {0} /\ TopK \in Nat \ {0} /\ NumClasses \in Nat

Classes == 0..NumClasses - 1

\* The threshold of suppression: 0.5 for CenterNet, where it is never set.  The
\* configuration gives YOLO and ONNX 0.45; no property depends on the number.
NmsNum == 1
NmsDen == 2

\* A 3x3 window of max_pool2d with padding 1: padding never wins.
Near(c, side) == Window(c, 1, side)

\* Mutant: the diagonal shifts are left out.
NearRolledCross(c, side) ==
    {<<(c[1] + dx + side) % side, c[2]>> : dx \in -1..1} \cup {<<c[1], (c[2] + dy + side) % side>> : dy \in -1..1}

\* The nine shifts of np.roll: what leaves at one side enters at the other.
NearRolled(c, side) ==
    {<<(c[1] + dx + side) % side, (c[2] + dy + side) % side>> : dx \in -1..1, dy \in -1..1}

\* A size or an offset is kept where it is not <<0, 0>>.
PairAt(f, c) == IF c \in DOMAIN f THEN f[c] ELSE <<0, 0>>

\* The box of ctdet_decode for the cell c.
BoxAt(heads, c) ==
    LET x == Cell * c[1] + PairAt(heads.offset, c)[1]
        y == Cell * c[2] + PairAt(heads.offset, c)[2]
        w == PairAt(heads.wh, c)[1]
        h == PairAt(heads.wh, c)[2]
    IN Box(x - (w \div 2), y - (h \div 2), x + (w \div 2), y + (h \div 2))

RowAt(heads, cls, c) ==
    [cls |-> cls, score |-> heads.hm[cls][c], box |-> BoxAt(heads, c), cell |-> c]

\* The window of every cell, by padding and by shifts.
Padded(side) == [c \in Cells(side) |-> Near(c, side)]
Rolled(side) == [c \in Cells(side) |-> NearRolled(c, side)]

\* _nms_pool, and the same in _decode_numpy, by the windows used.
PeakRows(heads, side, around) ==
    UNION {{RowAt(heads, cls, c) : c \in
              {p \in DOMAIN heads.hm[cls] :
                  /\ heads.hm[cls][p] > 0
                  /\ \A d \in around[p] : HeatAt(heads.hm[cls], d) <= heads.hm[cls][p]}} :
           cls \in DOMAIN heads.hm}

OfClass(ranking, cls) == Only(ranking, {r \in Range(ranking) : r.cls = cls})

\* torch.topk raises for a k larger than the map of a class; the numpy path
\* takes the smaller of the two.
TorchTopkRaises(side, k) == k > side * side

\* Mutant: objects of different classes suppress each other.
BatchedNmsAllClasses(ranking, num, den) == Nms(ranking, num, den)

\* batched_nms: per class, and the result in the order of the scores.
BatchedNms(ranking, num, den) ==
    Only(ranking, {r \in Range(ranking) : r \in Range(Nms(OfClass(ranking, r.cls), num, den))})

AtLeast(ranking, threshold) == Only(ranking, {r \in Range(ranking) : r.score >= threshold})

\* decode_detections for one image and one order of its peaks.
DecodeTorch(ranking, k, threshold, num, den) ==
    BatchedNms(AtLeast(FirstOf(ranking, k), threshold), num, den)

\* CenterNetOnnxBackend.infer after the session's run: suppression class by
\* class, for n of them; the threshold comes with the FrameResult.
DecodeNumpy(ranking, n, k, num, den) ==
    LET upTo[c \in 0..n] ==
          IF c = 0 THEN << >> ELSE upTo[c - 1] \o Nms(OfClass(FirstOf(ranking, k), c - 1), num, den)
    IN upTo[n]
===============================================================================
