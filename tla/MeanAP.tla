--------------------------------- MODULE MeanAP ---------------------------------
(***************************************************************************)
(* Mean average precision (src/visionforge/models/centernet/metrics.py),   *)
(* as functions: what update appends for one image and what compute makes  *)
(* of all of it.                                                           *)
(*                                                                         *)
(* A row is [cls, score, box], an object [cls, box], an entry of the       *)
(* accumulators [score, tp].  A precision is counted in parts of Whole,    *)
(* which every rank up to MaxRank divides, an average precision in parts   *)
(* of Whole * n_gt.  The 1e-9 in compute changes no result by more.        *)
(***************************************************************************)
EXTENDS Boxes, FiniteSetsExt

Whole == 60
MaxRank == 6

\* iou_threshold, 0.5.
IouNum == 1
IouDen == 2

OfClassIn(objects, cls) == Only(objects, {o \in Range(objects) : o.cls = cls})

\* np.argmax over a row of iou_matrix: the first of the nearest objects.
Nearest(box, gt) ==
    CHOOSE j \in 1..Len(gt) :
        /\ \A i \in 1..Len(gt) : Nearer(box, gt[j].box, gt[i].box)
        /\ \A i \in 1..j - 1 : ~Nearer(box, gt[i].box, gt[j].box)

Hits(box, gt) == gt # <<>> /\ IouAtLeast(box, gt[Nearest(box, gt)].box, IouNum, IouDen)

\* Mutant: an object may be matched again.
MatchesAgain(rows, gt) ==
    [i \in 1..Len(rows) |-> [score |-> rows[i].score, tp |-> IF Hits(rows[i].box, gt) THEN 1 ELSE 0]]

\* The loop of update over one class, best score first: a row is a true
\* positive when its nearest object is near enough and not matched yet.
Matches(rows, gt) ==
    LET hits(i) == Hits(rows[i].box, gt)
        target(i) == Nearest(rows[i].box, gt)
        matched(i) == \E h \in 1..i - 1 : hits(h) /\ target(h) = target(i)
    IN [i \in 1..Len(rows) |->
          [score |-> rows[i].score, tp |-> IF hits(i) /\ ~matched(i) THEN 1 ELSE 0]]

\* The true positives among the first i entries.
TpCum(entries, i) == Cardinality({j \in 1..i : entries[j].tp = 1})

Precision(entries, i) == (Whole * TpCum(entries, i)) \div i

\* Mutant: precision as it is, not made decreasing from the right.
EnvelopeRaw(entries) == [i \in 1..Len(entries) |-> Precision(entries, i)]

\* The backward loop of _ap_from_pr.
Envelope(entries) ==
    LET n == Len(entries)
        from[i \in 1..n] ==
            IF i = n THEN Precision(entries, i) ELSE Greater(Precision(entries, i), from[i + 1])
    IN from

\* _ap_from_pr: the steps of recall, each as high as the envelope there.  The
\* points added at both ends have no step or no height.
AveragePrecision(entries) ==
    LET env == Envelope(entries)
        area[i \in 0..Len(entries)] ==
            IF i = 0 THEN 0 ELSE area[i - 1] + entries[i].tp * env[i]
    IN area[Len(entries)]
-------------------------------------------------------------------------------
\* The same area, level by level: the best precision at which this many
\* objects are found, or nothing where they never are.
BestAtRecall(entries, m) ==
    Max({0} \cup {Precision(entries, i) : i \in {j \in 1..Len(entries) : TpCum(entries, j) >= m}})

ReferenceAp(entries, nGt) ==
    LET area[m \in 0..nGt] == IF m = 0 THEN 0 ELSE area[m - 1] + BestAtRecall(entries, m)
    IN area[nGt]
===============================================================================
