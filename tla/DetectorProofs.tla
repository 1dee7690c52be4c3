----------------------------- MODULE DetectorProofs -----------------------------
(***************************************************************************)
(* Theorems about Boxes, Network, Inference and Evaluation, for boxes,     *)
(* images, inputs, networks and thresholds of any size.                    *)
(*                                                                         *)
(* In this order: boxes (NormalizedIsWellFormed, IouIsARatio); the shapes  *)
(* of the network (HeadsFitTargets, ResidualsAdd); selections from a       *)
(* sequence; rankings and suppression, up to GreedyIsUnique; the invariant *)
(* of Inference, Provenance; and its four properties, each from Provenance *)
(* by a lemma about states: SuppressionIsJustified, LetterboxIsUndone,     *)
(* BoxesAreWellFormed, PathsDoAgree.  Then the radius of a splat           *)
(* (RadiusIsSafe), what is typed in the loop of Evaluation (LoopTyped),    *)
(* and its properties: RadiiAreSafe, FoundOnce, ApIsTheArea, the last with *)
(* the invariant NoneInvented, TargetsCanBeLearned with Encoded, and       *)
(* PerfectScoresOne with Perfect.                                          *)
(*                                                                         *)
(* What a recursive function computes is shown by induction over a set of  *)
(* numbers: SetInduction.                                                  *)
(***************************************************************************)
EXTENDS Evaluation, Inference, SequenceTheorems, FiniteSetTheorems, TLAPS

\* A clamped number lies between the bounds, stays where it is if it lay
\* there, and keeps its side of any other number.
LEMMA ClampIs ==
    ASSUME NEW v \in Int, NEW w \in Nat
    PROVE  /\ Clamp(v, 0, w) \in 0..w
           /\ v \in 0..w => Clamp(v, 0, w) = v
           /\ \A u \in Int : u <= v => Clamp(u, 0, w) <= Clamp(v, 0, w)
BY DEF Clamp, Lesser, Greater

\* Detection boxes: whatever corners a backend gives, normalize_bbox makes an
\* ordered box inside the image of them, and one that was so already is left
\* alone, so that it does not matter how many layers normalize it.
THEOREM NormalizedIsWellFormed ==
    ASSUME NEW b \in BoxState, NEW w \in Nat, NEW h \in Nat
    PROVE  LET n == NormalizeBBox(b, w, h)
           IN  /\ WellOrdered(n) /\ Inside(n, w, h)
               /\ NormalizeBBox(n, w, h) = n
               /\ WellOrdered(b) /\ Inside(b, w, h) => n = b
<1>. DEFINE n == NormalizeBBox(b, w, h)
            o == Ordered(b)
<1>1. /\ b.x1 \in Int /\ b.y1 \in Int /\ b.x2 \in Int /\ b.y2 \in Int
      /\ b = Box(b.x1, b.y1, b.x2, b.y2)
  BY DEF BoxState, Box
<1>2. ASSUME NEW c \in BoxState, WellOrdered(c)
      PROVE  /\ WellOrdered(ClipBox(c, w, h)) /\ Inside(ClipBox(c, w, h), w, h)
             /\ ClipBox(c, w, h) \in BoxState
             /\ Inside(c, w, h) => ClipBox(c, w, h) = c
  <2>1. /\ c.x1 \in Int /\ c.y1 \in Int /\ c.x2 \in Int /\ c.y2 \in Int
        /\ c = [x1 |-> c.x1, y1 |-> c.y1, x2 |-> c.x2, y2 |-> c.y2]
    BY DEF BoxState
  <2>2. c.x1 <= c.x2 /\ c.y1 <= c.y2
    BY <1>2 DEF WellOrdered
  <2>3. /\ Clamp(c.x1, 0, w) \in 0..w /\ Clamp(c.x2, 0, w) \in 0..w
        /\ Clamp(c.x1, 0, w) <= Clamp(c.x2, 0, w)
    BY <2>1, <2>2, ClampIs
  <2>4. /\ Clamp(c.y1, 0, h) \in 0..h /\ Clamp(c.y2, 0, h) \in 0..h
        /\ Clamp(c.y1, 0, h) <= Clamp(c.y2, 0, h)
    BY <2>1, <2>2, ClampIs
  <2>5. Inside(c, w, h) => /\ Clamp(c.x1, 0, w) = c.x1 /\ Clamp(c.x2, 0, w) = c.x2
                           /\ Clamp(c.y1, 0, h) = c.y1 /\ Clamp(c.y2, 0, h) = c.y2
    BY <2>1, ClampIs DEF Inside
  <2>. QED
    BY <2>1, <2>3, <2>4, <2>5 DEF ClipBox, Box, WellOrdered, Inside, BoxState
<1>3. o \in BoxState /\ WellOrdered(o)
  BY <1>1 DEF Ordered, Box, BoxState, WellOrdered, Lesser, Greater
<1>4. ASSUME NEW c \in BoxState, WellOrdered(c) PROVE Ordered(c) = c
  BY <1>4 DEF Ordered, Box, BoxState, WellOrdered, Lesser, Greater
<1>5. n = ClipBox(o, w, h)
  BY DEF NormalizeBBox
<1>6. WellOrdered(n) /\ Inside(n, w, h) /\ n \in BoxState
  BY <1>2, <1>3, <1>5
<1>7. NormalizeBBox(n, w, h) = n
  BY <1>2, <1>4, <1>6 DEF NormalizeBBox
<1>8. WellOrdered(b) /\ Inside(b, w, h) => n = b
  BY <1>2, <1>4, <1>5
<1>. QED
  BY <1>6, <1>7, <1>8
-------------------------------------------------------------------------------
\* Products of sides grow with the sides.
LEMMA ProductsGrow ==
    ASSUME NEW a \in Nat, NEW b \in Nat, NEW c \in Nat, NEW d \in Nat, a <= c, b <= d
    PROVE  a * b \in Nat /\ a * b <= c * d
<1>1. PICK e \in Nat : c = a + e
  <2>1. c - a \in Nat /\ c = a + (c - a)
    OBVIOUS
  <2>. QED
    BY <2>1
<1>2. PICK f \in Nat : d = b + f
  <2>1. d - b \in Nat /\ d = b + (d - b)
    OBVIOUS
  <2>. QED
    BY <2>1
<1>3. a * b \in Nat /\ a * f \in Nat /\ e * b \in Nat /\ e * f \in Nat
  OBVIOUS
<1>4. (a + e) * (b + f) = a * b + a * f + e * b + e * f
  OBVIOUS
<1>. QED
  BY <1>1, <1>2, <1>3, <1>4

\* A product is 0 only if a factor is.
LEMMA NoZeroFactor ==
    ASSUME NEW a \in Nat, NEW b \in Nat
    PROVE  a * b = 0 <=> a = 0 \/ b = 0
<1>1. CASE b = 0
  BY <1>1
<1>2. CASE b # 0
  <2>1. a * 1 <= a * b /\ a * 1 = a /\ a * b \in Nat
    BY <1>2, ProductsGrow
  <2>. QED
    BY <1>2, <2>1
<1>. QED
  BY <1>1, <1>2

\* What two boxes have in common is no larger than either.
LEMMA AreasAre ==
    ASSUME NEW a \in BoxState, NEW b \in BoxState
    PROVE  /\ Area(a) \in Nat /\ Area(b) \in Nat /\ Intersection(a, b) \in Nat
           /\ Intersection(a, b) <= Area(a) /\ Intersection(a, b) <= Area(b)
           /\ Intersection(b, a) = Intersection(a, b)
<1>1. /\ a.x1 \in Int /\ a.y1 \in Int /\ a.x2 \in Int /\ a.y2 \in Int
      /\ b.x1 \in Int /\ b.y1 \in Int /\ b.x2 \in Int /\ b.y2 \in Int
  BY DEF BoxState
<1>. DEFINE aw == Greater(0, a.x2 - a.x1)
            ah == Greater(0, a.y2 - a.y1)
            bw == Greater(0, b.x2 - b.x1)
            bh == Greater(0, b.y2 - b.y1)
            iw == Greater(0, Lesser(a.x2, b.x2) - Greater(a.x1, b.x1))
            ih == Greater(0, Lesser(a.y2, b.y2) - Greater(a.y1, b.y1))
<1>2. aw \in Nat /\ ah \in Nat /\ bw \in Nat /\ bh \in Nat /\ iw \in Nat /\ ih \in Nat
  BY <1>1 DEF Greater, Lesser
<1>3. iw <= aw /\ iw <= bw
  BY <1>1 DEF Greater, Lesser
<1>4. ih <= ah /\ ih <= bh
  BY <1>1 DEF Greater, Lesser
<1>5. Area(a) = aw * ah /\ Area(b) = bw * bh /\ Intersection(a, b) = iw * ih
  BY DEF Area, Intersection, Box
<1>6. Intersection(b, a) = iw * ih
  <2>1. /\ Greater(b.x1, a.x1) = Greater(a.x1, b.x1) /\ Greater(b.y1, a.y1) = Greater(a.y1, b.y1)
        /\ Lesser(b.x2, a.x2) = Lesser(a.x2, b.x2) /\ Lesser(b.y2, a.y2) = Lesser(a.y2, b.y2)
    BY <1>1 DEF Greater, Lesser
  <2>. QED
    BY <1>5, <2>1 DEF Intersection
<1>. HIDE DEF aw, ah, bw, bh, iw, ih
<1>7. /\ iw * ih \in Nat /\ aw * ah \in Nat /\ bw * bh \in Nat
      /\ iw * ih <= aw * ah /\ iw * ih <= bw * bh
  BY <1>2, <1>3, <1>4, ProductsGrow
<1>. QED
  BY <1>5, <1>6, <1>7

\* bbox_iou is symmetric and never above 1, whatever boxes it is given: two
\* suppressions of the same rows do not depend on who asks, and a threshold
\* of 1 suppresses nothing.
THEOREM IouIsARatio ==
    ASSUME NEW a \in BoxState, NEW b \in BoxState
    PROVE  /\ Intersection(a, b) = Intersection(b, a) /\ Union(a, b) = Union(b, a)
           /\ 0 <= Intersection(a, b) /\ Intersection(a, b) <= Union(a, b)
           /\ ~IouAbove(a, b, 1, 1)
BY AreasAre DEF Union, IouAbove
-------------------------------------------------------------------------------
\* The side of the heads, for any input: eight cells for every 32 pixels that
\* were begun.
LEMMA HeadSideIs ==
    ASSUME NEW side \in Nat \ {0}
    PROVE  HeadSide(side) = 8 * ((side + 31) \div 32)
<1>. DEFINE half(n) == ((n - 1) \div 2) + 1
<1>1. ASSUME NEW n \in Nat \ {0}
      PROVE  /\ ConvSide(n, 7, 2, 3) = half(n) /\ ConvSide(n, 3, 2, 1) = half(n)
             /\ ConvSide(n, 3, 1, 1) = n /\ half(n) \in Nat \ {0} /\ half(n) = (n + 1) \div 2
  BY <1>1 DEF ConvSide
<1>2. Stem(side, 2).side = half(half(side))
  BY <1>1 DEF Stem, Feature
<1>. DEFINE s5 == half(half(half(half(half(side)))))
<1>3. ASSUME NEW f, f.side \in Nat \ {0}, NEW ch
      PROVE  Stage(f, ch, 1).side = f.side /\ Stage(f, ch, 2).side = half(f.side)
  BY <1>1, <1>3 DEF Stage, BlockMain, Conv3x3, Feature
<1>4. /\ half(half(side)) \in Nat \ {0} /\ half(half(half(side))) \in Nat \ {0}
      /\ half(half(half(half(side)))) \in Nat \ {0} /\ s5 \in Nat \ {0}
  BY <1>1
<1>5. Backbone(side, 2).side = s5
  BY <1>2, <1>3, <1>4 DEF Backbone
<1>6. ASSUME NEW f, f.side \in Nat \ {0}, NEW ch
      PROVE  Deconv(Conv3x3(f, ch, 1)).side = 2 * f.side
  BY <1>1, <1>6 DEF Deconv, Conv3x3, Feature
<1>7. HeadSide(side) = 2 * (2 * (2 * s5))
  BY <1>4, <1>5, <1>6 DEF HeadSide, Neck
<1>8. s5 = (side + 31) \div 32
  BY <1>1, <1>4
<1>. QED
  BY <1>7, <1>8

\* The three heads have one side, the same in every variant; and they have the
\* side of the targets exactly when 32 divides the input's, which is when
\* "stride 4" is true.  Otherwise a loss is defined by broadcasting only, if
\* the targets are a single cell.
THEOREM HeadsFitTargets ==
    ASSUME NEW side \in Nat \ {0}
    PROVE  /\ \A variant \in Variants, classes \in Nat :
                LET out == ForwardShapes(side, variant, classes)
                IN  out.hm = Feature(HeadSide(side), classes)
                    /\ out.wh = Feature(HeadSide(side), 2) /\ out.offset = out.wh
           /\ HeadSide(side) = TargetSide(side) <=> side % 32 = 0
           /\ LossIsDefined(side) <=> side % 32 = 0 \/ side \in 4..7
<1>1. ASSUME NEW variant \in Variants, NEW classes \in Nat
      PROVE  LET out == ForwardShapes(side, variant, classes)
             IN  out.hm = Feature(HeadSide(side), classes)
                 /\ out.wh = Feature(HeadSide(side), 2) /\ out.offset = out.wh
  <2>. DEFINE w == HalfWidths(variant)
              chs == NeckChannels(variant)
              feat == Neck(Backbone(side, w), chs)
  <2>1. \A f, g : \A u, v : \A s \in {1, 2} : f.side = g.side => Stage(f, u, s).side = Stage(g, v, s).side
    BY DEF Stage, BlockMain, Conv3x3, Feature
  <2>2. Stem(side, w).side = Stem(side, 2).side
    BY DEF Stem, Feature
  <2>3. Backbone(side, w).side = Backbone(side, 2).side
    <3>. DEFINE s1(v) == Stage(Stem(side, v), Channels(2, v), 1)
                s2(v) == Stage(s1(v), Channels(3, v), 2)
                s3(v) == Stage(s2(v), Channels(4, v), 2)
    <3>1. s1(w).side = s1(2).side
      BY <2>1, <2>2
    <3>2. s2(w).side = s2(2).side
      BY <2>1, <3>1
    <3>3. s3(w).side = s3(2).side
      BY <2>1, <3>2
    <3>. QED
      BY <2>1, <3>3 DEF Backbone
  <2>4. \A f, g : \A u, v : f.side = g.side => Deconv(Conv3x3(f, u, 1)).side = Deconv(Conv3x3(g, v, 1)).side
    BY DEF Deconv, Conv3x3, Feature
  <2>5. feat.side = HeadSide(side)
    BY <2>3, <2>4 DEF HeadSide, Neck
  <2>6. HeadSide(side) \in Int
    BY HeadSideIs
  <2>7. \A out : OutputHead(feat, out) = Feature(HeadSide(side), out)
    BY <2>5, <2>6 DEF OutputHead, Conv1x1, Conv3x3, ConvSide, Feature
  <2>. QED
    BY <2>7 DEF ForwardShapes
<1>2. HeadSide(side) = TargetSide(side) <=> side % 32 = 0
  <2>1. PICK q \in Nat, r \in 0..31 : side = 32 * q + r
    <3>1. side = 32 * (side \div 32) + (side % 32) /\ side \div 32 \in Nat /\ (side % 32) \in 0..31
      OBVIOUS
    <3>. QED
      BY <3>1
  <2>2. side % 32 = r
    BY <2>1
  <2>3. TargetSide(side) = 8 * q + r \div 4
    BY <2>1 DEF TargetSide, DownRatio
  <2>4. HeadSide(side) = IF r = 0 THEN 8 * q ELSE 8 * q + 8
    <3>1. \A p \in Nat, s \in 0..31 : (32 * p + s + 31) \div 32 = IF s = 0 THEN p ELSE p + 1
      OBVIOUS
    <3>2. HeadSide(side) = 8 * ((side + 31) \div 32)
      BY HeadSideIs
    <3>. QED
      BY <2>1, <3>1, <3>2
  <2>5. r \div 4 \in 0..7 /\ (r = 0 => r \div 4 = 0)
    OBVIOUS
  <2>. QED
    BY <2>1, <2>2, <2>3, <2>4, <2>5
<1>3. TargetSide(side) = 1 <=> side \in 4..7
  BY DEF TargetSide, DownRatio
<1>. QED
  BY <1>1, <1>2, <1>3 DEF LossIsDefined

\* The two ways through a BasicBlock have one shape, so their sum is defined,
\* for any map, any number of channels and both strides the code uses.
THEOREM ResidualsAdd ==
    ASSUME NEW f \in [side : Nat \ {0}, ch : Nat], NEW out \in Nat, NEW stride \in {1, 2}
    PROVE  BlockMain(f, out, stride) = BlockShortcut(f, out, stride)
<1>1. f.side \in Nat \ {0} /\ f = [side |-> f.side, ch |-> f.ch]
  OBVIOUS
<1>2. ConvSide(f.side, 3, 1, 1) = f.side /\ ConvSide(f.side, 1, 1, 0) = f.side
  BY <1>1 DEF ConvSide
<1>3. ConvSide(f.side, 3, 2, 1) = ConvSide(f.side, 1, 2, 0)
  BY <1>1 DEF ConvSide
<1>4. ConvSide(f.side, 3, 2, 1) \in Nat \ {0}
  BY <1>1 DEF ConvSide
<1>5. \A n \in Nat \ {0} : ConvSide(n, 3, 1, 1) = n
  BY DEF ConvSide
<1>6. CASE stride = 1
  BY <1>1, <1>2, <1>5, <1>6 DEF BlockMain, BlockShortcut, Conv3x3, Conv1x1, Feature
<1>7. CASE stride = 2
  BY <1>1, <1>3, <1>4, <1>5, <1>7 DEF BlockMain, BlockShortcut, Conv3x3, Conv1x1, Feature
<1>. QED
  BY <1>6, <1>7
-------------------------------------------------------------------------------
\* Induction: a set with 0 in it that is closed under + 1.
LEMMA SetInduction ==
    ASSUME NEW P, 0 \in P, \A n \in Nat : n \in P => n + 1 \in P
    PROVE  Nat \subseteq P
<1>. SUFFICES ASSUME Nat \ P # {} PROVE FALSE
  OBVIOUS
<1>. DEFINE R == OpToRel(<, Nat)
<1>1. IsWellFoundedOn(R, Nat)
  BY NatLessThanWellFounded, Zenon
<1>2. \A n \in Nat : <<n, n + 1>> \in R
  <2>1. R = {ss \in Nat \X Nat : ss[1] < ss[2]}
    BY Zenon DEF OpToRel
  <2>. HIDE DEF R
  <2>. QED
    BY <2>1
<1>. HIDE DEF R
<1>3. PICK x \in Nat \ P : \A y \in Nat \ P : ~(<<y, x>> \in R)
  BY <1>1, WFMin, Zenon
<1>4. PICK y \in Nat : x = y + 1
  <2>1. x # 0 /\ x - 1 \in Nat /\ x = (x - 1) + 1
    OBVIOUS
  <2>. QED
    BY <2>1
<1>. QED
  BY <1>2, <1>3, <1>4

\* The type of a step from place i - 1 to place i.
StepOf(step, n, V) == step \in [(1..n) \X V -> V]

\* g is what the recursion from base by step computes, up to n.
Solution(g, n, V, base, step) ==
    g \in [0..n -> V] /\ g[0] = base /\ \A i \in 1..n : g[i] = step[<<i, g[i - 1]>>]

\* A recursion over 1..n has a solution.
LEMMA Recursion ==
    ASSUME NEW n \in Nat, NEW V, NEW base \in V, NEW step, StepOf(step, n, V)
    PROVE  \E g : Solution(g, n, V, base, step)
<1>. USE DEF StepOf, Solution
<1>. DEFINE Solves(g, m) == g[0] = base /\ \A i \in 1..m : g[i] = step[<<i, g[i - 1]>>]
            P == {m \in Nat : m <= n => \E g \in [0..m -> V] : Solves(g, m)}
<1>1. 0 \in P
  <2>1. [i \in 0..0 |-> base] \in [0..0 -> V] /\ Solves([i \in 0..0 |-> base], 0)
    OBVIOUS
  <2>. QED
    BY <2>1
<1>2. ASSUME NEW m \in Nat, m \in P PROVE m + 1 \in P
  <2>. SUFFICES ASSUME m + 1 <= n PROVE \E g \in [0..m + 1 -> V] : Solves(g, m + 1)
    OBVIOUS
  <2>1. PICK g \in [0..m -> V] : Solves(g, m)
    BY <1>2
  <2>. DEFINE h == [i \in 0..m + 1 |-> IF i = m + 1 THEN step[<<m + 1, g[m]>>] ELSE g[i]]
  <2>2. g[m] \in V /\ <<m + 1, g[m]>> \in (1..n) \X V
    BY <2>1
  <2>3. step[<<m + 1, g[m]>>] \in V
    BY <2>2
  <2>4. h \in [0..m + 1 -> V]
    BY <2>1, <2>3
  <2>5. Solves(h, m + 1)
    <3>1. h[0] = base
      BY <2>1
    <3>2. ASSUME NEW i \in 1..m + 1 PROVE h[i] = step[<<i, h[i - 1]>>]
      <4>1. h[i - 1] = g[i - 1]
        BY <2>1
      <4>2. CASE i = m + 1
        <5>1. h[i] = step[<<m + 1, g[m]>>] /\ i - 1 = m
          BY <4>2
        <5>. QED
          BY <4>1, <4>2, <5>1
      <4>3. CASE i # m + 1
        <5>1. i \in 1..m /\ h[i] = g[i]
          BY <4>3
        <5>. QED
          BY <2>1, <4>1, <5>1
      <4>. QED
        BY <4>2, <4>3
    <3>. QED
      BY <3>1, <3>2
  <2>. QED
    BY <2>4, <2>5
<1>3. n \in P
  <2>. HIDE DEF P
  <2>. QED
    BY <1>1, <1>2, SetInduction
<1>. QED
  BY <1>3

\* t is made of some of the first m elements of s, in their order.
Places(t, s, m, h) ==
    /\ h \in [1..Len(t) -> 1..m]
    /\ \A i, j \in 1..Len(t) : i < j => h[i] < h[j]
    /\ \A i \in 1..Len(t) : t[i] = s[h[i]]

\* t is such a selection.
Picks(t, s, m) == \E h : Places(t, s, m, h)

\* f goes over s and takes each element or leaves it.
Scans(f, s) ==
    /\ f[0] = << >>
    /\ \A i \in 1..Len(s) : f[i] = f[i - 1] \/ f[i] = Append(f[i - 1], s[i])

\* One row more.
LEMMA AppendIs ==
    ASSUME NEW S, NEW t \in Seq(S), NEW e \in S
    PROVE  /\ Append(t, e) \in Seq(S) /\ Len(Append(t, e)) = Len(t) + 1
           /\ \A k \in 1..Len(t) : Append(t, e)[k] = t[k]
           /\ Append(t, e)[Len(t) + 1] = e
BY AppendProperties

\* What goes over s, taking or leaving, has picked from what it saw so far.
LEMMA ScanPicks ==
    ASSUME NEW S, NEW s \in Seq(S), NEW f, Scans(f, s)
    PROVE  \A i \in 0..Len(s) : f[i] \in Seq(S) /\ Picks(f[i], s, i)
<1>. DEFINE P == {i \in Nat : i <= Len(s) => f[i] \in Seq(S) /\ Picks(f[i], s, i)}
<1>1. 0 \in P
  <2>1. << >> \in Seq(S) /\ Len(<< >>) = 0
    BY EmptySeq
  <2>2. Places(<< >>, s, 0, [k \in 1..Len(<< >>) |-> k])
    BY <2>1 DEF Places
  <2>. QED
    BY <2>1, <2>2 DEF Scans, Picks
<1>2. ASSUME NEW i \in Nat, i \in P PROVE i + 1 \in P
  <2>. SUFFICES ASSUME i + 1 <= Len(s) PROVE f[i + 1] \in Seq(S) /\ Picks(f[i + 1], s, i + 1)
    OBVIOUS
  <2>. DEFINE t == f[i]
  <2>1. t \in Seq(S) /\ Len(t) \in Nat /\ Len(s) \in Nat
    BY <1>2, LenProperties
  <2>2. PICK h : Places(t, s, i, h)
    BY <1>2, <2>1 DEF Picks
  <2>3. i + 1 \in 1..Len(s) /\ s[i + 1] \in S
    BY <2>1, ElementOfSeq
  <2>4. f[i + 1] = t \/ f[i + 1] = Append(t, s[i + 1])
    BY <2>3 DEF Scans
  <2>. HIDE DEF t
  <2>5. CASE f[i + 1] = t
    <3>1. Places(t, s, i + 1, h)
      BY <2>2 DEF Places
    <3>. QED
      BY <2>1, <2>5, <3>1 DEF Picks
  <2>6. CASE f[i + 1] = Append(t, s[i + 1])
    <3>. DEFINE u == Append(t, s[i + 1])
                m == [k \in 1..Len(t) + 1 |-> IF k = Len(t) + 1 THEN i + 1 ELSE h[k]]
    <3>1. /\ u \in Seq(S) /\ Len(u) = Len(t) + 1
          /\ \A k \in 1..Len(t) : u[k] = t[k]
          /\ u[Len(t) + 1] = s[i + 1]
      BY <2>1, <2>3, AppendIs
    <3>. HIDE DEF u
    <3>2. \A k \in 1..Len(t) : h[k] \in 1..i
      BY <2>2 DEF Places
    <3>3. m \in [1..Len(u) -> 1..i + 1]
      BY <2>1, <3>1, <3>2
    <3>4. ASSUME NEW j \in 1..Len(u), NEW k \in 1..Len(u), j < k PROVE m[j] < m[k]
      <4>1. j \in 1..Len(t) /\ m[j] = h[j]
        BY <2>1, <3>1, <3>4
      <4>2. CASE k = Len(t) + 1
        BY <2>1, <3>1, <3>2, <4>1, <4>2
      <4>3. CASE k # Len(t) + 1
        <5>1. k \in 1..Len(t) /\ m[k] = h[k]
          BY <2>1, <3>1, <4>3
        <5>2. \A x, y \in 1..Len(t) : x < y => h[x] < h[y]
          BY <2>2, Zenon DEF Places
        <5>. QED
          BY <3>4, <4>1, <5>1, <5>2, Zenon
      <4>. QED
        BY <4>2, <4>3
    <3>5. ASSUME NEW k \in 1..Len(u) PROVE u[k] = s[m[k]]
      BY <2>1, <2>2, <3>1 DEF Places
    <3>6. Places(u, s, i + 1, m)
      BY <3>3, <3>4, <3>5 DEF Places
    <3>. QED
      BY <2>6, <3>1, <3>6 DEF Picks, u
  <2>. QED
    BY <2>4, <2>5, <2>6
<1>3. Nat \subseteq P
  <2>. HIDE DEF P
  <2>. QED
    BY <1>1, <1>2, SetInduction
<1>. QED
  BY <1>3, LenProperties

\* Only: the elements of s that are in rows, in their order.
LEMMA OnlyIs ==
    ASSUME NEW S, NEW s \in Seq(S), NEW rs
    PROVE  /\ Only(s, rs) \in Seq(S) /\ Picks(Only(s, rs), s, Len(s))
           /\ Range(Only(s, rs)) = Range(s) \cap rs
<1>. DEFINE n == Len(s)
            f == CHOOSE f : f = [i \in 0..n |->
                    IF i = 0 THEN << >>
                    ELSE IF s[i] \in rs THEN Append(f[i - 1], s[i]) ELSE f[i - 1]]
            step == [p \in (1..n) \X Seq(S) |-> IF s[p[1]] \in rs THEN Append(p[2], s[p[1]]) ELSE p[2]]
<1>1. Only(s, rs) = f[n]
  BY Zenon DEF Only
<1>2. n \in Nat /\ \A i \in 1..n : s[i] \in S
  BY LenProperties, ElementOfSeq
<1>3. step \in [(1..n) \X Seq(S) -> Seq(S)]
  BY <1>2, AppendIs
<1>4. << >> \in Seq(S)
  BY EmptySeq
<1>5. PICK g \in [0..n -> Seq(S)] : g[0] = << >> /\ \A i \in 1..n : g[i] = step[<<i, g[i - 1]>>]
  <2>1. StepOf(step, n, Seq(S))
    BY <1>3 DEF StepOf
  <2>. HIDE DEF n, step
  <2>2. PICK g : Solution(g, n, Seq(S), << >>, step)
    BY <1>2, <1>4, <2>1, Recursion
  <2>. QED
    BY <2>2 DEF Solution
<1>6. \A i \in 1..n : g[i] = IF s[i] \in rs THEN Append(g[i - 1], s[i]) ELSE g[i - 1]
  <2>. TAKE i \in 1..n
  <2>1. i - 1 \in 0..n
    BY <1>2
  <2>2. <<i, g[i - 1]>> \in (1..n) \X Seq(S)
    BY <1>5, <2>1
  <2>. QED
    BY <1>5, <2>2
<1>7. g = [i \in 0..n |-> IF i = 0 THEN << >>
                          ELSE IF s[i] \in rs THEN Append(g[i - 1], s[i]) ELSE g[i - 1]]
  <2>1. \A i \in 0..n : g[i] = IF i = 0 THEN << >>
                               ELSE IF s[i] \in rs THEN Append(g[i - 1], s[i]) ELSE g[i - 1]
    <3>1. \A i \in 0..n : i = 0 \/ i \in 1..n
      BY <1>2
    <3>. QED
      BY <1>5, <1>6, <3>1, Zenon
  <2>. QED
    BY <1>5, <2>1
<1>8. f = [i \in 0..n |-> IF i = 0 THEN << >>
                          ELSE IF s[i] \in rs THEN Append(f[i - 1], s[i]) ELSE f[i - 1]]
  BY <1>7, Zenon
<1>. HIDE DEF f, n
<1>9. f[0] = << >> /\ \A i \in 1..n : f[i] = IF s[i] \in rs THEN Append(f[i - 1], s[i]) ELSE f[i - 1]
  <2>1. 0 \in 0..n /\ \A i \in 1..n : i \in 0..n /\ i # 0
    BY <1>2
  <2>. QED
    BY <1>8, <2>1, Zenon
<1>10. \A i \in 0..n : f[i] \in Seq(S) /\ Picks(f[i], s, i)
  <2>1. Scans(f, s)
    BY <1>9 DEF Scans, n
  <2>. QED
    BY <2>1, ScanPicks DEF n
<1>. DEFINE Right(i) == /\ \A k \in 1..Len(f[i]) : f[i][k] \in rs
                        /\ \A j \in 1..i : s[j] \in rs => \E k \in 1..Len(f[i]) : f[i][k] = s[j]
            P == {i \in Nat : i <= n => Right(i)}
<1>11. 0 \in P
  BY <1>9, EmptySeq
<1>12. ASSUME NEW i \in Nat, i \in P PROVE i + 1 \in P
  <2>. SUFFICES ASSUME i + 1 <= n PROVE Right(i + 1)
    OBVIOUS
  <2>. DEFINE t == f[i]
              u == f[i + 1]
  <2>1. t \in Seq(S) /\ Len(t) \in Nat /\ Right(i) /\ s[i + 1] \in S
    <3>1. i \in 0..n /\ i + 1 \in 1..n
      BY <1>2
    <3>. QED
      BY <1>2, <1>10, <1>12, <3>1, LenProperties
  <2>2. u = IF s[i + 1] \in rs THEN Append(t, s[i + 1]) ELSE t
    <3>1. i + 1 \in 1..n /\ (i + 1) - 1 = i
      BY <1>2
    <3>. QED
      BY <1>9, <3>1
  <2>3. CASE s[i + 1] \notin rs
    BY <2>1, <2>2, <2>3
  <2>4. CASE s[i + 1] \in rs
    <3>1. /\ Len(u) = Len(t) + 1
          /\ \A k \in 1..Len(t) : u[k] = t[k]
          /\ u[Len(t) + 1] = s[i + 1]
      BY <2>1, <2>2, <2>4, AppendIs
    <3>. HIDE DEF t, u
    <3>2. Right(i) <=> /\ \A k \in 1..Len(t) : t[k] \in rs
                       /\ \A j \in 1..i : s[j] \in rs => \E k \in 1..Len(t) : t[k] = s[j]
      BY DEF t
    <3>3. Right(i + 1) <=> /\ \A k \in 1..Len(u) : u[k] \in rs
                           /\ \A j \in 1..i + 1 : s[j] \in rs => \E k \in 1..Len(u) : u[k] = s[j]
      BY DEF u
    <3>. HIDE DEF Right
    <3>4. ASSUME NEW k \in 1..Len(u) PROVE u[k] \in rs
      BY <2>1, <2>4, <3>1, <3>2
    <3>5. ASSUME NEW j \in 1..i + 1, s[j] \in rs PROVE \E k \in 1..Len(u) : u[k] = s[j]
      <4>1. CASE j = i + 1
        <5>1. Len(t) + 1 \in 1..Len(u)
          BY <2>1, <3>1
        <5>. QED
          BY <3>1, <4>1, <5>1
      <4>2. CASE j # i + 1
        <5>1. PICK k \in 1..Len(t) : t[k] = s[j]
          BY <2>1, <3>2, <3>5, <4>2
        <5>2. k \in 1..Len(u) /\ u[k] = s[j]
          BY <2>1, <3>1, <5>1
        <5>. QED
          BY <5>2
      <4>. QED
        BY <4>1, <4>2
    <3>. QED
      BY <3>3, <3>4, <3>5
  <2>. QED
    BY <2>3, <2>4
<1>13. n \in P
  <2>. HIDE DEF P
  <2>. QED
    BY <1>2, <1>11, <1>12, SetInduction
<1>. DEFINE t == f[n]
<1>14. t \in Seq(S) /\ Picks(t, s, n) /\ Right(n)
  <2>1. n \in 0..n
    BY <1>2
  <2>. HIDE DEF Right
  <2>. QED
    BY <1>10, <1>13, <2>1
<1>15. Range(t) = Range(s) \cap rs
  <2>. DEFINE L == Len(t)
  <2>1. L \in Nat /\ DOMAIN t = 1..L /\ DOMAIN s = 1..n
    BY <1>14, LenProperties DEF n
  <2>2. PICK h : Places(t, s, n, h)
    BY <1>14 DEF Picks
  <2>3. \A k \in 1..L : h[k] \in 1..n /\ t[k] = s[h[k]] /\ t[k] \in rs
    BY <1>14, <2>2 DEF Places
  <2>4. \A j \in 1..n : s[j] \in rs => \E k \in 1..L : t[k] = s[j]
    BY <1>14
  <2>. HIDE DEF t, L, Right
  <2>5. ASSUME NEW r \in Range(t) PROVE r \in Range(s) \cap rs
    BY <2>1, <2>3 DEF Range
  <2>6. ASSUME NEW r \in Range(s) \cap rs PROVE r \in Range(t)
    BY <2>1, <2>4 DEF Range
  <2>. QED
    BY <2>5, <2>6
<1>. QED
  BY <1>1, <1>14, <1>15 DEF n
-------------------------------------------------------------------------------
\* A ranking: best first.
Sorted(s) == \A i, j \in 1..Len(s) : i < j => s[i].score >= s[j].score

\* What suppression needs of the rows.
RowsTyped(S) == \A r \in S : r.score \in Int /\ r.box \in BoxState

\* Nms keeps some rows in their order; none of them overlaps an earlier one by
\* more than the threshold, and a row that is gone overlaps one that is kept
\* and comes before it.
LEMMA NmsIs ==
    ASSUME NEW S, NEW s \in Seq(S), NEW num, NEW den, RowsTyped(S), Sorted(s)
    PROVE  LET t == Nms(s, num, den)
           IN  /\ t \in Seq(S) /\ Picks(t, s, Len(s))
               /\ \A a, b \in 1..Len(t) : a < b => ~IouAbove(t[a].box, t[b].box, num, den)
               /\ \A j \in 1..Len(s) : \E k \in 1..Len(t) :
                     \/ t[k] = s[j]
                     \/ t[k].score >= s[j].score /\ IouAbove(t[k].box, s[j].box, num, den)
<1>. DEFINE n == Len(s)
            Out(t, r) == \E k \in 1..Len(t) : IouAbove(t[k].box, r.box, num, den)
            f == CHOOSE f : f = [i \in 0..n |->
                    IF i = 0 THEN << >>
                    ELSE IF Out(f[i - 1], s[i]) THEN f[i - 1] ELSE Append(f[i - 1], s[i])]
            step == [p \in (1..n) \X Seq(S) |-> IF Out(p[2], s[p[1]]) THEN p[2] ELSE Append(p[2], s[p[1]])]
<1>1. Nms(s, num, den) = f[n]
  BY Zenon DEF Nms
<1>2. n \in Nat /\ \A i \in 1..n : s[i] \in S
  BY LenProperties, ElementOfSeq
<1>3. step \in [(1..n) \X Seq(S) -> Seq(S)]
  <2>. HIDE DEF Out
  <2>. QED
    BY <1>2, AppendIs
<1>4. << >> \in Seq(S)
  BY EmptySeq
<1>5. PICK g \in [0..n -> Seq(S)] : g[0] = << >> /\ \A i \in 1..n : g[i] = step[<<i, g[i - 1]>>]
  <2>1. StepOf(step, n, Seq(S))
    BY <1>3 DEF StepOf
  <2>. HIDE DEF n, step
  <2>2. PICK g : Solution(g, n, Seq(S), << >>, step)
    BY <1>2, <1>4, <2>1, Recursion
  <2>. QED
    BY <2>2 DEF Solution
<1>6. \A i \in 1..n : g[i] = IF Out(g[i - 1], s[i]) THEN g[i - 1] ELSE Append(g[i - 1], s[i])
  <2>. TAKE i \in 1..n
  <2>1. i - 1 \in 0..n
    BY <1>2
  <2>2. <<i, g[i - 1]>> \in (1..n) \X Seq(S)
    BY <1>5, <2>1
  <2>. HIDE DEF Out
  <2>. QED
    BY <1>5, <2>2
<1>7. g = [i \in 0..n |-> IF i = 0 THEN << >>
                          ELSE IF Out(g[i - 1], s[i]) THEN g[i - 1] ELSE Append(g[i - 1], s[i])]
  <2>. HIDE DEF Out
  <2>1. \A i \in 0..n : g[i] = IF i = 0 THEN << >>
                               ELSE IF Out(g[i - 1], s[i]) THEN g[i - 1] ELSE Append(g[i - 1], s[i])
    <3>1. \A i \in 0..n : i = 0 \/ i \in 1..n
      BY <1>2
    <3>. QED
      BY <1>5, <1>6, <3>1, Zenon
  <2>. QED
    BY <1>5, <2>1
<1>8. f = [i \in 0..n |-> IF i = 0 THEN << >>
                          ELSE IF Out(f[i - 1], s[i]) THEN f[i - 1] ELSE Append(f[i - 1], s[i])]
  BY <1>7, Zenon
<1>. HIDE DEF f, n, Out
<1>9. f[0] = << >> /\ \A i \in 1..n : f[i] = IF Out(f[i - 1], s[i]) THEN f[i - 1] ELSE Append(f[i - 1], s[i])
  <2>1. 0 \in 0..n /\ \A i \in 1..n : i \in 0..n /\ i # 0
    BY <1>2
  <2>. QED
    BY <1>8, <2>1, Zenon
<1>10. \A i \in 0..n : f[i] \in Seq(S) /\ Picks(f[i], s, i)
  <2>1. Scans(f, s)
    BY <1>9 DEF Scans, n
  <2>. QED
    BY <2>1, ScanPicks DEF n
<1>. DEFINE Free(t) == \A a, b \in 1..Len(t) : a < b => ~IouAbove(t[a].box, t[b].box, num, den)
            Covers(t, r) == \E k \in 1..Len(t) :
                              \/ t[k] = r
                              \/ t[k].score >= r.score /\ IouAbove(t[k].box, r.box, num, den)
            P == {i \in Nat : i <= n => Free(f[i]) /\ \A j \in 1..i : Covers(f[i], s[j])}
<1>11. 0 \in P
  BY <1>9, EmptySeq
<1>12. ASSUME NEW i \in Nat, i \in P PROVE i + 1 \in P
  <2>. SUFFICES ASSUME i + 1 <= n PROVE Free(f[i + 1]) /\ \A j \in 1..i + 1 : Covers(f[i + 1], s[j])
    <3>. HIDE DEF Free, Covers
    <3>. QED
      OBVIOUS
  <2>. DEFINE t == f[i]
              u == f[i + 1]
  <2>1. t \in Seq(S) /\ Len(t) \in Nat /\ Free(t) /\ (\A j \in 1..i : Covers(t, s[j])) /\ Picks(t, s, i)
    <3>1. i \in 0..n
      BY <1>2
    <3>2. t \in Seq(S) /\ Free(t) /\ (\A j \in 1..i : Covers(t, s[j])) /\ Picks(t, s, i)
      BY <1>2, <1>10, <1>12, <3>1
    <3>. QED
      BY <3>2, LenProperties
  <2>2. i + 1 \in 1..n /\ (i + 1) - 1 = i /\ s[i + 1] \in S
    BY <1>2
  <2>3. u = IF Out(t, s[i + 1]) THEN t ELSE Append(t, s[i + 1])
    BY <1>9, <2>2
  <2>4. \A k \in 1..Len(t) : t[k].score >= s[i + 1].score
    <3>1. PICK h : Places(t, s, i, h)
      BY <2>1 DEF Picks
    <3>2. \A k \in 1..Len(t) : h[k] \in 1..i /\ t[k] = s[h[k]]
      BY <3>1 DEF Places
    <3>3. \A a \in 1..i : s[a].score >= s[i + 1].score
      <4>1. \A a \in 1..i : a \in 1..n /\ a < i + 1
        BY <1>2, <2>2
      <4>. QED
        BY <2>2, <4>1 DEF Sorted, n
    <3>. HIDE DEF t
    <3>. QED
      BY <3>2, <3>3
  <2>. HIDE DEF t, u
  <2>5. CASE Out(t, s[i + 1])
    <3>1. u = t
      BY <2>3, <2>5
    <3>2. Covers(t, s[i + 1])
      BY <2>4, <2>5 DEF Out
    <3>. HIDE DEF Free, Covers
    <3>3. \A j \in 1..i + 1 : j \in 1..i \/ j = i + 1
      OBVIOUS
    <3>. QED
      BY <2>1, <3>1, <3>2, <3>3 DEF u
  <2>6. CASE ~Out(t, s[i + 1])
    <3>1. /\ Len(u) = Len(t) + 1
          /\ \A k \in 1..Len(t) : u[k] = t[k]
          /\ u[Len(t) + 1] = s[i + 1]
      BY <2>1, <2>2, <2>3, <2>6, AppendIs
    <3>2. ASSUME NEW a \in 1..Len(u), NEW b \in 1..Len(u), a < b
          PROVE  ~IouAbove(u[a].box, u[b].box, num, den)
      <4>1. a \in 1..Len(t) /\ u[a] = t[a]
        BY <2>1, <3>1, <3>2
      <4>2. CASE b = Len(t) + 1
        BY <2>6, <3>1, <4>1, <4>2 DEF Out
      <4>3. CASE b # Len(t) + 1
        <5>1. b \in 1..Len(t) /\ u[b] = t[b]
          BY <2>1, <3>1, <4>3
        <5>. QED
          BY <2>1, <3>2, <4>1, <5>1
      <4>. QED
        BY <4>2, <4>3
    <3>3. ASSUME NEW j \in 1..i + 1 PROVE Covers(u, s[j])
      <4>1. CASE j = i + 1
        <5>1. Len(t) + 1 \in 1..Len(u)
          BY <2>1, <3>1
        <5>. QED
          BY <3>1, <4>1, <5>1
      <4>2. CASE j # i + 1
        <5>1. j \in 1..i
          BY <4>2
        <5>2. PICK k \in 1..Len(t) : \/ t[k] = s[j]
                                     \/ t[k].score >= s[j].score /\ IouAbove(t[k].box, s[j].box, num, den)
          BY <2>1, <5>1
        <5>3. k \in 1..Len(u) /\ u[k] = t[k]
          BY <2>1, <3>1
        <5>. QED
          BY <5>2, <5>3
      <4>. QED
        BY <4>1, <4>2
    <3>. QED
      BY <3>2, <3>3 DEF u
  <2>. QED
    BY <2>5, <2>6
<1>13. n \in P
  <2>. HIDE DEF P
  <2>. QED
    BY <1>2, <1>11, <1>12, SetInduction
<1>14. f[n] \in Seq(S) /\ Picks(f[n], s, n)
  BY <1>2, <1>10
<1>. HIDE DEF Covers, Free
<1>15. Free(f[n]) /\ \A j \in 1..n : Covers(f[n], s[j])
  BY <1>2, <1>13
<1>. QED
  BY <1>1, <1>14, <1>15 DEF n, Free, Covers

\* A nonempty set of numbers has a smallest element.
LEMMA Smallest ==
    ASSUME NEW I \in SUBSET Nat, I # {}
    PROVE  \E i \in I : \A j \in I : i <= j
<1>. DEFINE R == OpToRel(<, Nat)
<1>1. IsWellFoundedOn(R, Nat)
  BY NatLessThanWellFounded, Zenon
<1>2. \A i, j \in Nat : i < j => <<i, j>> \in R
  <2>1. R = {ss \in Nat \X Nat : ss[1] < ss[2]}
    BY Zenon DEF OpToRel
  <2>. HIDE DEF R
  <2>. QED
    BY <2>1
<1>. HIDE DEF R
<1>3. PICK x \in I : \A y \in I : ~(<<y, x>> \in R)
  BY <1>1, WFMin, Zenon
<1>4. \A y \in I : y \in Nat /\ x \in Nat /\ ~(y < x)
  BY <1>2, <1>3
<1>5. \A y \in I : x <= y
  BY <1>4
<1>. QED
  BY <1>5

\* A ranking has every row once, best first.
LEMMA RankingIs ==
    ASSUME NEW rs, IsFiniteSet(rs), NEW s \in Rankings(rs)
    PROVE  /\ s \in Seq(rs) /\ Len(s) = Cardinality(rs) /\ Range(s) = rs
           /\ IsInjective(s) /\ Sorted(s)
<1>. DEFINE n == Cardinality(rs)
<1>1. n \in Nat /\ IsFiniteSet(1..n) /\ Cardinality(1..n) = n
  BY FS_CardinalityType, FS_Interval
<1>2. /\ s \in [1..n -> rs] /\ IsInjective(s)
      /\ \A i, j \in DOMAIN s : i < j => s[i].score >= s[j].score
  BY DEF Rankings
<1>3. s \in Injection(1..n, rs)
  BY <1>2 DEF Injection
<1>. HIDE DEF n
<1>4. s \in Surjection(1..n, rs)
  BY <1>1, <1>3, FS_Injection DEF n
<1>5. Range(s) = rs
  BY <1>2, <1>4 DEF Surjection, Range
<1>6. s \in Seq(rs)
  BY <1>1, <1>2, SeqDef
<1>7. Len(s) = n /\ DOMAIN s = 1..n
  BY <1>1, <1>2, <1>6, LenProperties
<1>. QED
  BY <1>2, <1>5, <1>6, <1>7 DEF Sorted, n

\* A selection of a ranking is a ranking of some of its rows.
LEMMA PickedIs ==
    ASSUME NEW S, NEW s \in Seq(S), NEW t \in Seq(S), Picks(t, s, Len(s))
    PROVE  /\ Range(t) \subseteq Range(s)
           /\ IsInjective(s) => IsInjective(t)
           /\ Sorted(s) => Sorted(t)
<1>1. PICK h : Places(t, s, Len(s), h)
  BY DEF Picks
<1>. DEFINE n == Len(s)
            m == Len(t)
<1>2. n \in Nat /\ m \in Nat /\ DOMAIN s = 1..n /\ DOMAIN t = 1..m
  BY LenProperties
<1>3. /\ \A i \in 1..m : h[i] \in 1..n /\ t[i] = s[h[i]]
      /\ \A i, j \in 1..m : i < j => h[i] < h[j]
  BY <1>1 DEF Places
<1>. HIDE DEF n, m
<1>4. Range(t) \subseteq Range(s)
  BY <1>2, <1>3 DEF Range
<1>5. ASSUME IsInjective(s) PROVE IsInjective(t)
  <2>1. \A i, j \in 1..m : t[i] = t[j] => h[i] = h[j]
    BY <1>2, <1>3, <1>5 DEF IsInjective
  <2>2. \A i, j \in 1..m : h[i] = h[j] => i = j
    <3>. TAKE i \in 1..m, j \in 1..m
    <3>1. i < j => h[i] < h[j]
      BY <1>3
    <3>2. j < i => h[j] < h[i]
      BY <1>3
    <3>. QED
      BY <1>2, <1>3, <3>1, <3>2
  <2>. QED
    BY <1>2, <2>1, <2>2 DEF IsInjective
<1>6. ASSUME Sorted(s) PROVE Sorted(t)
  <2>1. \A i, j \in 1..n : i < j => s[i].score >= s[j].score
    BY <1>6 DEF Sorted, n
  <2>2. ASSUME NEW i \in 1..m, NEW j \in 1..m, i < j PROVE t[i].score >= t[j].score
    <3>1. h[i] \in 1..n /\ h[j] \in 1..n /\ h[i] < h[j] /\ t[i] = s[h[i]] /\ t[j] = s[h[j]]
      BY <1>3, <2>2
    <3>. QED
      BY <2>1, <3>1
  <2>. QED
    BY <2>2 DEF Sorted, m
<1>. QED
  BY <1>4, <1>5, <1>6

\* The first k rows of a ranking.
LEMMA FirstIs ==
    ASSUME NEW S, NEW s \in Seq(S), NEW k \in Nat
    PROVE  LET t == FirstOf(s, k)
           IN  /\ t \in Seq(S) /\ DOMAIN t = 1..Lesser(k, Len(s)) /\ Len(t) = Lesser(k, Len(s))
               /\ \A i \in 1..Len(t) : i \in 1..Len(s) /\ t[i] = s[i]
               /\ IsInjective(s) => IsInjective(t)
               /\ Sorted(s) => Sorted(t)
<1>. DEFINE m == Lesser(k, Len(s))
            t == FirstOf(s, k)
<1>1. Len(s) \in Nat /\ DOMAIN s = 1..Len(s) /\ m \in 0..Len(s)
  BY LenProperties DEF Lesser
<1>2. t = SubSeq(s, 1, m)
  BY DEF FirstOf
<1>. HIDE DEF m
<1>3. /\ SubSeq(s, 1, m) \in Seq(S)
      /\ Len(SubSeq(s, 1, m)) = m
      /\ \A i \in 1..m : SubSeq(s, 1, m)[i] = s[i]
  <2>1. CASE m = 0
    BY <1>1, <2>1, SubSeqProperties, EmptySeq
  <2>2. CASE m # 0
    <3>1. 1 \in 1..Len(s) + 1 /\ m \in 0..Len(s) /\ 1 <= m + 1
      BY <1>1
    <3>. QED
      BY <1>1, <2>2, <3>1, SubSeqProperties
  <2>. QED
    BY <2>1, <2>2
<1>. HIDE DEF t
<1>4. t \in Seq(S) /\ Len(t) = m /\ DOMAIN t = 1..m /\ \A i \in 1..m : i \in 1..Len(s) /\ t[i] = s[i]
  <2>1. t \in Seq(S) /\ Len(t) = m /\ \A i \in 1..m : t[i] = s[i]
    BY <1>2, <1>3
  <2>2. DOMAIN t = 1..m
    BY <2>1, LenProperties
  <2>. QED
    BY <1>1, <2>1, <2>2
<1>5. IsInjective(s) => IsInjective(t)
  BY <1>1, <1>4 DEF IsInjective
<1>6. Sorted(s) => Sorted(t)
  BY <1>1, <1>4 DEF Sorted
<1>. QED
  BY <1>4, <1>5, <1>6 DEF t, m

\* What greedy suppression leaves of a set of rows: rows that leave each
\* other alone, and one for each row that is gone.
Greedy(K, R, num, den) ==
    /\ K \subseteq R
    /\ \A q, r \in K : q # r => ~IouAbove(q.box, r.box, num, den)
    /\ \A r \in R : \/ r \in K
                    \/ \E q \in K : q.score >= r.score /\ IouAbove(q.box, r.box, num, den)

\* Nms, the loop, is greedy suppression, whatever the threshold.
LEMMA NmsIsGreedy ==
    ASSUME NEW S, NEW s \in Seq(S), NEW num, NEW den, RowsTyped(S), Sorted(s), IsInjective(s)
    PROVE  /\ Nms(s, num, den) \in Seq(S)
           /\ IsInjective(Nms(s, num, den)) /\ Sorted(Nms(s, num, den))
           /\ Greedy(Range(Nms(s, num, den)), Range(s), num, den)
<1>. DEFINE t == Nms(s, num, den)
            n == Len(s)
            m == Len(t)
<1>1. /\ t \in Seq(S) /\ Picks(t, s, n)
      /\ \A a, b \in 1..m : a < b => ~IouAbove(t[a].box, t[b].box, num, den)
      /\ \A j \in 1..n : \E k \in 1..m :
            \/ t[k] = s[j]
            \/ t[k].score >= s[j].score /\ IouAbove(t[k].box, s[j].box, num, den)
  BY NmsIs
<1>. HIDE DEF t
<1>2. Range(t) \subseteq Range(s) /\ IsInjective(t) /\ Sorted(t)
  BY <1>1, PickedIs
<1>3. n \in Nat /\ m \in Nat /\ DOMAIN s = 1..n /\ DOMAIN t = 1..m /\ \A i \in 1..m : t[i] \in S
  BY <1>1, LenProperties, ElementOfSeq
<1>. HIDE DEF n, m
<1>4. ASSUME NEW q \in Range(t), NEW r \in Range(t), q # r PROVE ~IouAbove(q.box, r.box, num, den)
  <2>1. PICK a \in 1..m, b \in 1..m : q = t[a] /\ r = t[b]
    BY <1>3 DEF Range
  <2>2. t[a].box \in BoxState /\ t[b].box \in BoxState
    BY <1>3 DEF RowsTyped
  <2>3. IouAbove(q.box, r.box, num, den) = IouAbove(r.box, q.box, num, den)
    BY <2>1, <2>2, IouIsARatio DEF IouAbove
  <2>4. CASE a < b
    BY <1>1, <2>1, <2>4
  <2>5. CASE b < a
    BY <1>1, <2>1, <2>3, <2>5
  <2>6. a # b
    BY <1>4, <2>1
  <2>. QED
    BY <1>3, <2>4, <2>5, <2>6
<1>5. ASSUME NEW r \in Range(s)
      PROVE  r \in Range(t) \/ \E q \in Range(t) : q.score >= r.score /\ IouAbove(q.box, r.box, num, den)
  <2>1. PICK j \in 1..n : r = s[j]
    BY <1>3 DEF Range
  <2>2. PICK k \in 1..m : \/ t[k] = s[j]
                          \/ t[k].score >= s[j].score /\ IouAbove(t[k].box, s[j].box, num, den)
    BY <1>1
  <2>3. t[k] \in Range(t)
    BY <1>3 DEF Range
  <2>. QED
    BY <2>1, <2>2, <2>3
<1>. QED
  BY <1>1, <1>2, <1>4, <1>5 DEF Greedy, t

\* A class of the rows.
Class(R, cls) == {r \in R : r.cls = cls}

\* DecodeTorch: in each class, greedy suppression of the rows among the first
\* k that reach the threshold.
LEMMA DecodeTorchIs ==
    ASSUME NEW rs, IsFiniteSet(rs), RowsTyped(rs), NEW s \in Rankings(rs),
           NEW k \in Nat, NEW c \in Int, NEW num, NEW den
    PROVE  LET t == DecodeTorch(s, k, c, num, den)
               u == {r \in Range(FirstOf(s, k)) : r.score >= c}
           IN  /\ t \in Seq(rs) /\ IsInjective(t) /\ Range(t) \subseteq u
               /\ \A cls : Greedy(Class(Range(t), cls), Class(u, cls), num, den)
<1>. DEFINE f == FirstOf(s, k)
            a == AtLeast(f, c)
            t == DecodeTorch(s, k, c, num, den)
            u == {r \in Range(f) : r.score >= c}
<1>1. f \in Seq(rs) /\ IsInjective(f) /\ Sorted(f)
  BY RankingIs, FirstIs
<1>. HIDE DEF f
<1>2. a \in Seq(rs) /\ IsInjective(a) /\ Sorted(a) /\ Range(a) = u
  <2>1. a = Only(f, u)
    BY DEF AtLeast
  <2>2. a \in Seq(rs) /\ Picks(a, f, Len(f)) /\ Range(a) = Range(f) \cap u
    BY <1>1, <2>1, OnlyIs
  <2>. HIDE DEF a
  <2>. QED
    BY <1>1, <2>2, PickedIs
<1>. HIDE DEF a
<1>3. ASSUME NEW cls
      PROVE  Greedy(Range(Nms(OfClass(a, cls), num, den)), Class(u, cls), num, den)
  <2>. DEFINE o == OfClass(a, cls)
  <2>1. o = Only(a, Class(Range(a), cls))
    BY DEF OfClass, Class
  <2>2. o \in Seq(rs) /\ Picks(o, a, Len(a)) /\ Range(o) = Range(a) \cap Class(Range(a), cls)
    BY <1>2, <2>1, OnlyIs
  <2>. HIDE DEF o
  <2>3. IsInjective(o) /\ Sorted(o)
    BY <1>2, <2>2, PickedIs
  <2>4. Range(o) = Class(u, cls)
    BY <1>2, <2>2 DEF Class
  <2>5. Greedy(Range(Nms(o, num, den)), Range(o), num, den)
    BY <2>2, <2>3, NmsIsGreedy
  <2>. QED
    BY <2>4, <2>5 DEF o
<1>. DEFINE kept == {r \in Range(a) : r \in Range(Nms(OfClass(a, r.cls), num, den))}
<1>4. t = Only(a, kept)
  BY DEF DecodeTorch, BatchedNms, a, f
<1>. HIDE DEF t
<1>5. t \in Seq(rs) /\ Picks(t, a, Len(a)) /\ Range(t) = kept
  <2>1. t \in Seq(rs) /\ Picks(t, a, Len(a)) /\ Range(t) = Range(a) \cap kept
    <3>. HIDE DEF kept
    <3>. QED
      BY <1>2, <1>4, OnlyIs
  <2>. QED
    BY <2>1
<1>6. IsInjective(t)
  <2>. HIDE DEF kept
  <2>. QED
    BY <1>2, <1>5, PickedIs
<1>7. Range(t) \subseteq u
  BY <1>2, <1>5
<1>8. ASSUME NEW cls PROVE Class(Range(t), cls) = Range(Nms(OfClass(a, cls), num, den))
  <2>1. Range(Nms(OfClass(a, cls), num, den)) \subseteq Class(u, cls)
    BY <1>3 DEF Greedy
  <2>2. \A r \in Class(u, cls) : r \in Range(a) /\ r.cls = cls
    BY <1>2 DEF Class
  <2>. QED
    BY <1>5, <2>1, <2>2 DEF Class
<1>9. \A cls : Greedy(Class(Range(t), cls), Class(u, cls), num, den)
  BY <1>3, <1>8
<1>. QED
  BY <1>5, <1>6, <1>7, <1>9 DEF t, f

\* The rows of two sequences put together.
LEMMA ConcatIs ==
    ASSUME NEW S, NEW s \in Seq(S), NEW t \in Seq(S)
    PROVE  s \o t \in Seq(S) /\ Range(s \o t) = Range(s) \cup Range(t)
<1>. DEFINE u == s \o t
            n == Len(s)
            m == Len(t)
<1>1. /\ u \in Seq(S) /\ Len(u) = n + m
      /\ \A i \in 1..n + m : u[i] = IF i <= n THEN s[i] ELSE t[i - n]
  BY ConcatProperties
<1>. HIDE DEF u
<1>2. n \in Nat /\ m \in Nat /\ DOMAIN s = 1..n /\ DOMAIN t = 1..m /\ DOMAIN u = 1..n + m
  BY <1>1, LenProperties
<1>. HIDE DEF n, m
<1>3. ASSUME NEW r \in Range(u) PROVE r \in Range(s) \cup Range(t)
  <2>1. PICK i \in 1..n + m : r = u[i]
    BY <1>2 DEF Range
  <2>2. CASE i <= n
    BY <1>1, <1>2, <2>1, <2>2 DEF Range
  <2>3. CASE ~(i <= n)
    <3>1. i - n \in 1..m /\ r = t[i - n]
      BY <1>1, <1>2, <2>1, <2>3
    <3>. QED
      BY <1>2, <3>1 DEF Range
  <2>. QED
    BY <2>2, <2>3
<1>4. ASSUME NEW r \in Range(s) PROVE r \in Range(u)
  <2>1. PICK i \in 1..n : r = s[i]
    BY <1>2 DEF Range
  <2>2. i \in 1..n + m /\ u[i] = s[i]
    BY <1>1, <1>2
  <2>. QED
    BY <1>2, <2>1, <2>2 DEF Range
<1>5. ASSUME NEW r \in Range(t) PROVE r \in Range(u)
  <2>1. PICK i \in 1..m : r = t[i]
    BY <1>2 DEF Range
  <2>2. i + n \in 1..n + m /\ ~(i + n <= n) /\ (i + n) - n = i
    BY <1>2
  <2>3. u[i + n] = t[i]
    BY <1>1, <2>2
  <2>. QED
    BY <1>2, <2>1, <2>2, <2>3 DEF Range
<1>6. Range(u) = Range(s) \cup Range(t)
  BY <1>3, <1>4, <1>5
<1>. QED
  BY <1>1, <1>6 DEF u

\* DecodeNumpy: in each class, greedy suppression of the first k rows.
LEMMA DecodeNumpyIs ==
    ASSUME NEW rs, IsFiniteSet(rs), RowsTyped(rs), NEW s \in Rankings(rs),
           NEW n \in Nat, NEW k \in Nat, NEW num, NEW den
    PROVE  LET t == DecodeNumpy(s, n, k, num, den)
               u == Range(FirstOf(s, k))
           IN  /\ t \in Seq(rs) /\ Range(t) \subseteq u
               /\ \A r \in Range(t) : r.cls \in 0..n - 1
               /\ \A cls \in 0..n - 1 : Greedy(Class(Range(t), cls), Class(u, cls), num, den)
<1>. DEFINE f == FirstOf(s, k)
            u == Range(f)
            part(c) == Nms(OfClass(f, c), num, den)
<1>1. f \in Seq(rs) /\ IsInjective(f) /\ Sorted(f)
  BY RankingIs, FirstIs
<1>2. ASSUME NEW cls
      PROVE  part(cls) \in Seq(rs) /\ Greedy(Range(part(cls)), Class(u, cls), num, den)
  <2>. DEFINE o == OfClass(f, cls)
  <2>. HIDE DEF f
  <2>1. o = Only(f, Class(u, cls))
    BY DEF OfClass, Class
  <2>2. o \in Seq(rs) /\ Picks(o, f, Len(f)) /\ Range(o) = Range(f) \cap Class(u, cls)
    BY <1>1, <2>1, OnlyIs
  <2>. HIDE DEF o
  <2>3. IsInjective(o) /\ Sorted(o)
    BY <1>1, <2>2, PickedIs
  <2>4. Range(o) = Class(u, cls)
    BY <2>2 DEF Class
  <2>5. Greedy(Range(Nms(o, num, den)), Range(o), num, den) /\ Nms(o, num, den) \in Seq(rs)
    BY <2>2, <2>3, NmsIsGreedy
  <2>. QED
    BY <2>4, <2>5 DEF o
<1>. DEFINE g == CHOOSE g : g = [c \in 0..n |->
                    IF c = 0 THEN << >> ELSE g[c - 1] \o part(c - 1)]
            step == [p \in (1..n) \X Seq(rs) |-> p[2] \o part(p[1] - 1)]
<1>3. DecodeNumpy(s, n, k, num, den) = g[n]
  BY Zenon DEF DecodeNumpy
<1>. HIDE DEF f, u, part
<1>4. StepOf(step, n, Seq(rs))
  BY <1>2, ConcatIs DEF StepOf
<1>5. PICK h : Solution(h, n, Seq(rs), << >>, step)
  <2>. HIDE DEF step
  <2>1. << >> \in Seq(rs)
    BY EmptySeq
  <2>. QED
    BY <1>4, <2>1, Recursion
<1>6. h = [c \in 0..n |-> IF c = 0 THEN << >> ELSE h[c - 1] \o part(c - 1)]
  <2>1. \A c \in 1..n : h[c] = h[c - 1] \o part(c - 1)
    <3>. TAKE c \in 1..n
    <3>1. c - 1 \in 0..n
      OBVIOUS
    <3>2. <<c, h[c - 1]>> \in (1..n) \X Seq(rs)
      BY <1>5, <3>1 DEF Solution
    <3>. QED
      BY <1>5, <3>2 DEF Solution
  <2>2. \A c \in 0..n : c = 0 \/ c \in 1..n
    OBVIOUS
  <2>3. h[0] = << >> /\ DOMAIN h = 0..n /\ h = [c \in DOMAIN h |-> h[c]]
    BY <1>5 DEF Solution
  <2>. QED
    BY <2>1, <2>2, <2>3, Zenon
<1>7. g = [c \in 0..n |-> IF c = 0 THEN << >> ELSE g[c - 1] \o part(c - 1)]
  BY <1>6, Zenon
<1>. HIDE DEF g, step
<1>8. g[0] = << >> /\ \A c \in 1..n : g[c] = g[c - 1] \o part(c - 1)
  <2>1. 0 \in 0..n /\ \A c \in 1..n : c \in 0..n /\ c # 0
    OBVIOUS
  <2>. QED
    BY <1>7, <2>1, Zenon
<1>. DEFINE Has(c, r) == \E b \in 0..c - 1 : r \in Range(part(b))
            P == {c \in Nat : c <= n => g[c] \in Seq(rs) /\ \A r : r \in Range(g[c]) <=> Has(c, r)}
<1>9. 0 \in P
  <2>1. Range(<< >>) = {} /\ << >> \in Seq(rs)
    BY EmptySeq DEF Range
  <2>2. \A r : ~Has(0, r)
    OBVIOUS
  <2>. HIDE DEF Has
  <2>3. g[0] \in Seq(rs) /\ \A r : r \in Range(g[0]) <=> Has(0, r)
    BY <1>8, <2>1, <2>2
  <2>. QED
    BY <2>3
<1>10. ASSUME NEW c \in Nat, c \in P PROVE c + 1 \in P
  <2>. SUFFICES ASSUME c + 1 <= n
                PROVE  g[c + 1] \in Seq(rs) /\ \A r : r \in Range(g[c + 1]) <=> Has(c + 1, r)
    OBVIOUS
  <2>1. g[c] \in Seq(rs) /\ \A r : r \in Range(g[c]) <=> Has(c, r)
    BY <1>10
  <2>2. g[c + 1] = g[c] \o part(c)
    <3>1. c + 1 \in 1..n /\ (c + 1) - 1 = c
      OBVIOUS
    <3>. QED
      BY <1>8, <3>1
  <2>3. g[c + 1] \in Seq(rs) /\ Range(g[c + 1]) = Range(g[c]) \cup Range(part(c))
    BY <1>2, <2>1, <2>2, ConcatIs
  <2>4. 0..(c + 1) - 1 = (0..c - 1) \cup {c}
    OBVIOUS
  <2>. QED
    BY <2>1, <2>3, <2>4
<1>11. n \in P
  <2>. HIDE DEF P
  <2>. QED
    BY <1>9, <1>10, SetInduction
<1>. DEFINE t == g[n]
<1>12. t \in Seq(rs) /\ \A r : r \in Range(t) <=> Has(n, r)
  BY <1>11
<1>. HIDE DEF t
<1>13. \A c : \A r \in Range(part(c)) : r \in u /\ r.cls = c
  BY <1>2 DEF Greedy, Class
<1>14. Range(t) \subseteq u /\ \A r \in Range(t) : r.cls \in 0..n - 1
  BY <1>12, <1>13
<1>15. ASSUME NEW cls \in 0..n - 1 PROVE Class(Range(t), cls) = Range(part(cls))
  BY <1>12, <1>13 DEF Class
<1>. QED
  BY <1>2, <1>3, <1>12, <1>14, <1>15 DEF t, u, f

\* Greedy suppression has one outcome if no two scores are equal, and a
\* threshold may be applied before it or after it.
LEMMA GreedyIsUnique ==
    ASSUME NEW rs, IsFiniteSet(rs), RowsTyped(rs), NEW s \in Rankings(rs),
           \A q, r \in rs : q.score = r.score => q = r,
           NEW R \in SUBSET rs, NEW c \in Int, NEW num, NEW den,
           NEW K, Greedy(K, R, num, den),
           NEW L, Greedy(L, {r \in R : r.score >= c}, num, den)
    PROVE  L = {r \in K : r.score >= c}
<1>. DEFINE n == Len(s)
            Wrong(r) == r \in R /\ r.score >= c /\ ~(r \in L <=> r \in K)
            I == {i \in 1..n : Wrong(s[i])}
<1>1. n \in Nat /\ DOMAIN s = 1..n /\ Range(s) = rs /\ Sorted(s) /\ s \in Seq(rs)
  BY RankingIs, LenProperties
<1>2. \A r \in rs : r.score \in Int
  BY DEF RowsTyped
<1>3. ASSUME NEW r \in R
      PROVE  r \in K <=> ~\E q \in K : q.score > r.score /\ IouAbove(q.box, r.box, num, den)
  <2>1. CASE r \in K
    BY <1>2, <1>3, <2>1 DEF Greedy
  <2>2. CASE r \notin K
    <3>1. PICK q \in K : q.score >= r.score /\ IouAbove(q.box, r.box, num, den)
      BY <2>2 DEF Greedy
    <3>2. q \in rs /\ r \in rs /\ q # r
      BY <2>2 DEF Greedy
    <3>3. q.score > r.score
      BY <1>2, <3>1, <3>2
    <3>. QED
      BY <2>2, <3>1, <3>3
  <2>. QED
    BY <2>1, <2>2
<1>4. ASSUME NEW r \in R, r.score >= c
      PROVE  r \in L <=> ~\E q \in L : q.score > r.score /\ IouAbove(q.box, r.box, num, den)
  <2>1. L \subseteq R
    BY DEF Greedy
  <2>2. CASE r \in L
    BY <1>2, <1>4, <2>1, <2>2 DEF Greedy
  <2>3. CASE r \notin L
    <3>1. PICK q \in L : q.score >= r.score /\ IouAbove(q.box, r.box, num, den)
      BY <1>4, <2>3 DEF Greedy
    <3>2. q \in rs /\ r \in rs /\ q # r
      BY <2>1, <2>3
    <3>3. q.score > r.score
      BY <1>2, <3>1, <3>2
    <3>. QED
      BY <2>3, <3>1, <3>3
  <2>. QED
    BY <2>2, <2>3
<1>5. ASSUME NEW r, Wrong(r) PROVE FALSE
  <2>1. PICK a \in 1..n : r = s[a]
    BY <1>1, <1>5 DEF Range
  <2>2. I \in SUBSET Nat /\ a \in I
    BY <1>1, <1>5, <2>1
  <2>3. PICK i \in I : \A j \in I : i <= j
    BY <2>2, Smallest
  <2>. DEFINE w == s[i]
  <2>4. Wrong(w) /\ i \in 1..n
    BY <2>3
  <2>. HIDE DEF Wrong
  <2>5. ASSUME NEW q \in rs, q.score > w.score PROVE ~Wrong(q)
    <3>1. PICK b \in 1..n : q = s[b]
      BY <1>1 DEF Range
    <3>2. ~(i <= b)
      <4>1. i < b => s[i].score >= s[b].score
        BY <1>1, <2>4 DEF Sorted
      <4>2. s[i] \in rs /\ s[i].score \in Int /\ q.score \in Int
        BY <1>1, <1>2, <2>4, ElementOfSeq
      <4>. QED
        BY <1>1, <2>4, <2>5, <3>1, <4>1, <4>2
    <3>. QED
      BY <2>3, <3>1, <3>2
  <2>6. w \in R /\ w.score >= c /\ ~(w \in L <=> w \in K)
    BY <2>4 DEF Wrong
  <2>. HIDE DEF w
  <2>7. ASSUME NEW q \in R, q.score > w.score PROVE q \in L <=> q \in K
    <3>1. q \in rs /\ q.score \in Int /\ w.score \in Int
      BY <1>2, <2>6
    <3>2. q.score >= c
      BY <2>6, <2>7, <3>1
    <3>. QED
      BY <2>5, <2>7, <3>1, <3>2 DEF Wrong
  <2>8. K \subseteq R /\ L \subseteq R
    BY DEF Greedy
  <2>. QED
    BY <1>3, <1>4, <2>6, <2>7, <2>8
<1>6. L \subseteq {r \in R : r.score >= c} /\ K \subseteq R
  BY DEF Greedy
<1>. QED
  BY <1>5, <1>6
-------------------------------------------------------------------------------
\* A finite set of numbers has a greatest element.
LEMMA HottestIs ==
    ASSUME NEW T \in SUBSET Int, IsFiniteSet(T), T # {}
    PROVE  Hottest(T) \in T /\ \A x \in T : Hottest(T) >= x
<1>. DEFINE Tops(S) == \E x \in S : \A y \in S : x >= y
            P == {n \in Nat : \A S \in SUBSET Int :
                      IsFiniteSet(S) /\ S # {} /\ Cardinality(S) = n => Tops(S)}
<1>1. 0 \in P
  BY FS_EmptySet
<1>2. ASSUME NEW n \in Nat, n \in P PROVE n + 1 \in P
  <2>. SUFFICES ASSUME NEW S \in SUBSET Int, IsFiniteSet(S), S # {}, Cardinality(S) = n + 1
                PROVE  Tops(S)
    OBVIOUS
  <2>1. PICK x \in S : TRUE
    OBVIOUS
  <2>. DEFINE U == S \ {x}
  <2>2. IsFiniteSet(U) /\ Cardinality(U) = n /\ U \in SUBSET Int
    <3>1. IsFiniteSet(U) /\ Cardinality(U) = (n + 1) - 1
      BY <2>1, FS_RemoveElement
    <3>. QED
      BY <3>1
  <2>3. CASE U = {}
    BY <2>1, <2>3
  <2>4. CASE U # {}
    <3>1. PICK y \in U : \A z \in U : y >= z
      BY <1>2, <2>2, <2>4
    <3>2. CASE x >= y
      <4>1. \A z \in S : x >= z
        BY <2>1, <3>1, <3>2
      <4>. QED
        BY <4>1
    <3>3. CASE ~(x >= y)
      <4>1. \A z \in S : y >= z
        BY <2>1, <3>1, <3>3
      <4>. QED
        BY <3>1, <4>1
    <3>. QED
      BY <3>2, <3>3
  <2>. QED
    BY <2>3, <2>4
<1>3. Cardinality(T) \in P
  <2>. HIDE DEF P
  <2>. QED
    BY <1>1, <1>2, SetInduction, FS_CardinalityType
<1>4. \E x \in T : \A y \in T : x >= y
  BY <1>3
<1>. QED
  BY <1>4 DEF Hottest

\* A row for an object of CenterNet.
SeenAt(r, b) == b.cls = r.cls /\ b.cell = r.cell /\ b.score = r.score

\* The heat of a class is above 0 in the cells of its objects only, and is the
\* score of one of them there.
LEMMA HeatIs ==
    ASSUME blobs \in SUBSET Blobs, IsFiniteSet(blobs), NEW cls \in Classes
    PROVE  /\ DOMAIN Heads.hm = Classes
           /\ DOMAIN Heads.hm[cls] = {b.cell : b \in {x \in blobs : x.cls = cls}}
           /\ \A c \in DOMAIN Heads.hm[cls] :
                \E b \in blobs : b.cls = cls /\ b.cell = c /\ b.score = Heads.hm[cls][c]
<1>. DEFINE mine == {b \in blobs : b.cls = cls}
            at(c) == {b.score : b \in {x \in mine : x.cell = c}}
            hm == [k \in {b.cell : b \in mine} |-> Hottest(at(k))]
<1>1. DOMAIN Heads.hm = Classes /\ Heads.hm[cls] = hm
  BY DEF Heads
<1>2. ASSUME NEW c \in {b.cell : b \in mine}
      PROVE  \E b \in blobs : b.cls = cls /\ b.cell = c /\ b.score = hm[c]
  <2>. DEFINE here == {x \in mine : x.cell = c}
              F == [x \in here |-> x.score]
  <2>1. here \in SUBSET blobs /\ here # {}
    BY <1>2
  <2>2. IsFiniteSet(here)
    BY <2>1, FS_Subset
  <2>3. at(c) \in SUBSET Int /\ at(c) # {}
    BY <2>1, InferenceAssumption, DecodeAssumption
  <2>4. F \in Surjection(here, at(c))
    BY DEF Surjection
  <2>. HIDE DEF F, here, at
  <2>5. IsFiniteSet(at(c))
    BY <2>2, <2>4, FS_Surjection
  <2>6. Hottest(at(c)) \in at(c)
    BY <2>3, <2>5, HottestIs
  <2>7. hm[c] = Hottest(at(c))
    BY <1>2
  <2>. QED
    BY <2>6, <2>7 DEF at, here
<1>3. DOMAIN hm = {b.cell : b \in {x \in blobs : x.cls = cls}}
  OBVIOUS
<1>. HIDE DEF hm, mine
<1>. QED
  BY <1>1, <1>2, <1>3 DEF mine

\* Heads of whole numbers give a box of whole numbers.
LEMMA BoxAtIs ==
    ASSUME NEW hs, NEW c, c[1] \in Int, c[2] \in Int,
           PairAt(hs.wh, c)[1] \in Int, PairAt(hs.wh, c)[2] \in Int,
           PairAt(hs.offset, c)[1] \in Int, PairAt(hs.offset, c)[2] \in Int
    PROVE  BoxAt(hs, c) \in BoxState
<1>1. /\ PairAt(hs.wh, c)[1] \div 2 \in Int /\ PairAt(hs.wh, c)[2] \div 2 \in Int
      /\ Cell * c[1] \in Int /\ Cell * c[2] \in Int
  BY DEF Cell
<1>. QED
  BY <1>1 DEF BoxAt, Box, BoxState

\* The candidates of CenterNet are finitely many rows, each where it saw an
\* object of that class and score.
LEMMA PeaksAre ==
    ASSUME blobs \in SUBSET Blobs, IsFiniteSet(blobs), NEW around
    PROVE  LET rs == PeakRows(Heads, HeadSide(Size), around)
           IN  /\ IsFiniteSet(rs) /\ RowsTyped(rs)
               /\ \A r \in rs : /\ r.cls \in Classes /\ r = RowAt(Heads, r.cls, r.cell)
                                  /\ \E b \in blobs : SeenAt(r, b)
<1>. DEFINE rs == PeakRows(Heads, HeadSide(Size), around)
            F == [b \in blobs |-> RowAt(Heads, b.cls, b.cell)]
<1>1. ASSUME NEW r \in rs
      PROVE  /\ r.cls \in Classes /\ r = RowAt(Heads, r.cls, r.cell)
             /\ \E b \in blobs : SeenAt(r, b)
  <2>1. PICK cls \in DOMAIN Heads.hm : \E c \in DOMAIN Heads.hm[cls] : r = RowAt(Heads, cls, c)
    BY DEF PeakRows
  <2>2. PICK c \in DOMAIN Heads.hm[cls] : r = RowAt(Heads, cls, c)
    BY <2>1
  <2>3. cls \in Classes
    BY HeatIs DEF Heads
  <2>4. r.cls = cls /\ r.cell = c /\ r.score = Heads.hm[cls][c]
    BY <2>2 DEF RowAt
  <2>5. PICK b \in blobs : b.cls = cls /\ b.cell = c /\ b.score = Heads.hm[cls][c]
    BY <2>3, HeatIs
  <2>. QED
    BY <2>2, <2>3, <2>4, <2>5 DEF SeenAt
<1>2. rs \subseteq Range(F)
  BY <1>1 DEF SeenAt, Range
<1>3. IsFiniteSet(Range(F))
  <2>1. F \in Surjection(blobs, Range(F))
    BY DEF Surjection, Range
  <2>. QED
    BY <2>1, FS_Surjection
<1>4. IsFiniteSet(rs)
  BY <1>2, <1>3, FS_Subset
<1>5. ASSUME NEW r \in rs PROVE r.score \in Int /\ r.box \in BoxState
  <2>1. PICK b \in blobs : SeenAt(r, b)
    BY <1>1
  <2>2. b \in Blobs /\ r.cell = b.cell /\ r.score = b.score
    BY <2>1 DEF SeenAt
  <2>3. r.score \in Int /\ r.cell \in Cells(HeadSide(Size))
    BY <2>2, InferenceAssumption, DecodeAssumption
  <2>4. r.cell[1] \in Int /\ r.cell[2] \in Int
    BY <2>3 DEF Cells
  <2>5. r.box = BoxAt(Heads, r.cell)
    BY <1>1 DEF RowAt
  <2>6. /\ DOMAIN Heads.wh = {x.cell : x \in blobs} /\ DOMAIN Heads.offset = {x.cell : x \in blobs}
        /\ \A c \in {x.cell : x \in blobs} : Heads.wh[c] \in Int \X Int /\ Heads.offset[c] \in Int \X Int
    <3>. DEFINE at(c) == CHOOSE x \in blobs : x.cell = c
    <3>1. \A c \in {x.cell : x \in blobs} : at(c) \in blobs
      OBVIOUS
    <3>2. \A x \in blobs : x.wh \in Int \X Int /\ x.offset \in Int \X Int
      BY InferenceAssumption, DecodeAssumption
    <3>3. /\ Heads.wh = [c \in {x.cell : x \in blobs} |-> at(c).wh]
          /\ Heads.offset = [c \in {x.cell : x \in blobs} |-> at(c).offset]
      BY DEF Heads
    <3>. HIDE DEF at
    <3>. QED
      BY <3>1, <3>2, <3>3
  <2>7. r.cell \in {x.cell : x \in blobs}
    BY <2>2
  <2>. DEFINE p == PairAt(Heads.wh, r.cell)
              o == PairAt(Heads.offset, r.cell)
  <2>8. p[1] \in Int /\ p[2] \in Int /\ o[1] \in Int /\ o[2] \in Int
    BY <2>6, <2>7 DEF PairAt
  <2>9. BoxAt(Heads, r.cell) \in BoxState
    <3>. HIDE DEF p, o
    <3>. QED
      BY <2>4, <2>8, BoxAtIs DEF p, o
  <2>. QED
    BY <2>3, <2>5, <2>9
<1>. QED
  BY <1>1, <1>4, <1>5 DEF RowsTyped

\* What each backend can make of the inputs at hand.
Answers(b) ==
    CASE b = "centernet" ->
            {ToFrameResult(DecodeTorch(ranking, TopK, Conf, NmsNum, NmsDen), TorchNames) :
                ranking \in Rankings(PeakRows(Heads, HeadSide(Size), Padded(HeadSide(Size))))}
      [] b = "centernet-onnx" ->
            {ToFrameResult(DecodeNumpy(ranking, NumClasses, TopK, NmsNum, NmsDen), OnnxNames) :
                ranking \in Rankings(PeakRows(Heads, HeadSide(Size), Rolled(HeadSide(Size))))}
      [] b = "onnx" -> PostProcess
      [] b = "yolo" -> {Convert(kind) : kind \in {"detection", "segmentation", "pose", "tracking"}}
      [] b = "hf" ->
            {Frame([i \in DOMAIN seen |->
                      Detection(<<"hf", seen[i].cls>>, seen[i].score, InParts(seen[i].box),
                                None, None, None, None)], <<>>)}
      [] OTHER -> {Frame(<<>>, <<>>)}

\* An answer is a function of the image and of what was seen in it: while they
\* stay, so does every answer.
LEMMA AnswersStay ==
    ASSUME UNCHANGED <<image, blobs, seen, stray>>, NEW b
    PROVE  Answers(b)' = Answers(b)
<1>1. image' = image /\ blobs' = blobs /\ seen' = seen /\ stray' = stray
  OBVIOUS
<1>2. Heads' = Heads
  BY <1>1 DEF Heads
<1>3. Letterbox' = Letterbox /\ Long' = Long
  BY <1>1 DEF Letterbox, Shrunk, Long
<1>4. RawRows' = RawRows
  BY <1>1, <1>3 DEF RawRows, RawRow, OnCanvas
<1>5. PostProcess' = PostProcess
  BY <1>1, <1>3, <1>4 DEF PostProcess, Unletterboxed, Frame
<1>6. \A kind : Convert(kind)' = Convert(kind)
  BY <1>1 DEF Convert, Frame
<1>7. \A rs, names : ToFrameResult(rs, names)' = ToFrameResult(rs, names)
  BY <1>1 DEF ToFrameResult, Unresized, Frame
<1>8. \A dets, rs : Frame(dets, rs)' = Frame(dets, rs)
  BY <1>1 DEF Frame
<1>. QED
  BY <1>1, <1>2, <1>5, <1>6, <1>7, <1>8, Zenon DEF Answers

\* The objects of the image that lie inside it.
Visible == {o \in Objects : Inside(o.box, image.w, image.h)}

\* The inputs are those of one image; whatever a backend returned is what it
\* makes of them now, although it may have answered long ago, and whatever
\* was sent is what it returned.
Provenance ==
    /\ blobs \in SUBSET Blobs /\ IsFiniteSet(blobs)
    /\ stray \in SUBSET Stray /\ IsFiniteSet(stray)
    /\ \E n \in Nat : seen \in [1..n -> Visible]
    /\ image # None => image \in Images
    /\ image = None => asked = {}
    /\ DOMAIN result \subseteq asked
    /\ \A b \in DOMAIN result : result[b] = Raised \/ result[b] \in Answers(b)
    /\ DOMAIN stored \subseteq DOMAIN result
    /\ \A b \in DOMAIN stored : result[b] # Raised /\ stored[b] = ToDict(result[b])

\* One more answer of one backend keeps Provenance.
LEMMA AnswerKeeps ==
    ASSUME Provenance, NEW b, Asked(b), NEW r, r = Raised \/ r \in Answers(b), Answer(b, r)
    PROVE  Provenance'
<1>1. /\ UNCHANGED <<image, asked, blobs, seen, stray, stored>>
      /\ result' = Plus(result, b, r)
  BY DEF Answer
<1>2. \A x : Answers(x)' = Answers(x)
  BY <1>1, AnswersStay
<1>3. Visible' = Visible
  BY <1>1 DEF Visible
<1>4. /\ DOMAIN result' = DOMAIN result \cup {b} /\ result'[b] = r
      /\ b \in asked /\ b \notin DOMAIN result
      /\ \A x \in DOMAIN result : result'[x] = result[x]
  BY <1>1 DEF Asked, Plus
<1>5. \A x \in DOMAIN result' : result'[x] = Raised \/ result'[x] \in Answers(x)
  BY <1>4 DEF Provenance
<1>6. DOMAIN result' \subseteq asked /\ DOMAIN stored \subseteq DOMAIN result'
  BY <1>4 DEF Provenance
<1>7. \A x \in DOMAIN stored : result'[x] # Raised /\ stored[x] = ToDict(result'[x])
  BY <1>4 DEF Provenance
<1>. QED
  BY <1>1, <1>2, <1>3, <1>5, <1>6, <1>7, Zenon DEF Provenance

\* Before any image.
LEMMA ProvenanceInit == Init => Provenance
<1>. SUFFICES ASSUME Init PROVE Provenance
  OBVIOUS
<1>1. /\ image = None /\ asked = {} /\ blobs = {} /\ seen = << >> /\ stray = {}
      /\ result = Nothing /\ stored = Nothing
  BY DEF Init
<1>2. DOMAIN Nothing = {}
  BY DEF Nothing
<1>3. << >> \in [1..0 -> Visible]
  <2>1. 1..0 = {}
    OBVIOUS
  <2>2. << >> \in Seq(Visible) /\ Len(<< >>) = 0
    BY EmptySeq
  <2>. QED
    BY <2>1, <2>2, LenProperties
<1>4. IsFiniteSet({})
  BY FS_EmptySet
<1>. QED
  BY <1>1, <1>2, <1>3, <1>4 DEF Provenance

\* An image arrives only where there is none, so no answer is about another.
LEMMA ReceiveKeeps ==
    ASSUME Provenance, Receive
    PROVE  Provenance'
<1>1. /\ image = None /\ image' \in Images
      /\ UNCHANGED <<result, stored>>
  BY DEF Receive
<1>2. DOMAIN result' = {} /\ DOMAIN stored' = {}
  BY <1>1 DEF Provenance
<1>3. image' # None
  BY <1>1, InferenceAssumption, DecodeAssumption
<1>4. /\ blobs' \in SUBSET Blobs /\ IsFiniteSet(blobs')
      /\ stray' \in SUBSET Stray /\ IsFiniteSet(stray')
      /\ \E n \in Nat : seen' \in [1..n -> Visible']
  <2>1. IsFiniteSet({}) /\ \A s : IsFiniteSet({s})
    BY FS_EmptySet, FS_Singleton
  <2>2. CASE "centernet" \in asked'
    <3>1. blobs' \in SUBSET Blobs /\ IsFiniteSet(blobs') /\ seen' = << >> /\ stray' = {}
      BY <2>2 DEF Receive
    <3>2. << >> \in [1..0 -> Visible']
      <4>1. 1..0 = {}
        OBVIOUS
      <4>2. << >> \in Seq(Visible') /\ Len(<< >>) = 0
        BY EmptySeq
      <4>. QED
        BY <4>1, <4>2, LenProperties
    <3>. QED
      BY <2>1, <3>1, <3>2
  <2>3. CASE "centernet" \notin asked'
    <3>1. /\ seen' \in UNION {{s \in [1..n -> Visible'] : IsInjective(s)} : n \in 0..MaxSeen}
          /\ stray' \in {{}} \cup {{s} : s \in Stray}
          /\ blobs' = {}
      BY <2>3 DEF Receive, Visible
    <3>2. stray' \in SUBSET Stray /\ IsFiniteSet(stray')
      BY <2>1, <3>1
    <3>3. \E n \in Nat : seen' \in [1..n -> Visible']
      BY <3>1, InferenceAssumption, DecodeAssumption
    <3>. QED
      BY <2>1, <3>1, <3>2, <3>3
  <2>. QED
    BY <2>2, <2>3
<1>. QED
  BY <1>1, <1>2, <1>3, <1>4 DEF Provenance

\* Every step keeps Provenance.
LEMMA ProvenanceNext == Provenance /\ [Next]_vars => Provenance'
<1>. SUFFICES ASSUME Provenance, [Next]_vars PROVE Provenance'
  OBVIOUS
<1>1. CASE Receive
  BY <1>1, ReceiveKeeps
<1>2. CASE InferCenterNet
  <2>1. PICK ranking \in Rankings(PeakRows(Heads, HeadSide(Size), Padded(HeadSide(Size)))) :
            Answer("centernet", IF TorchTopkRaises(HeadSide(Size), TopK) THEN Raised
                                ELSE ToFrameResult(DecodeTorch(ranking, TopK, Conf, NmsNum, NmsDen), TorchNames))
    BY <1>2 DEF InferCenterNet
  <2>2. ToFrameResult(DecodeTorch(ranking, TopK, Conf, NmsNum, NmsDen), TorchNames) \in Answers("centernet")
    BY DEF Answers
  <2>3. Asked("centernet")
    BY <1>2 DEF InferCenterNet
  <2>. QED
    BY <2>1, <2>2, <2>3, AnswerKeeps
<1>3. CASE InferCenterNetOnnx
  <2>1. PICK ranking \in Rankings(PeakRows(Heads, HeadSide(Size), Rolled(HeadSide(Size)))) :
            Answer("centernet-onnx", ToFrameResult(DecodeNumpy(ranking, NumClasses, TopK, NmsNum, NmsDen), OnnxNames))
    BY <1>3 DEF InferCenterNetOnnx
  <2>2. ToFrameResult(DecodeNumpy(ranking, NumClasses, TopK, NmsNum, NmsDen), OnnxNames) \in Answers("centernet-onnx")
    BY DEF Answers
  <2>3. Asked("centernet-onnx")
    BY <1>3 DEF InferCenterNetOnnx
  <2>. QED
    BY <2>1, <2>2, <2>3, AnswerKeeps
<1>4. CASE InferOnnx
  <2>1. PICK r \in (IF Letterbox.nw = 0 \/ Letterbox.nh = 0 THEN {Raised} ELSE PostProcess) : Answer("onnx", r)
    BY <1>4 DEF InferOnnx
  <2>2. r = Raised \/ r \in Answers("onnx")
    BY Zenon DEF Answers
  <2>3. Asked("onnx")
    BY <1>4 DEF InferOnnx
  <2>. QED
    BY <2>1, <2>2, <2>3, AnswerKeeps
<1>5. CASE InferYolo
  <2>1. PICK kind \in {"detection", "segmentation", "pose", "tracking"} : Answer("yolo", Convert(kind))
    BY <1>5 DEF InferYolo
  <2>2. Convert(kind) \in Answers("yolo")
    BY DEF Answers
  <2>3. Asked("yolo")
    BY <1>5 DEF InferYolo
  <2>. QED
    BY <2>1, <2>2, <2>3, AnswerKeeps
<1>6. CASE InferHF
  <2>. DEFINE r == Frame([i \in DOMAIN seen |->
                      Detection(<<"hf", seen[i].cls>>, seen[i].score, InParts(seen[i].box),
                                None, None, None, None)], <<>>)
  <2>1. r \in Answers("hf")
    BY DEF Answers
  <2>2. Asked("hf") /\ Answer("hf", r)
    BY <1>6 DEF InferHF
  <2>. HIDE DEF r
  <2>. QED
    BY <2>1, <2>2, AnswerKeeps
<1>7. CASE InferClasses
  <2>. DEFINE r == Frame(<<>>, <<>>)
  <2>1. r \in Answers("hf-classes")
    BY DEF Answers
  <2>2. Asked("hf-classes") /\ Answer("hf-classes", r)
    BY <1>7 DEF InferClasses
  <2>. HIDE DEF r
  <2>. QED
    BY <2>1, <2>2, AnswerKeeps
<1>8. ASSUME NEW b \in Backends, CannotLoad(b) PROVE Provenance'
  BY <1>8, AnswerKeeps DEF CannotLoad
<1>9. ASSUME NEW b \in Backends, Send(b) PROVE Provenance'
  <2>1. /\ b \in DOMAIN result /\ b \notin DOMAIN stored /\ result[b] # Raised
        /\ stored' = Plus(stored, b, ToDict(result[b]))
        /\ UNCHANGED <<image, asked, blobs, seen, stray, result>>
    BY <1>9 DEF Send
  <2>2. \A x : Answers(x)' = Answers(x)
    BY <2>1, AnswersStay
  <2>3. Visible' = Visible
    BY <2>1 DEF Visible
  <2>4. DOMAIN stored' = DOMAIN stored \cup {b}
    BY <2>1 DEF Plus
  <2>5. \A x \in DOMAIN stored' : result[x] # Raised /\ stored'[x] = ToDict(result[x])
    BY <2>1 DEF Plus, Provenance
  <2>6. DOMAIN stored' \subseteq DOMAIN result
    BY <2>1, <2>4 DEF Provenance
  <2>. QED
    BY <2>1, <2>2, <2>3, <2>5, <2>6, Zenon DEF Provenance
<1>10. CASE UNCHANGED vars
  <2>1. UNCHANGED <<image, asked, blobs, seen, stray, result, stored>>
    BY <1>10 DEF vars
  <2>2. \A x : Answers(x)' = Answers(x)
    BY <2>1, AnswersStay
  <2>3. Visible' = Visible
    BY <2>1 DEF Visible
  <2>. QED
    BY <2>1, <2>2, <2>3, Zenon DEF Provenance
<1>. QED
  BY <1>1, <1>2, <1>3, <1>4, <1>5, <1>6, <1>7, <1>8, <1>9, <1>10 DEF Next

\* The answers belong to the image, in every state of every behaviour.
LEMMA ProvenanceHolds == Spec => []Provenance
BY ProvenanceInit, ProvenanceNext, PTL DEF Spec
-------------------------------------------------------------------------------
\* Division rounds down.
LEMMA DivIs ==
    ASSUME NEW a \in Int, NEW b \in Nat \ {0}
    PROVE  a \div b \in Int /\ b * (a \div b) <= a /\ a < b * (a \div b) + b
OBVIOUS

\* Multiplying by a number above 0 keeps the order, either way.
LEMMA TimesIsMonotone ==
    ASSUME NEW v \in Nat, NEW a \in Int, NEW b \in Int, a <= b
    PROVE  v * a <= v * b
<1>1. PICK d \in Nat : b = a + d
  <2>1. b - a \in Nat /\ b = a + (b - a)
    OBVIOUS
  <2>. QED
    BY <2>1
<1>2. v * (a + d) = v * a + v * d /\ v * d \in Nat /\ v * a \in Int
  OBVIOUS
<1>. QED
  BY <1>1, <1>2

\* A common factor cancels in a strict comparison.
LEMMA FactorsCancel ==
    ASSUME NEW w \in Nat \ {0}, NEW a \in Int, NEW b \in Int
    PROVE  /\ w * a <= w * b => a <= b
           /\ w * a < w * b => a < b
<1>1. ASSUME a > b PROVE w * a > w * b
  <2>1. PICK d \in Nat \ {0} : a = b + d
    <3>1. a - b \in Nat \ {0} /\ a = b + (a - b)
      BY <1>1
    <3>. QED
      BY <3>1
  <2>2. w * (b + d) = w * b + w * d /\ w * b \in Int /\ w * d \in Nat \ {0}
    OBVIOUS
  <2>. QED
    BY <2>1, <2>2
<1>2. w * a \in Int /\ w * b \in Int
  OBVIOUS
<1>. QED
  BY <1>1, <1>2

\* A coordinate on the canvas, without the padding and scaled back: inside the
\* image if there is a pixel after it, and one canvas pixel off at most.
LEMMA ScaledBackIs ==
    ASSUME NEW w \in Nat \ {0}, NEW v \in 0..w, NEW m \in Nat, NEW L \in Nat \ {0}, NEW S \in Nat \ {0},
           w <= L, 2 * (m * L) <= 2 * (w * S) + L, 2 * (m * L) >= 2 * (w * S) - L
    PROVE  LET x == (2 * v * m) \div w
           IN  /\ x \in Nat
               /\ x * L <= 2 * (S * v) + L
               /\ x * L >= 2 * (S * v) - 2 * L
               /\ v < w => x * L <= 2 * (S * w)
<1>. DEFINE x == (2 * v * m) \div w
            y == 2 * v * m
<1>1. y = 2 * (v * m) /\ v * m \in Nat /\ y \in Nat
  OBVIOUS
<1>. HIDE DEF y
<1>2. x \in Int /\ w * x <= y /\ y < w * x + w
  BY <1>1, DivIs DEF y
<1>3. x >= 0
  BY <1>1 DEF y
<1>. HIDE DEF x
<1>4. /\ w * x \in Int /\ m * L \in Nat /\ x * L \in Int /\ w * S \in Nat /\ S * v \in Nat
      /\ v * L \in Nat /\ w * L \in Nat /\ L * y \in Nat /\ v * L <= w * L
  BY <1>1, <1>2, TimesIsMonotone
<1>5. L * y = v * (2 * (m * L))
  <2>1. L * y = 2 * (v * (m * L))
    BY <1>1
  <2>. QED
    BY <2>1
<1>6. /\ v * (2 * (w * S) + L) = w * (2 * (S * v)) + v * L
      /\ v * (2 * (w * S) - L) = w * (2 * (S * v)) - v * L
  OBVIOUS
<1>7. /\ w * (2 * (S * v) + L) = w * (2 * (S * v)) + w * L
      /\ w * (2 * (S * v) - 2 * L) = w * (2 * (S * v)) - 2 * (w * L)
  OBVIOUS
<1>8. w * (2 * (S * v)) \in Int
  OBVIOUS
<1>9. L * (w * x) = w * (x * L) /\ L * (w * x + w) = w * (x * L) + w * L
  BY <1>2
<1>10. w * (x * L) <= w * (2 * (S * v) + L)
  <2>1. L * (w * x) <= L * y
    BY <1>1, <1>2, <1>4, TimesIsMonotone
  <2>2. v * (2 * (m * L)) <= v * (2 * (w * S) + L)
    BY <1>4, TimesIsMonotone
  <2>3. w * (x * L) \in Int
    BY <1>4
  <2>4. v * (2 * (m * L)) \in Int /\ v * (2 * (w * S) + L) \in Int
    OBVIOUS
  <2>5. w * (x * L) <= v * (2 * (w * S) + L)
    BY <1>4, <1>5, <1>9, <2>1, <2>2, <2>3, <2>4
  <2>6. w * (2 * (S * v)) + v * L <= w * (2 * (S * v) + L)
    BY <1>4, <1>7, <1>8
  <2>. QED
    BY <1>4, <1>6, <1>8, <2>3, <2>4, <2>5, <2>6
<1>11. w * (2 * (S * v) - 2 * L) <= w * (x * L)
  <2>1. L * y <= L * (w * x + w)
    BY <1>1, <1>2, <1>4, TimesIsMonotone
  <2>2. v * (2 * (w * S) - L) <= v * (2 * (m * L))
    BY <1>4, TimesIsMonotone
  <2>3. w * (x * L) \in Int
    BY <1>4
  <2>. QED
    BY <1>4, <1>5, <1>6, <1>7, <1>8, <1>9, <2>1, <2>2, <2>3
<1>12. x * L <= 2 * (S * v) + L
  BY <1>4, <1>10, FactorsCancel
<1>13. 2 * (S * v) - 2 * L <= x * L
  BY <1>4, <1>11, FactorsCancel
<1>14. ASSUME v < w PROVE x * L <= 2 * (S * w)
  <2>1. CASE m = 0
    <3>1. x = 0
      BY <1>1, <1>2, <1>3, <2>1, FactorsCancel
    <3>2. x * L = 0 /\ S * w \in Nat
      BY <3>1
    <3>. QED
      BY <3>2
  <2>2. CASE m # 0
    <3>1. v * m < w * m
      <4>1. PICK d \in Nat \ {0} : w = v + d
        <5>1. w - v \in Nat \ {0} /\ w = v + (w - v)
          BY <1>14
        <5>. QED
          BY <5>1
      <4>2. (v + d) * m = v * m + d * m /\ d * m \in Nat \ {0}
        BY <2>2
      <4>. QED
        BY <1>1, <4>1, <4>2
    <3>2. w * m = m * w /\ w * (2 * m) = 2 * (w * m) /\ w * m \in Nat
      OBVIOUS
    <3>3. w * x < w * (2 * m)
      BY <1>1, <1>2, <1>4, <3>1, <3>2
    <3>4. x < 2 * m
      BY <1>2, <3>3, FactorsCancel
    <3>5. x <= 2 * m - 1
      BY <1>2, <3>4
    <3>6. L * x <= L * (2 * m - 1)
      BY <1>2, <3>5, TimesIsMonotone
    <3>7. L * x = x * L /\ L * (2 * m - 1) = 2 * (m * L) - L /\ S * w = w * S
      BY <1>2
    <3>. QED
      BY <1>4, <3>6, <3>7
  <2>. QED
    BY <2>1, <2>2
<1>. QED
  BY <1>2, <1>3, <1>12, <1>13, <1>14 DEF x, y

\* Halves go to the even side: rounding misses by half a unit at most.
LEMMA LetterboxIs ==
    ASSUME image \in Images
    PROVE  /\ Long \in Nat \ {0} /\ image.w \in 1..Long /\ image.h \in 1..Long
           /\ Letterbox.nw \in Nat /\ Letterbox.nh \in Nat
           /\ Letterbox.left \in Int /\ Letterbox.top \in Int
           /\ 2 * (Letterbox.nw * Long) <= 2 * (image.w * Size) + Long
           /\ 2 * (Letterbox.nw * Long) >= 2 * (image.w * Size) - Long
           /\ 2 * (Letterbox.nh * Long) <= 2 * (image.h * Size) + Long
           /\ 2 * (Letterbox.nh * Long) >= 2 * (image.h * Size) - Long
<1>1. image.w \in Nat \ {0} /\ image.h \in Nat \ {0} /\ Size \in Nat \ {0}
  BY InferenceAssumption, DecodeAssumption
<1>2. Long \in Nat \ {0} /\ image.w \in 1..Long /\ image.h \in 1..Long
  BY <1>1 DEF Long, Greater
<1>3. ASSUME NEW n \in 1..Long
      PROVE  /\ Shrunk(n) \in Nat
             /\ 2 * (Shrunk(n) * Long) <= 2 * (n * Size) + Long
             /\ 2 * (Shrunk(n) * Long) >= 2 * (n * Size) - Long
  <2>. DEFINE twice == 2 * n * Size
              down == (twice + Long - 1) \div (2 * Long)
              up == (twice + Long) \div (2 * Long)
  <2>1. twice = 2 * (n * Size) /\ n * Size \in Nat
    BY <1>1, <1>2
  <2>2. Shrunk(n) = down \/ Shrunk(n) = up
    BY DEF Shrunk
  <2>. HIDE DEF twice
  <2>3. /\ twice + Long - 1 \in Nat /\ twice + Long \in Nat /\ 2 * Long \in Nat \ {0}
    BY <1>2, <2>1
  <2>4. /\ down \in Int /\ (2 * Long) * down <= twice + Long - 1
        /\ twice + Long - 1 < (2 * Long) * down + 2 * Long
    BY <2>3, DivIs
  <2>5. /\ up \in Int /\ (2 * Long) * up <= twice + Long
        /\ twice + Long < (2 * Long) * up + 2 * Long
    BY <2>3, DivIs
  <2>6. down >= 0 /\ up >= 0
    BY <2>3
  <2>. HIDE DEF down, up
  <2>7. ASSUME NEW m \in Nat, (2 * Long) * m <= twice + Long, twice + Long - 1 < (2 * Long) * m + 2 * Long
        PROVE  2 * (m * Long) <= twice + Long /\ 2 * (m * Long) >= twice - Long
    <3>1. (2 * Long) * m = 2 * (m * Long) /\ m * Long \in Nat
      BY <1>2
    <3>. QED
      BY <1>2, <2>1, <2>7, <3>1
  <2>8. CASE Shrunk(n) = down
    <3>1. (2 * Long) * down \in Int
      BY <1>2, <2>4
    <3>2. (2 * Long) * down <= twice + Long
      BY <1>2, <2>1, <2>4, <3>1
    <3>. QED
      BY <2>1, <2>4, <2>6, <2>7, <2>8, <3>2
  <2>9. CASE Shrunk(n) = up
    <3>1. (2 * Long) * up \in Int
      BY <1>2, <2>5
    <3>2. twice + Long - 1 < (2 * Long) * up + 2 * Long
      BY <1>2, <2>1, <2>5, <3>1
    <3>. QED
      BY <2>1, <2>5, <2>6, <2>7, <2>9, <3>2
  <2>. QED
    BY <2>2, <2>8, <2>9
<1>4. Letterbox.nw = Shrunk(image.w) /\ Letterbox.nh = Shrunk(image.h)
  BY DEF Letterbox
<1>5. Letterbox.left \in Int /\ Letterbox.top \in Int
  BY <1>1, <1>2, <1>3 DEF Letterbox
<1>. QED
  BY <1>2, <1>3, <1>4, <1>5

\* Dividing by a number above 0 keeps the order.
LEMMA DivIsMonotone ==
    ASSUME NEW a \in Int, NEW b \in Int, a <= b, NEW w \in Nat \ {0}
    PROVE  a \div w <= b \div w
<1>. DEFINE p == a \div w
            q == b \div w
<1>1. p \in Int /\ w * p <= a /\ q \in Int /\ b < w * q + w
  BY DivIs
<1>. HIDE DEF p, q
<1>2. w * (q + 1) = w * q + w /\ w * p \in Int /\ w * q \in Int
  BY <1>1
<1>3. w * p < w * (q + 1)
  BY <1>1, <1>2
<1>4. p < q + 1
  BY <1>1, <1>3, FactorsCancel
<1>. QED
  BY <1>1, <1>4 DEF p, q

\* An object comes back as a box that starts inside the image, ends after it
\* started and is one canvas pixel off at most on every side.
LEMMA ObjectComesBack ==
    ASSUME image \in Images, NEW o \in Visible
    PROVE  LET u == Unletterboxed(RawRow(o))
               b == o.box
               near(x, v) == Part * v - 2 * Long <= x /\ x <= Part * v + Long
           IN  /\ b \in BoxState /\ Inside(b, image.w, image.h) /\ HasArea(b)
               /\ RawRow(o).score = o.score /\ RawRow(o).cls = o.cls
               /\ u \in BoxState
               /\ 0 <= u.x1 /\ u.x1 <= u.x2 /\ u.x1 <= Part * image.w
               /\ 0 <= u.y1 /\ u.y1 <= u.y2 /\ u.y1 <= Part * image.h
               /\ near(u.x1, b.x1) /\ near(u.y1, b.y1) /\ near(u.x2, b.x2) /\ near(u.y2, b.y2)
<1>. DEFINE b == o.box
            w == image.w
            h == image.h
            nw == Letterbox.nw
            nh == Letterbox.nh
            x1 == (2 * b.x1 * nw) \div w
            x2 == (2 * b.x2 * nw) \div w
            y1 == (2 * b.y1 * nh) \div h
            y2 == (2 * b.y2 * nh) \div h
            l == Letterbox.left
            t == Letterbox.top
            u == Unletterboxed(RawRow(o))
<1>1. /\ b \in BoxState /\ Inside(b, w, h) /\ HasArea(b)
      /\ w \in Nat \ {0} /\ h \in Nat \ {0} /\ Size \in Nat \ {0}
  BY InferenceAssumption, DecodeAssumption DEF Visible
<1>2. /\ b.x1 \in Int /\ b.x2 \in Int /\ b.y1 \in Int /\ b.y2 \in Int
      /\ b.x1 \in 0..w /\ b.x2 \in 0..w /\ b.y1 \in 0..h /\ b.y2 \in 0..h
      /\ b.x1 < b.x2 /\ b.y1 < b.y2
  BY <1>1 DEF BoxState, Inside, HasArea
<1>3. /\ Long \in Nat \ {0} /\ w <= Long /\ h <= Long /\ nw \in Nat /\ nh \in Nat /\ l \in Int /\ t \in Int
      /\ 2 * (nw * Long) <= 2 * (w * Size) + Long /\ 2 * (nw * Long) >= 2 * (w * Size) - Long
      /\ 2 * (nh * Long) <= 2 * (h * Size) + Long /\ 2 * (nh * Long) >= 2 * (h * Size) - Long
  BY LetterboxIs
<1>4. RawRow(o) = [cls |-> o.cls, score |-> o.score,
                   x |-> (2 * l + x1) + (2 * l + x2), y |-> (2 * t + y1) + (2 * t + y2),
                   w |-> 2 * ((2 * l + x2) - (2 * l + x1)), h |-> 2 * ((2 * t + y2) - (2 * t + y1))]
  BY DEF RawRow, OnCanvas
<1>. HIDE DEF b, w, h, nw, nh, l, t
<1>5. /\ x1 \in Nat /\ x1 * Long <= 2 * (Size * b.x1) + Long /\ x1 * Long >= 2 * (Size * b.x1) - 2 * Long
      /\ x1 * Long <= 2 * (Size * w)
  <2>1. /\ x1 \in Nat /\ x1 * Long <= 2 * (Size * b.x1) + Long /\ x1 * Long >= 2 * (Size * b.x1) - 2 * Long
        /\ b.x1 < w => x1 * Long <= 2 * (Size * w)
    BY <1>1, <1>2, <1>3, ScaledBackIs
  <2>2. b.x1 < w
    BY <1>1, <1>2
  <2>. QED
    BY <2>1, <2>2
<1>6. x2 \in Nat /\ x2 * Long <= 2 * (Size * b.x2) + Long /\ x2 * Long >= 2 * (Size * b.x2) - 2 * Long
  BY <1>1, <1>2, <1>3, ScaledBackIs
<1>7. /\ y1 \in Nat /\ y1 * Long <= 2 * (Size * b.y1) + Long /\ y1 * Long >= 2 * (Size * b.y1) - 2 * Long
      /\ y1 * Long <= 2 * (Size * h)
  <2>1. /\ y1 \in Nat /\ y1 * Long <= 2 * (Size * b.y1) + Long /\ y1 * Long >= 2 * (Size * b.y1) - 2 * Long
        /\ b.y1 < h => y1 * Long <= 2 * (Size * h)
    BY <1>1, <1>2, <1>3, ScaledBackIs
  <2>2. b.y1 < h
    BY <1>1, <1>2
  <2>. QED
    BY <2>1, <2>2
<1>8. y2 \in Nat /\ y2 * Long <= 2 * (Size * b.y2) + Long /\ y2 * Long >= 2 * (Size * b.y2) - 2 * Long
  BY <1>1, <1>2, <1>3, ScaledBackIs
<1>9. ASSUME NEW m \in Nat, NEW p \in Nat, NEW q \in Nat, p <= q, NEW n \in Nat \ {0}
      PROVE  (2 * p * m) \div n <= (2 * q * m) \div n
  <2>1. 2 * p * m = m * (2 * p) /\ 2 * q * m = m * (2 * q)
    OBVIOUS
  <2>2. m * (2 * p) <= m * (2 * q)
    BY <1>9, TimesIsMonotone
  <2>3. m * (2 * p) \in Int /\ m * (2 * q) \in Int
    OBVIOUS
  <2>. QED
    BY <2>1, <2>2, <2>3, DivIsMonotone
<1>10. x1 <= x2
  <2>1. b.x1 \in Nat /\ b.x2 \in Nat /\ b.x1 <= b.x2
    BY <1>1, <1>2
  <2>. QED
    BY <1>1, <1>3, <1>9, <2>1
<1>11. y1 <= y2
  <2>1. b.y1 \in Nat /\ b.y2 \in Nat /\ b.y1 <= b.y2
    BY <1>1, <1>2
  <2>. QED
    BY <1>1, <1>3, <1>9, <2>1
<1>. HIDE DEF x1, x2, y1, y2
<1>12. u = Box(x1 * Long, y1 * Long, x2 * Long, y2 * Long)
  <2>. DEFINE r == RawRow(o)
  <2>1. /\ 2 * r.x - r.w = 4 * (2 * l + x1) /\ 2 * r.x + r.w = 4 * (2 * l + x2)
        /\ 2 * r.y - r.h = 4 * (2 * t + y1) /\ 2 * r.y + r.h = 4 * (2 * t + y2)
    BY <1>3, <1>4, <1>5, <1>6, <1>7, <1>8
  <2>2. \A z \in Int : (4 * z) \div 4 = z
    OBVIOUS
  <2>. HIDE DEF r
  <2>3. /\ ((2 * r.x - r.w) \div 4) - 2 * l = x1 /\ ((2 * r.x + r.w) \div 4) - 2 * l = x2
        /\ ((2 * r.y - r.h) \div 4) - 2 * t = y1 /\ ((2 * r.y + r.h) \div 4) - 2 * t = y2
    BY <1>3, <1>5, <1>6, <1>7, <1>8, <2>1, <2>2
  <2>. QED
    BY <2>3 DEF Unletterboxed, r, l, t
<1>13. /\ u.x1 = x1 * Long /\ u.y1 = y1 * Long /\ u.x2 = x2 * Long /\ u.y2 = y2 * Long
       /\ x1 * Long \in Nat /\ x2 * Long \in Nat /\ y1 * Long \in Nat /\ y2 * Long \in Nat
       /\ u \in BoxState
  <2>1. x1 * Long \in Nat /\ x2 * Long \in Nat /\ y1 * Long \in Nat /\ y2 * Long \in Nat
    BY <1>3, <1>5, <1>6, <1>7, <1>8
  <2>. QED
    BY <1>12, <2>1 DEF Box, BoxState
<1>14. x1 * Long <= x2 * Long /\ y1 * Long <= y2 * Long
  <2>1. Long * x1 <= Long * x2 /\ Long * y1 <= Long * y2
    BY <1>3, <1>5, <1>6, <1>7, <1>8, <1>10, <1>11, TimesIsMonotone
  <2>2. /\ Long * x1 = x1 * Long /\ Long * x2 = x2 * Long
        /\ Long * y1 = y1 * Long /\ Long * y2 = y2 * Long
    BY <1>3, <1>5, <1>6, <1>7, <1>8
  <2>. QED
    BY <2>1, <2>2
<1>15. \A v \in Int : Part * v = 2 * (Size * v)
  BY <1>1 DEF Part
<1>16. RawRow(o).score = o.score /\ RawRow(o).cls = o.cls
  BY <1>4
<1>. HIDE DEF u
<1>17. /\ Part * b.x1 - 2 * Long <= u.x1 /\ u.x1 <= Part * b.x1 + Long
       /\ Part * b.x2 - 2 * Long <= u.x2 /\ u.x2 <= Part * b.x2 + Long
  BY <1>2, <1>5, <1>6, <1>13, <1>15
<1>18. /\ Part * b.y1 - 2 * Long <= u.y1 /\ u.y1 <= Part * b.y1 + Long
       /\ Part * b.y2 - 2 * Long <= u.y2 /\ u.y2 <= Part * b.y2 + Long
  BY <1>2, <1>7, <1>8, <1>13, <1>15
<1>19. u.x1 <= Part * w /\ u.y1 <= Part * h
  BY <1>1, <1>5, <1>7, <1>13, <1>15
<1>. QED
  BY <1>1, <1>13, <1>14, <1>16, <1>17, <1>18, <1>19 DEF u, b, w, h
-------------------------------------------------------------------------------
\* The rows that at most k rows are as good as come among the first k.
LEMMA BestComeFirst ==
    ASSUME NEW rs, IsFiniteSet(rs), RowsTyped(rs), NEW s \in Rankings(rs), NEW k \in Nat,
           NEW r \in rs, Cardinality({q \in rs : q.score >= r.score}) <= k
    PROVE  r \in Range(FirstOf(s, k))
<1>. DEFINE B == {q \in rs : q.score >= r.score}
            n == Len(s)
            f == FirstOf(s, k)
<1>1. /\ s \in Seq(rs) /\ Range(s) = rs /\ IsInjective(s) /\ Sorted(s)
      /\ n \in Nat /\ DOMAIN s = 1..n
  BY RankingIs, LenProperties
<1>2. PICK i \in 1..n : r = s[i]
  BY <1>1 DEF Range
<1>3. IsFiniteSet(B) /\ Cardinality(B) \in Nat
  BY FS_Subset, FS_CardinalityType
<1>4. \A j \in 1..i : j \in 1..n /\ s[j] \in B
  <2>. TAKE j \in 1..i
  <2>1. j \in 1..n /\ s[j] \in rs /\ s[j].score \in Int /\ r.score \in Int
    BY <1>1, ElementOfSeq DEF RowsTyped
  <2>2. j = i \/ s[j].score >= s[i].score
    BY <1>1, <2>1 DEF Sorted
  <2>. QED
    BY <1>2, <2>1, <2>2
<1>5. [j \in 1..i |-> s[j]] \in Injection(1..i, B)
  <2>. HIDE DEF B
  <2>. QED
    BY <1>1, <1>4 DEF Injection, IsInjective
<1>6. Cardinality(1..i) = i
  BY <1>1, FS_Interval
<1>. HIDE DEF n
<1>7. i <= k
  <2>1. Cardinality(1..i) <= Cardinality(B)
    BY <1>3, <1>5, FS_Injection
  <2>. QED
    BY <1>1, <1>3, <1>6, <2>1
<1>8. i \in 1..Lesser(k, n)
  BY <1>1, <1>7 DEF Lesser
<1>9. DOMAIN f = 1..Lesser(k, n) /\ Len(f) = Lesser(k, n) /\ \A j \in 1..Len(f) : f[j] = s[j]
  BY <1>1, FirstIs DEF n
<1>. HIDE DEF f
<1>10. i \in DOMAIN f /\ f[i] = r
  BY <1>2, <1>8, <1>9
<1>. QED
  BY <1>10 DEF Range, f

\* The rows that OnnxDetectionBackend suppresses.
Candidate(r) == [cls |-> r.cls, score |-> r.score, box |-> Unletterboxed(r)]
Candidates == {Candidate(r) : r \in {x \in RawRows : x.score >= Conf}}

\* They are finitely many, and rows.
LEMMA CandidatesAre ==
    ASSUME Provenance, image \in Images
    PROVE  /\ IsFiniteSet(Candidates) /\ RowsTyped(Candidates)
           /\ \A r \in RawRows : r \in stray \/ \E i \in DOMAIN seen : seen[i] \in Visible /\ r = RawRow(seen[i])
<1>1. PICK n \in Nat : seen \in [1..n -> Visible]
  BY DEF Provenance
<1>2. \A r \in RawRows : r \in stray \/ \E i \in DOMAIN seen : seen[i] \in Visible /\ r = RawRow(seen[i])
  BY <1>1 DEF RawRows
<1>3. IsFiniteSet(RawRows)
  <2>. DEFINE T == {RawRow(seen[i]) : i \in DOMAIN seen}
              F == [i \in 1..n |-> RawRow(seen[i])]
  <2>1. F \in Surjection(1..n, T)
    BY <1>1 DEF Surjection
  <2>2. IsFiniteSet(1..n)
    BY FS_Interval
  <2>3. IsFiniteSet(T)
    <3>. HIDE DEF T, F
    <3>. QED
      BY <2>1, <2>2, FS_Surjection
  <2>4. IsFiniteSet(stray) /\ RawRows = T \cup stray
    BY DEF Provenance, RawRows
  <2>. QED
    BY <2>3, <2>4, FS_Union
<1>4. IsFiniteSet(Candidates)
  <2>. DEFINE G == {x \in RawRows : x.score >= Conf}
              F == [r \in G |-> Candidate(r)]
  <2>1. IsFiniteSet(G)
    BY <1>3, FS_Subset
  <2>2. F \in Surjection(G, Candidates)
    BY DEF Surjection, Candidates
  <2>. HIDE DEF F, G
  <2>. QED
    BY <2>1, <2>2, FS_Surjection
<1>5. ASSUME NEW r \in RawRows PROVE r.score \in Int /\ Unletterboxed(r) \in BoxState
  <2>1. CASE r \in stray
    <3>1. /\ r.x \in Int /\ r.y \in Int /\ r.w \in Int /\ r.h \in Int /\ r.score \in Int
      BY <2>1, InferenceAssumption, DecodeAssumption DEF Provenance
    <3>2. Long \in Int /\ Letterbox.left \in Int /\ Letterbox.top \in Int
      BY LetterboxIs
    <3>3. ASSUME NEW z \in Int, NEW p \in Int PROVE (((z \div 4) - 2 * p) * Long) \in Int
      <4>1. z \div 4 \in Int
        BY DivIs
      <4>. QED
        BY <3>2, <4>1
    <3>. QED
      BY <3>1, <3>2, <3>3 DEF Unletterboxed, Box, BoxState
  <2>2. CASE r \notin stray
    <3>1. PICK i \in DOMAIN seen : seen[i] \in Visible /\ r = RawRow(seen[i])
      BY <1>2, <2>2
    <3>2. Unletterboxed(r) \in BoxState /\ r.score = seen[i].score
      BY <3>1, ObjectComesBack
    <3>3. seen[i].score \in Nat
      BY <3>1, InferenceAssumption, DecodeAssumption DEF Visible
    <3>. QED
      BY <3>2, <3>3
  <2>. QED
    BY <2>1, <2>2
<1>6. RowsTyped(Candidates)
  BY <1>5 DEF RowsTyped, Candidates, Candidate
<1>. QED
  BY <1>2, <1>4, <1>6

\* Each side clipped to the border it faces.
Facing(b) == Box(Greater(0, b.x1), Greater(0, b.y1), Lesser(Part * image.w, b.x2), Lesser(Part * image.h, b.y2))

\* The FrameResult of the rows that are kept.
OnnxFrame(kept) ==
    Frame([i \in 1..Len(kept) |->
             Detection(<<"coco", kept[i].cls>>, kept[i].score, Facing(kept[i].box),
                       kept[i].cls, None, None, None)], kept)

\* A backend that answered has an image, and its answer is one for it.
LEMMA ImageIsThere ==
    ASSUME Provenance, NEW b, Answered(b)
    PROVE  image \in Images /\ b \in DOMAIN result /\ result[b] \in Answers(b)
<1>1. b \in DOMAIN result /\ result[b] # Raised
  BY DEF Answered
<1>2. image # None
  BY <1>1 DEF Provenance
<1>. QED
  BY <1>1, <1>2 DEF Provenance

\* An answer of OnnxDetectionBackend is suppression over a ranking of the
\* candidates.
LEMMA OnnxIs ==
    ASSUME Provenance, Answered("onnx")
    PROVE  \E kept : /\ kept \in Seq(Candidates) /\ IsInjective(kept)
                     /\ Greedy(Range(kept), Candidates, NmsNum, NmsDen)
                     /\ result["onnx"] = OnnxFrame(kept)
<1>1. image \in Images /\ result["onnx"] \in PostProcess
  BY ImageIsThere DEF Answers
<1>2. PostProcess = {OnnxFrame(kept) : kept \in {Nms(ranking, NmsNum, NmsDen) : ranking \in Rankings(Candidates)}}
  BY Zenon DEF PostProcess, OnnxFrame, Candidates, Candidate, Facing
<1>3. PICK ranking \in Rankings(Candidates) : result["onnx"] = OnnxFrame(Nms(ranking, NmsNum, NmsDen))
  BY <1>1, <1>2
<1>4. IsFiniteSet(Candidates) /\ RowsTyped(Candidates)
  BY <1>1, CandidatesAre
<1>5. /\ ranking \in Seq(Candidates) /\ Range(ranking) = Candidates
      /\ IsInjective(ranking) /\ Sorted(ranking)
  BY <1>4, RankingIs
<1>. DEFINE kept == Nms(ranking, NmsNum, NmsDen)
<1>6. kept \in Seq(Candidates) /\ IsInjective(kept) /\ Greedy(Range(kept), Range(ranking), NmsNum, NmsDen)
  BY <1>4, <1>5, NmsIsGreedy
<1>. QED
  BY <1>3, <1>5, <1>6

\* The peaks of the torch path and of the numpy path.
TorchPeaks == PeakRows(Heads, HeadSide(Size), Padded(HeadSide(Size)))
NumpyPeaks == PeakRows(Heads, HeadSide(Size), Rolled(HeadSide(Size)))

\* An answer of CenterNetBackend comes from a ranking of its peaks.
LEMMA TorchIs ==
    ASSUME Provenance, Answered("centernet")
    PROVE  \E ranking \in Rankings(TorchPeaks) :
              result["centernet"] = ToFrameResult(DecodeTorch(ranking, TopK, Conf, NmsNum, NmsDen), TorchNames)
<1>1. result["centernet"] \in Answers("centernet")
  BY ImageIsThere
<1>. QED
  BY <1>1 DEF Answers, TorchPeaks

\* So does one of CenterNetOnnxBackend, from its own.
LEMMA NumpyIs ==
    ASSUME Provenance, Answered("centernet-onnx")
    PROVE  \E ranking \in Rankings(NumpyPeaks) :
              result["centernet-onnx"]
                = ToFrameResult(DecodeNumpy(ranking, NumClasses, TopK, NmsNum, NmsDen), OnnxNames)
<1>1. result["centernet-onnx"] \in Answers("centernet-onnx")
  BY ImageIsThere
<1>. QED
  BY <1>1 DEF Answers, NumpyPeaks

\* The detections of a FrameResult of CenterNet: one for each row that reaches
\* the threshold and still has area.
Cut(r) == ClipBox(Unresized(r.box), Part * image.w, Part * image.h)
Shown(rs) == {r \in rs : r.score >= Conf /\ HasArea(Cut(r))}
DetectionOf(r, names) == Detection(Label(r.cls, names), r.score, Cut(r), r.cls, None, None, None)

\* What _to_frame_result makes of the rows.
LEMMA ToFrameResultIs ==
    ASSUME NEW S, NEW rs \in Seq(S), NEW names
    PROVE  /\ ToFrameResult(rs, names).rows = rs
           /\ ToFrameResult(rs, names).width = image.w /\ ToFrameResult(rs, names).height = image.h
           /\ ToFrameResult(rs, names).detections \in Seq({DetectionOf(r, names) : r \in Shown(Range(rs))})
           /\ Range(ToFrameResult(rs, names).detections) = {DetectionOf(r, names) : r \in Shown(Range(rs))}
<1>. DEFINE f == ToFrameResult(rs, names)
            shown == Only(rs, Shown(Range(rs)))
            dets == [i \in 1..Len(shown) |-> DetectionOf(shown[i], names)]
            D == {DetectionOf(r, names) : r \in Shown(Range(rs))}
<1>1. f = Frame(dets, rs)
  BY Zenon DEF ToFrameResult, Cut, Shown, DetectionOf
<1>2. f.rows = rs /\ f.width = image.w /\ f.height = image.h /\ f.detections = dets
  <2>. HIDE DEF dets, f
  <2>. QED
    BY <1>1 DEF Frame
<1>3. shown \in Seq(S) /\ Range(shown) = Shown(Range(rs))
  <2>1. shown \in Seq(S) /\ Range(shown) = Range(rs) \cap Shown(Range(rs))
    <3>. DEFINE P == Shown(Range(rs))
    <3>. HIDE DEF P
    <3>1. Only(rs, P) \in Seq(S) /\ Range(Only(rs, P)) = Range(rs) \cap P
      BY OnlyIs
    <3>. QED
      BY <3>1 DEF P
  <2>. QED
    BY <2>1 DEF Shown
<1>. HIDE DEF shown
<1>4. Len(shown) \in Nat /\ DOMAIN shown = 1..Len(shown)
  BY <1>3, LenProperties
<1>5. \A i \in 1..Len(shown) : shown[i] \in Shown(Range(rs))
  BY <1>3, <1>4 DEF Range
<1>6. dets \in [1..Len(shown) -> D]
  BY <1>5
<1>7. dets \in Seq(D)
  <2>. HIDE DEF dets, D
  <2>. QED
    BY <1>4, <1>6, SeqDef
<1>8. Range(dets) = D
  <2>1. ASSUME NEW d \in D PROVE \E i \in 1..Len(shown) : dets[i] = d
    <3>1. PICK r \in Shown(Range(rs)) : d = DetectionOf(r, names)
      OBVIOUS
    <3>2. PICK i \in 1..Len(shown) : shown[i] = r
      BY <1>3, <1>4, Zenon DEF Range
    <3>. QED
      BY <3>1, <3>2
  <2>. HIDE DEF dets, D
  <2>. QED
    BY <1>6, <2>1 DEF Range
<1>. HIDE DEF f, dets, D
<1>9. /\ f.rows = rs /\ f.width = image.w /\ f.height = image.h
      /\ f.detections \in Seq(D) /\ Range(f.detections) = D
  BY <1>2, <1>7, <1>8
<1>. QED
  BY <1>9, Zenon DEF f, D

\* In particular there is a detection for each row that is shown.
LEMMA ShownAre ==
    ASSUME NEW S, NEW rs \in Seq(S), NEW names
    PROVE  Range(ToFrameResult(rs, names).detections) = {DetectionOf(r, names) : r \in Shown(Range(rs))}
BY ToFrameResultIs, Zenon

\* Justified, for rows of one class only (same) or of any.
JustifiedRows(kept, candidates, same) ==
    /\ \A i, j \in DOMAIN kept : i # j /\ (same => kept[i].cls = kept[j].cls)
          => ~IouAbove(kept[i].box, kept[j].box, NmsNum, NmsDen)
    /\ \A r \in candidates : \E i \in DOMAIN kept :
          \/ kept[i] = r
          \/ /\ (same => kept[i].cls = r.cls) /\ kept[i].score >= r.score
             /\ IouAbove(kept[i].box, r.box, NmsNum, NmsDen)

\* The part of SuppressionJustified that is about CenterNet.
LEMMA TorchJustified ==
    ASSUME Provenance, Answered("centernet")
    PROVE  JustifiedRows(result["centernet"].rows,
                         {r \in TorchPeaks : /\ r.score >= Conf
                                             /\ Cardinality({q \in TorchPeaks : q.score >= r.score}) <= TopK},
                         TRUE)
<1>1. PICK ranking \in Rankings(TorchPeaks) :
          result["centernet"] = ToFrameResult(DecodeTorch(ranking, TopK, Conf, NmsNum, NmsDen), TorchNames)
  BY TorchIs
<1>2. IsFiniteSet(TorchPeaks) /\ RowsTyped(TorchPeaks)
  BY PeaksAre DEF Provenance, TorchPeaks
<1>. DEFINE t == DecodeTorch(ranking, TopK, Conf, NmsNum, NmsDen)
            u == {r \in Range(FirstOf(ranking, TopK)) : r.score >= Conf}
<1>3. TopK \in Nat /\ Conf \in Int
  BY InferenceAssumption, DecodeAssumption
<1>4. /\ t \in Seq(TorchPeaks) /\ IsInjective(t) /\ Range(t) \subseteq u
      /\ \A cls : Greedy(Class(Range(t), cls), Class(u, cls), NmsNum, NmsDen)
  BY <1>2, <1>3, DecodeTorchIs
<1>5. result["centernet"].rows = t
  <2>1. result["centernet"] = ToFrameResult(t, TorchNames)
    BY <1>1
  <2>. HIDE DEF t, u
  <2>2. ToFrameResult(t, TorchNames).rows = t
    BY <1>4, ToFrameResultIs, Zenon
  <2>. QED
    BY <2>1, <2>2
<1>. HIDE DEF t, u
<1>6. ASSUME NEW i \in DOMAIN t, NEW j \in DOMAIN t, i # j, t[i].cls = t[j].cls
      PROVE  ~IouAbove(t[i].box, t[j].box, NmsNum, NmsDen)
  <2>. DEFINE cls == t[i].cls
  <2>1. t[i] # t[j]
    BY <1>4, <1>6 DEF IsInjective
  <2>2. t[i] \in Class(Range(t), cls) /\ t[j] \in Class(Range(t), cls)
    BY <1>6 DEF Class, Range
  <2>3. Greedy(Class(Range(t), cls), Class(u, cls), NmsNum, NmsDen)
    BY <1>4
  <2>. QED
    BY <2>1, <2>2, <2>3 DEF Greedy
<1>7. ASSUME NEW r \in TorchPeaks, r.score >= Conf,
             Cardinality({q \in TorchPeaks : q.score >= r.score}) <= TopK
      PROVE  \E i \in DOMAIN t :
                \/ t[i] = r
                \/ /\ t[i].cls = r.cls /\ t[i].score >= r.score
                   /\ IouAbove(t[i].box, r.box, NmsNum, NmsDen)
  <2>1. r \in Range(FirstOf(ranking, TopK))
    BY <1>2, <1>3, <1>7, BestComeFirst
  <2>2. r \in Class(u, r.cls)
    BY <1>7, <2>1 DEF u, Class
  <2>3. Greedy(Class(Range(t), r.cls), Class(u, r.cls), NmsNum, NmsDen)
    BY <1>4
  <2>4. \/ r \in Class(Range(t), r.cls)
        \/ \E q \in Class(Range(t), r.cls) : q.score >= r.score /\ IouAbove(q.box, r.box, NmsNum, NmsDen)
    BY <2>2, <2>3 DEF Greedy
  <2>5. PICK q \in Class(Range(t), r.cls) :
            q = r \/ (q.score >= r.score /\ IouAbove(q.box, r.box, NmsNum, NmsDen))
    BY <2>4
  <2>6. PICK i \in DOMAIN t : q = t[i] /\ q.cls = r.cls
    BY DEF Class, Range
  <2>. QED
    BY <2>5, <2>6
<1>. QED
  BY <1>5, <1>6, <1>7 DEF JustifiedRows

\* The part that is about YOLO.
LEMMA OnnxJustified ==
    ASSUME Provenance, Answered("onnx")
    PROVE  JustifiedRows(result["onnx"].rows, Candidates, FALSE)
<1>1. PICK kept : /\ kept \in Seq(Candidates) /\ IsInjective(kept)
                  /\ Greedy(Range(kept), Candidates, NmsNum, NmsDen)
                  /\ result["onnx"] = OnnxFrame(kept)
  BY OnnxIs
<1>2. result["onnx"].rows = kept
  BY <1>1 DEF OnnxFrame, Frame
<1>3. \A i \in DOMAIN kept : kept[i] \in Range(kept)
  BY DEF Range
<1>4. \A i, j \in DOMAIN kept : i # j => kept[i] # kept[j]
  BY <1>1 DEF IsInjective
<1>5. \A q \in Range(kept) : \E i \in DOMAIN kept : kept[i] = q
  BY DEF Range
<1>. QED
  BY <1>1, <1>2, <1>3, <1>4, <1>5 DEF JustifiedRows, Greedy

\* Both parts, in the words of SuppressionJustified.
LEMMA SuppressionLemma ==
    ASSUME Provenance
    PROVE  SuppressionJustified
<1>1. Answered("centernet") =>
        JustifiedRows(result["centernet"].rows,
                      {r \in TorchPeaks : /\ r.score >= Conf
                                          /\ Cardinality({q \in TorchPeaks : q.score >= r.score}) <= TopK},
                      TRUE)
  BY TorchJustified
<1>2. Answered("onnx") => JustifiedRows(result["onnx"].rows, Candidates, FALSE)
  BY OnnxJustified
<1>. QED
  BY <1>1, <1>2, Zenon DEF SuppressionJustified, Justified, JustifiedRows, TorchPeaks, Candidates, Candidate

\* Whatever CenterNet and YOLO see, suppression is neither short nor hasty.
THEOREM SuppressionIsJustified == Spec => []SuppressionJustified
BY ProvenanceHolds, SuppressionLemma, PTL
-------------------------------------------------------------------------------
\* A detection with a box as ResultsWellFormed wants it for the backend b.
RightBox(b, x) ==
    /\ x \in BoxState /\ WellOrdered(x)
    /\ b \in {"centernet", "centernet-onnx"} => HasArea(x)
    /\ b \in {"centernet", "centernet-onnx"} \/ stray = {} => Inside(x, Part * image.w, Part * image.h)

\* The same for a detection.
RightDetection(b, d) == "bbox" \in DOMAIN d /\ RightBox(b, d.bbox)

\* Detection orders the corners of its box.
LEMMA DetectionIs ==
    ASSUME NEW label, NEW score, NEW box, NEW cls, NEW mask, NEW pose, NEW id
    PROVE  LET d == Detection(label, score, box, cls, mask, pose, id)
           IN  "bbox" \in DOMAIN d /\ d.bbox = Ordered(box) /\ d.confidence = score
BY DEF Detection

\* Ordering the corners: what is in order stays, and nothing leaves the image.
LEMMA OrderedIs ==
    ASSUME NEW x \in BoxState
    PROVE  /\ Ordered(x) \in BoxState /\ WellOrdered(Ordered(x))
           /\ WellOrdered(x) => Ordered(x) = x
           /\ \A w, h \in Int : Inside(x, w, h) => Inside(Ordered(x), w, h)
<1>1. /\ x.x1 \in Int /\ x.y1 \in Int /\ x.x2 \in Int /\ x.y2 \in Int
      /\ x = Box(x.x1, x.y1, x.x2, x.y2)
  BY DEF BoxState, Box
<1>2. Ordered(x) \in BoxState /\ WellOrdered(Ordered(x))
  BY <1>1 DEF Ordered, Box, BoxState, WellOrdered, Lesser, Greater
<1>3. WellOrdered(x) => Ordered(x) = x
  BY <1>1 DEF Ordered, Box, WellOrdered, Lesser, Greater
<1>4. \A w, h \in Int : Inside(x, w, h) => Inside(Ordered(x), w, h)
  BY <1>1 DEF Ordered, Box, Inside, Lesser, Greater
<1>. QED
  BY <1>2, <1>3, <1>4

\* A clipped box with area is in order and inside the image.
LEMMA CutIs ==
    ASSUME image \in Images, NEW r, r.box \in BoxState, HasArea(Cut(r))
    PROVE  /\ Cut(r) \in BoxState /\ Ordered(Cut(r)) = Cut(r) /\ WellOrdered(Cut(r))
           /\ Inside(Cut(r), Part * image.w, Part * image.h)
<1>. DEFINE u == Unresized(r.box)
            W == Part * image.w
            H == Part * image.h
<1>1. W \in Nat /\ H \in Nat
  BY InferenceAssumption, DecodeAssumption DEF Part
<1>2. u.x1 \in Int /\ u.y1 \in Int /\ u.x2 \in Int /\ u.y2 \in Int
  <2>1. /\ r.box.x1 \in Int /\ r.box.y1 \in Int /\ r.box.x2 \in Int /\ r.box.y2 \in Int
        /\ image.w \in Int /\ image.h \in Int
    BY InferenceAssumption, DecodeAssumption DEF BoxState
  <2>. QED
    BY <2>1 DEF Unresized, Box
<1>. HIDE DEF u, W, H
<1>3. /\ Clamp(u.x1, 0, W) \in 0..W /\ Clamp(u.x2, 0, W) \in 0..W
      /\ Clamp(u.y1, 0, H) \in 0..H /\ Clamp(u.y2, 0, H) \in 0..H
  BY <1>1, <1>2, ClampIs
<1>4. Cut(r) = Box(Clamp(u.x1, 0, W), Clamp(u.y1, 0, H), Clamp(u.x2, 0, W), Clamp(u.y2, 0, H))
  BY DEF Cut, ClipBox, u, W, H
<1>5. Cut(r) \in BoxState /\ Inside(Cut(r), W, H)
  BY <1>1, <1>3, <1>4 DEF Box, BoxState, Inside
<1>6. WellOrdered(Cut(r))
  BY <1>5 DEF WellOrdered, HasArea, BoxState
<1>. QED
  BY <1>5, <1>6, OrderedIs DEF W, H

\* The detections of CenterNet, whatever the rows.
LEMMA CenterNetIsRight ==
    ASSUME image \in Images, NEW b, NEW S, RowsTyped(S), NEW rs \in Seq(S), NEW names
    PROVE  \A d \in Range(ToFrameResult(rs, names).detections) : RightDetection(b, d)
<1>1. TAKE d \in Range(ToFrameResult(rs, names).detections)
<1>2. PICK r \in Shown(Range(rs)) : d = DetectionOf(r, names)
  <2>1. Range(ToFrameResult(rs, names).detections) = {DetectionOf(r, names) : r \in Shown(Range(rs))}
    BY ShownAre, Zenon
  <2>. QED
    BY <2>1
<1>3. r \in S
  <2>1. r \in Range(rs)
    BY DEF Shown
  <2>2. DOMAIN rs = 1..Len(rs) /\ \A i \in 1..Len(rs) : rs[i] \in S
    BY LenProperties, ElementOfSeq
  <2>. QED
    BY <2>1, <2>2 DEF Range
<1>4. HasArea(Cut(r)) /\ r.box \in BoxState
  BY <1>3 DEF Shown, RowsTyped
<1>5. "bbox" \in DOMAIN d /\ d.bbox = Ordered(Cut(r))
  BY <1>2, DetectionIs DEF DetectionOf
<1>. QED
  BY <1>4, <1>5, CutIs DEF RightDetection, RightBox

\* Clipping each side to the border it faces is enough for a box that starts
\* inside the image and ends after it started.
LEMMA FacingIs ==
    ASSUME image \in Images, NEW u \in BoxState
    PROVE  /\ Facing(u) \in BoxState
           /\ (/\ 0 <= u.x1 /\ u.x1 <= u.x2 /\ u.x1 <= Part * image.w
               /\ 0 <= u.y1 /\ u.y1 <= u.y2 /\ u.y1 <= Part * image.h)
              => /\ Ordered(Facing(u)) = Box(u.x1, u.y1, Lesser(Part * image.w, u.x2), Lesser(Part * image.h, u.y2))
                 /\ Inside(Ordered(Facing(u)), Part * image.w, Part * image.h)
<1>. DEFINE W == Part * image.w
            H == Part * image.h
<1>1. W \in Nat /\ H \in Nat
  BY InferenceAssumption, DecodeAssumption DEF Part
<1>2. u.x1 \in Int /\ u.y1 \in Int /\ u.x2 \in Int /\ u.y2 \in Int
  BY DEF BoxState
<1>3. Facing(u) = Box(Greater(0, u.x1), Greater(0, u.y1), Lesser(W, u.x2), Lesser(H, u.y2))
  BY DEF Facing
<1>. HIDE DEF W, H
<1>4. Facing(u) \in BoxState
  BY <1>1, <1>2, <1>3 DEF Box, BoxState, Greater, Lesser
<1>5. ASSUME 0 <= u.x1, u.x1 <= u.x2, u.x1 <= W, 0 <= u.y1, u.y1 <= u.y2, u.y1 <= H
      PROVE  /\ Ordered(Facing(u)) = Box(u.x1, u.y1, Lesser(W, u.x2), Lesser(H, u.y2))
             /\ Inside(Ordered(Facing(u)), W, H)
  <2>1. Greater(0, u.x1) = u.x1 /\ Greater(0, u.y1) = u.y1
    BY <1>2, <1>5 DEF Greater
  <2>2. /\ u.x1 <= Lesser(W, u.x2) /\ Lesser(W, u.x2) <= W /\ Lesser(W, u.x2) \in Int
        /\ u.y1 <= Lesser(H, u.y2) /\ Lesser(H, u.y2) <= H /\ Lesser(H, u.y2) \in Int
    BY <1>1, <1>2, <1>5 DEF Lesser
  <2>3. WellOrdered(Facing(u))
    BY <1>3, <2>1, <2>2 DEF WellOrdered, Box
  <2>4. Ordered(Facing(u)) = Facing(u)
    BY <1>4, <2>3, OrderedIs
  <2>. QED
    BY <1>1, <1>2, <1>3, <1>5, <2>1, <2>2, <2>4 DEF Inside, Box
<1>. QED
  BY <1>4, <1>5 DEF W, H

\* Where the detections of OnnxDetectionBackend come from.
LEMMA OnnxDetectionsAre ==
    ASSUME Provenance, Answered("onnx"), NEW i \in DOMAIN result["onnx"].detections
    PROVE  LET d == result["onnx"].detections[i]
           IN  \E r \in RawRows : /\ "bbox" \in DOMAIN d /\ d.confidence = r.score
                                  /\ d.bbox = Ordered(Facing(Unletterboxed(r)))
                                  /\ Unletterboxed(r) \in BoxState
<1>1. PICK kept : kept \in Seq(Candidates) /\ result["onnx"] = OnnxFrame(kept)
  BY OnnxIs
<1>2. image \in Images
  BY ImageIsThere
<1>. DEFINE dets == [k \in 1..Len(kept) |->
                       Detection(<<"coco", kept[k].cls>>, kept[k].score, Facing(kept[k].box),
                                 kept[k].cls, None, None, None)]
<1>3. result["onnx"].detections = dets
  <2>. HIDE DEF dets
  <2>. QED
    BY <1>1 DEF OnnxFrame, Frame, dets
<1>4. i \in 1..Len(kept) /\ kept[i] \in Candidates
  <2>1. i \in 1..Len(kept)
    BY <1>3
  <2>. QED
    BY <1>1, <2>1, ElementOfSeq
<1>5. PICK r \in RawRows : kept[i] = Candidate(r)
  BY <1>4 DEF Candidates
<1>6. kept[i].score = r.score /\ kept[i].box = Unletterboxed(r)
  BY <1>5 DEF Candidate
<1>7. kept[i].box \in BoxState
  BY <1>2, <1>4, CandidatesAre DEF RowsTyped
<1>8. dets[i] = Detection(<<"coco", kept[i].cls>>, kept[i].score, Facing(kept[i].box), kept[i].cls, None, None, None)
  BY <1>4
<1>. HIDE DEF dets
<1>9. "bbox" \in DOMAIN dets[i] /\ dets[i].confidence = r.score /\ dets[i].bbox = Ordered(Facing(Unletterboxed(r)))
  BY <1>6, <1>8, DetectionIs
<1>. QED
  BY <1>3, <1>6, <1>7, <1>9

\* The detections of OnnxDetectionBackend.
LEMMA OnnxIsRight ==
    ASSUME Provenance, Answered("onnx"), NEW i \in DOMAIN result["onnx"].detections
    PROVE  RightDetection("onnx", result["onnx"].detections[i])
<1>. DEFINE d == result["onnx"].detections[i]
<1>1. PICK r \in RawRows : /\ "bbox" \in DOMAIN d
                           /\ d.bbox = Ordered(Facing(Unletterboxed(r)))
                           /\ Unletterboxed(r) \in BoxState
  BY OnnxDetectionsAre
<1>2. image \in Images
  BY ImageIsThere
<1>3. d.bbox \in BoxState /\ WellOrdered(d.bbox)
  BY <1>1, <1>2, FacingIs, OrderedIs
<1>4. ASSUME stray = {} PROVE Inside(d.bbox, Part * image.w, Part * image.h)
  <2>1. PICK j \in DOMAIN seen : seen[j] \in Visible /\ r = RawRow(seen[j])
    BY <1>2, <1>4, CandidatesAre
  <2>2. LET u == Unletterboxed(r)
        IN  /\ 0 <= u.x1 /\ u.x1 <= u.x2 /\ u.x1 <= Part * image.w
            /\ 0 <= u.y1 /\ u.y1 <= u.y2 /\ u.y1 <= Part * image.h
    <3>1. LET u == Unletterboxed(RawRow(seen[j]))
          IN  /\ 0 <= u.x1 /\ u.x1 <= u.x2 /\ u.x1 <= Part * image.w
              /\ 0 <= u.y1 /\ u.y1 <= u.y2 /\ u.y1 <= Part * image.h
      BY <1>2, <2>1, ObjectComesBack, Zenon
    <3>. QED
      BY <2>1, <3>1, Zenon
  <2>. QED
    BY <1>1, <1>2, <2>2, FacingIs
<1>. QED
  BY <1>1, <1>3, <1>4 DEF RightDetection, RightBox

\* SeenWhereItIs, for one detection.
LEMMA WhereItIs ==
    ASSUME Provenance, Answered("onnx"), stray = {}, NEW i \in DOMAIN result["onnx"].detections
    PROVE  LET d == result["onnx"].detections[i]
               close(u, v) == Greater(u - v, v - u) <= 2 * Long
           IN  \E j \in DOMAIN seen :
                  LET b == InParts(seen[j].box)
                  IN /\ d.confidence = seen[j].score
                     /\ close(d.bbox.x1, b.x1) /\ close(d.bbox.y1, b.y1)
                     /\ close(d.bbox.x2, b.x2) /\ close(d.bbox.y2, b.y2)
<1>. DEFINE d == result["onnx"].detections[i]
<1>1. PICK r \in RawRows : /\ d.confidence = r.score
                           /\ d.bbox = Ordered(Facing(Unletterboxed(r)))
                           /\ Unletterboxed(r) \in BoxState
  BY OnnxDetectionsAre
<1>2. image \in Images
  BY ImageIsThere
<1>3. PICK j \in DOMAIN seen : seen[j] \in Visible /\ r = RawRow(seen[j])
  BY <1>2, CandidatesAre
<1>. DEFINE u == Unletterboxed(r)
            b == seen[j].box
            W == Part * image.w
            H == Part * image.h
<1>4. /\ r.score = seen[j].score
      /\ b \in BoxState /\ Inside(b, image.w, image.h)
      /\ 0 <= u.x1 /\ u.x1 <= u.x2 /\ u.x1 <= W
      /\ 0 <= u.y1 /\ u.y1 <= u.y2 /\ u.y1 <= H
      /\ Part * b.x1 - 2 * Long <= u.x1 /\ u.x1 <= Part * b.x1 + Long
      /\ Part * b.x2 - 2 * Long <= u.x2 /\ u.x2 <= Part * b.x2 + Long
      /\ Part * b.y1 - 2 * Long <= u.y1 /\ u.y1 <= Part * b.y1 + Long
      /\ Part * b.y2 - 2 * Long <= u.y2 /\ u.y2 <= Part * b.y2 + Long
  BY <1>2, <1>3, ObjectComesBack
<1>5. d.bbox = Box(u.x1, u.y1, Lesser(W, u.x2), Lesser(H, u.y2))
  BY <1>1, <1>2, <1>4, FacingIs
<1>6. Part * b.x2 <= W /\ Part * b.y2 <= H /\ W \in Int /\ H \in Int
  <2>1. Part \in Nat /\ image.w \in Int /\ image.h \in Int
    BY <1>2, InferenceAssumption, DecodeAssumption DEF Part
  <2>2. b.x2 \in Int /\ b.y2 \in Int /\ b.x2 <= image.w /\ b.y2 <= image.h
    BY <1>4 DEF BoxState, Inside
  <2>. QED
    BY <2>1, <2>2, TimesIsMonotone
<1>7. /\ Part * b.x1 \in Int /\ Part * b.x2 \in Int /\ Part * b.y1 \in Int /\ Part * b.y2 \in Int
      /\ Long \in Nat
      /\ u.x1 \in Int /\ u.x2 \in Int /\ u.y1 \in Int /\ u.y2 \in Int
  <2>1. Part \in Nat
    BY InferenceAssumption, DecodeAssumption DEF Part
  <2>2. b.x1 \in Int /\ b.x2 \in Int /\ b.y1 \in Int /\ b.y2 \in Int
    BY <1>4 DEF BoxState
  <2>3. Long \in Nat /\ u.x1 \in Int /\ u.x2 \in Int /\ u.y1 \in Int /\ u.y2 \in Int
    BY <1>1, <1>2, LetterboxIs DEF BoxState
  <2>. QED
    BY <2>1, <2>2, <2>3
<1>. DEFINE close(p, q) == Greater(p - q, q - p) <= 2 * Long
<1>. HIDE DEF W, H, u, d
<1>8. d.bbox.x1 = u.x1 /\ d.bbox.y1 = u.y1 /\ d.bbox.x2 = Lesser(W, u.x2) /\ d.bbox.y2 = Lesser(H, u.y2)
  BY <1>5 DEF Box
<1>9. ASSUME NEW p \in Int, NEW q \in Int, q - 2 * Long <= p, p <= q + Long PROVE close(p, q)
  BY <1>7, <1>9 DEF Greater
<1>10. close(u.x1, Part * b.x1) /\ close(u.y1, Part * b.y1)
  BY <1>4, <1>7, <1>9
<1>11. ASSUME NEW p \in Int, NEW q \in Int, q - 2 * Long <= p, p <= q + Long, NEW M \in Int, q <= M
       PROVE  close(Lesser(M, p), q)
  BY <1>7, <1>11 DEF Greater, Lesser
<1>12. close(Lesser(W, u.x2), Part * b.x2)
  BY <1>4, <1>6, <1>7, <1>11
<1>13. close(Lesser(H, u.y2), Part * b.y2)
  BY <1>4, <1>6, <1>7, <1>11
<1>14. InParts(b) = Box(Part * b.x1, Part * b.y1, Part * b.x2, Part * b.y2)
  BY DEF InParts
<1>. DEFINE c == InParts(b)
<1>15. c.x1 = Part * b.x1 /\ c.y1 = Part * b.y1 /\ c.x2 = Part * b.x2 /\ c.y2 = Part * b.y2
  BY <1>14 DEF Box
<1>. HIDE DEF close, c
<1>16. /\ d.confidence = seen[j].score
       /\ close(d.bbox.x1, c.x1) /\ close(d.bbox.y1, c.y1)
       /\ close(d.bbox.x2, c.x2) /\ close(d.bbox.y2, c.y2)
  BY <1>1, <1>4, <1>8, <1>10, <1>12, <1>13, <1>15 DEF d
<1>. QED
  BY <1>3, <1>16 DEF d, c, close

\* SeenWhereItIs, for all of them.
LEMMA SeenLemma ==
    ASSUME Provenance
    PROVE  SeenWhereItIs
BY WhereItIs, Zenon DEF SeenWhereItIs

\* For images of any size, objects come back where they are.
THEOREM LetterboxIsUndone == Spec => []SeenWhereItIs
BY ProvenanceHolds, SeenLemma, PTL
-------------------------------------------------------------------------------
\* What comes in the image's own coordinates: the results of Ultralytics and
\* Transformers.
LEMMA InPartsIs ==
    ASSUME image \in Images, NEW o \in Visible
    PROVE  LET x == Ordered(InParts(o.box))
           IN  x \in BoxState /\ WellOrdered(x) /\ Inside(x, Part * image.w, Part * image.h)
<1>. DEFINE b == o.box
            u == InParts(b)
            W == Part * image.w
            H == Part * image.h
<1>1. /\ b.x1 \in Int /\ b.y1 \in Int /\ b.x2 \in Int /\ b.y2 \in Int /\ Part \in Nat
      /\ image.w \in Nat /\ image.h \in Nat /\ Inside(b, image.w, image.h)
  BY InferenceAssumption, DecodeAssumption DEF Visible, BoxState, Part
<1>2. u = Box(Part * b.x1, Part * b.y1, Part * b.x2, Part * b.y2)
  BY DEF InParts
<1>3. ASSUME NEW v \in Int, NEW n \in Nat, 0 <= v, v <= n
      PROVE  0 <= Part * v /\ Part * v <= Part * n /\ Part * v \in Int
  BY <1>1, <1>3, TimesIsMonotone
<1>4. /\ 0 <= b.x1 /\ b.x1 <= image.w /\ 0 <= b.x2 /\ b.x2 <= image.w
      /\ 0 <= b.y1 /\ b.y1 <= image.h /\ 0 <= b.y2 /\ b.y2 <= image.h
  BY <1>1 DEF Inside
<1>5. /\ 0 <= Part * b.x1 /\ Part * b.x1 <= W /\ 0 <= Part * b.x2 /\ Part * b.x2 <= W
      /\ 0 <= Part * b.y1 /\ Part * b.y1 <= H /\ 0 <= Part * b.y2 /\ Part * b.y2 <= H
      /\ Part * b.x1 \in Int /\ Part * b.y1 \in Int /\ Part * b.x2 \in Int /\ Part * b.y2 \in Int
      /\ W \in Int /\ H \in Int
  <2>1. 0 <= Part * b.x1 /\ Part * b.x1 <= W /\ Part * b.x1 \in Int
    BY <1>1, <1>3, <1>4
  <2>2. 0 <= Part * b.x2 /\ Part * b.x2 <= W /\ Part * b.x2 \in Int
    BY <1>1, <1>3, <1>4
  <2>3. 0 <= Part * b.y1 /\ Part * b.y1 <= H /\ Part * b.y1 \in Int
    BY <1>1, <1>3, <1>4
  <2>4. 0 <= Part * b.y2 /\ Part * b.y2 <= H /\ Part * b.y2 \in Int
    BY <1>1, <1>3, <1>4
  <2>5. W \in Int /\ H \in Int
    BY <1>1
  <2>. QED
    BY <2>1, <2>2, <2>3, <2>4, <2>5
<1>. HIDE DEF W, H
<1>6. u \in BoxState /\ Inside(u, W, H)
  BY <1>2, <1>5 DEF Box, BoxState, Inside
<1>. HIDE DEF u
<1>7. Ordered(u) \in BoxState /\ WellOrdered(Ordered(u)) /\ Inside(Ordered(u), W, H)
  BY <1>5, <1>6, OrderedIs
<1>. QED
  BY <1>7 DEF u, W, H

\* The detections of Ultralytics, whatever the kind of model.
LEMMA ConvertedIsRight ==
    ASSUME Provenance, image \in Images, NEW kind, NEW i \in DOMAIN Convert(kind).detections
    PROVE  RightDetection("yolo", Convert(kind).detections[i])
<1>1. PICK n \in Nat : seen \in [1..n -> Visible]
  BY DEF Provenance
<1>. DEFINE masks == IF kind = "segmentation" THEN ExtractMasks([k \in DOMAIN seen |-> seen[k].mask]) ELSE <<>>
            poses == IF kind = "pose" THEN [k \in DOMAIN seen |-> seen[k].pose] ELSE <<>>
            dets == [k \in DOMAIN seen |->
                       Detection(<<"names", seen[k].cls>>, seen[k].score, InParts(seen[k].box), seen[k].cls,
                                 At(masks, k), At(poses, k), IF kind = "tracking" THEN k ELSE None)]
<1>2. Convert(kind).detections = dets
  <2>1. Convert(kind) = Frame(dets, <<>>)
    BY Zenon DEF Convert
  <2>. HIDE DEF dets
  <2>. QED
    BY <2>1 DEF Frame
<1>3. i \in DOMAIN seen /\ seen[i] \in Visible
  BY <1>1, <1>2
<1>4. dets[i] = Detection(<<"names", seen[i].cls>>, seen[i].score, InParts(seen[i].box), seen[i].cls,
                          At(masks, i), At(poses, i), IF kind = "tracking" THEN i ELSE None)
  BY <1>3
<1>. HIDE DEF dets, masks, poses
<1>5. "bbox" \in DOMAIN dets[i] /\ dets[i].bbox = Ordered(InParts(seen[i].box))
  BY <1>4, DetectionIs
<1>. QED
  BY <1>2, <1>3, <1>5, InPartsIs DEF RightDetection, RightBox

\* The detections of every backend.
LEMMA DetectionsAreRight ==
    ASSUME Provenance, NEW b, Answered(b), NEW i \in DOMAIN result[b].detections
    PROVE  RightDetection(b, result[b].detections[i])
<1>1. image \in Images /\ result[b] \in Answers(b)
  BY ImageIsThere
<1>2. CASE b = "centernet"
  <2>1. PICK ranking \in Rankings(TorchPeaks) :
            result[b] = ToFrameResult(DecodeTorch(ranking, TopK, Conf, NmsNum, NmsDen), TorchNames)
    BY <1>2, TorchIs
  <2>2. IsFiniteSet(TorchPeaks) /\ RowsTyped(TorchPeaks)
    BY PeaksAre DEF Provenance, TorchPeaks
  <2>3. DecodeTorch(ranking, TopK, Conf, NmsNum, NmsDen) \in Seq(TorchPeaks)
    <3>1. TopK \in Nat /\ Conf \in Int
      BY InferenceAssumption, DecodeAssumption
    <3>. QED
      BY <2>2, <3>1, DecodeTorchIs
  <2>4. result[b].detections[i] \in Range(result[b].detections)
    BY DEF Range
  <2>. QED
    BY <1>1, <2>1, <2>2, <2>3, <2>4, CenterNetIsRight
<1>3. CASE b = "centernet-onnx"
  <2>1. PICK ranking \in Rankings(NumpyPeaks) :
            result[b] = ToFrameResult(DecodeNumpy(ranking, NumClasses, TopK, NmsNum, NmsDen), OnnxNames)
    BY <1>3, NumpyIs
  <2>2. IsFiniteSet(NumpyPeaks) /\ RowsTyped(NumpyPeaks)
    BY PeaksAre DEF Provenance, NumpyPeaks
  <2>3. DecodeNumpy(ranking, NumClasses, TopK, NmsNum, NmsDen) \in Seq(NumpyPeaks)
    <3>1. TopK \in Nat /\ NumClasses \in Nat
      BY InferenceAssumption, DecodeAssumption
    <3>. QED
      BY <2>2, <3>1, DecodeNumpyIs
  <2>4. result[b].detections[i] \in Range(result[b].detections)
    BY DEF Range
  <2>. QED
    BY <1>1, <2>1, <2>2, <2>3, <2>4, CenterNetIsRight
<1>4. CASE b = "onnx"
  BY <1>4, OnnxIsRight
<1>5. CASE b = "yolo"
  <2>1. PICK kind : result[b] = Convert(kind)
    BY <1>1, <1>5 DEF Answers
  <2>. QED
    BY <1>1, <1>5, <2>1, ConvertedIsRight
<1>6. CASE b = "hf"
  <2>. DEFINE dets == [k \in DOMAIN seen |->
                         Detection(<<"hf", seen[k].cls>>, seen[k].score, InParts(seen[k].box),
                                   None, None, None, None)]
  <2>1. PICK n \in Nat : seen \in [1..n -> Visible]
    BY DEF Provenance
  <2>2. result[b] = Frame(dets, <<>>)
    BY <1>1, <1>6 DEF Answers
  <2>3. result[b].detections = dets
    <3>. HIDE DEF dets
    <3>. QED
      BY <2>2 DEF Frame
  <2>4. i \in DOMAIN seen /\ seen[i] \in Visible
    BY <2>1, <2>3
  <2>5. dets[i] = Detection(<<"hf", seen[i].cls>>, seen[i].score, InParts(seen[i].box), None, None, None, None)
    BY <2>4
  <2>. HIDE DEF dets
  <2>6. "bbox" \in DOMAIN dets[i] /\ dets[i].bbox = Ordered(InParts(seen[i].box))
    BY <2>5, DetectionIs
  <2>. QED
    BY <1>1, <1>6, <2>3, <2>4, <2>6, InPartsIs DEF RightDetection, RightBox
<1>7. CASE b \notin {"centernet", "centernet-onnx", "onnx", "yolo", "hf"}
  <2>1. result[b] = Frame(<<>>, <<>>)
    BY <1>1, <1>7 DEF Answers
  <2>2. DOMAIN result[b].detections = {}
    BY <2>1 DEF Frame
  <2>. QED
    BY <2>2
<1>. QED
  BY <1>2, <1>3, <1>4, <1>5, <1>6, <1>7

\* Rounding keeps the order of numbers, and what is inside the image.
LEMMA HundredthsAre ==
    ASSUME NEW v \in Int
    PROVE  /\ Hundredths(v) \in Int
           /\ \A u \in Int : u <= v => Hundredths(u) <= Hundredths(v)
           /\ \A n \in Nat : 0 <= v /\ v <= Part * n => Hundredths(v) \in 0..100 * n
<1>1. Part \in Nat \ {0} /\ 2 * Part \in Nat \ {0}
  BY InferenceAssumption, DecodeAssumption DEF Part
<1>2. Hundredths(v) = (200 * v + Part) \div (2 * Part) /\ 200 * v + Part \in Int
  BY <1>1 DEF Hundredths
<1>3. Hundredths(v) \in Int
  BY <1>1, <1>2, DivIs
<1>4. ASSUME NEW u \in Int, u <= v PROVE Hundredths(u) <= Hundredths(v)
  <2>1. Hundredths(u) = (200 * u + Part) \div (2 * Part)
    BY <1>1 DEF Hundredths
  <2>2. 200 * u + Part \in Int /\ 200 * u + Part <= 200 * v + Part
    BY <1>1, <1>4
  <2>. DEFINE p == 200 * u + Part
              q == 200 * v + Part
              w == 2 * Part
  <2>3. p \in Int /\ q \in Int /\ p <= q /\ w \in Nat \ {0}
    BY <1>1, <1>2, <2>2
  <2>. HIDE DEF p, q, w
  <2>4. p \div w <= q \div w
    BY <2>3, DivIsMonotone
  <2>. QED
    BY <1>2, <2>1, <2>4 DEF p, q, w
<1>5. ASSUME NEW n \in Nat, 0 <= v, v <= Part * n PROVE Hundredths(v) \in 0..100 * n
  <2>. DEFINE q == Hundredths(v)
              t == 2 * Part
  <2>1. t * q <= 200 * v + Part /\ 200 * v + Part < t * q + t /\ q \in Int
    BY <1>1, <1>2, <1>3, DivIs
  <2>. HIDE DEF q
  <2>2. t * (100 * n + 1) = 200 * (Part * n) + 2 * Part /\ Part * n \in Nat
    BY <1>1
  <2>3. t * (q + 1) = t * q + t /\ t * q \in Int /\ t * 0 = 0
    BY <1>1, <2>1
  <2>4. t * q < t * (100 * n + 1)
    BY <1>1, <1>5, <2>1, <2>2, <2>3
  <2>5. t * 0 < t * (q + 1)
    BY <1>1, <1>5, <2>1, <2>3
  <2>6. q < 100 * n + 1 /\ 0 < q + 1
    BY <1>1, <2>1, <2>4, <2>5, FactorsCancel
  <2>. QED
    BY <2>1, <2>6 DEF q
<1>. QED
  BY <1>3, <1>4, <1>5

\* The same for a box.
LEMMA RoundedIs ==
    ASSUME NEW x \in BoxState
    PROVE  /\ WellOrdered(x) => WellOrdered(Rounded(x))
           /\ \A w, h \in Nat : Inside(x, Part * w, Part * h) => Inside(Rounded(x), 100 * w, 100 * h)
<1>1. x.x1 \in Int /\ x.y1 \in Int /\ x.x2 \in Int /\ x.y2 \in Int
  BY DEF BoxState
<1>2. ASSUME WellOrdered(x) PROVE WellOrdered(Rounded(x))
  <2>1. Hundredths(x.x1) <= Hundredths(x.x2) /\ Hundredths(x.y1) <= Hundredths(x.y2)
    BY <1>1, <1>2, HundredthsAre DEF WellOrdered
  <2>. QED
    BY <2>1 DEF WellOrdered, Rounded, Box
<1>3. ASSUME NEW w \in Nat, NEW h \in Nat, Inside(x, Part * w, Part * h)
      PROVE  Inside(Rounded(x), 100 * w, 100 * h)
  <2>1. /\ 0 <= x.x1 /\ x.x1 <= Part * w /\ 0 <= x.x2 /\ x.x2 <= Part * w
        /\ 0 <= x.y1 /\ x.y1 <= Part * h /\ 0 <= x.y2 /\ x.y2 <= Part * h
    BY <1>3 DEF Inside
  <2>2. /\ Hundredths(x.x1) \in 0..100 * w /\ Hundredths(x.x2) \in 0..100 * w
        /\ Hundredths(x.y1) \in 0..100 * h /\ Hundredths(x.y2) \in 0..100 * h
    BY <1>1, <2>1, HundredthsAre
  <2>. QED
    BY <2>2 DEF Inside, Rounded, Box
<1>. QED
  BY <1>2, <1>3

\* ResultsWellFormed, for what was returned and for what was sent.
LEMMA WellFormedLemma ==
    ASSUME Provenance
    PROVE  ResultsWellFormed
<1>1. ASSUME NEW b \in DOMAIN result, Answered(b), NEW x \in Boxes(result[b].detections)
      PROVE  RightBox(b, x)
  <2>1. PICK i \in DOMAIN result[b].detections : x = result[b].detections[i].bbox
    BY DEF Boxes
  <2>. QED
    BY <1>1, <2>1, DetectionsAreRight DEF RightDetection
<1>2. ASSUME NEW b \in DOMAIN stored, NEW x \in Boxes(stored[b].detections)
      PROVE  /\ WellOrdered(x)
             /\ b \in {"centernet", "centernet-onnx"} => Inside(x, 100 * image.w, 100 * image.h)
  <2>1. b \in DOMAIN result /\ Answered(b) /\ stored[b] = ToDict(result[b])
    BY DEF Provenance, Answered
  <2>. DEFINE ds == result[b].detections
  <2>2. stored[b].detections = [i \in DOMAIN ds |-> [ds[i] EXCEPT !.bbox = Rounded(@)]]
    BY <2>1 DEF ToDict
  <2>. HIDE DEF ds
  <2>3. PICK i \in DOMAIN ds : x = [ds[i] EXCEPT !.bbox = Rounded(@)].bbox
    BY <2>2 DEF Boxes
  <2>4. RightDetection(b, ds[i])
    BY <2>1, DetectionsAreRight DEF ds
  <2>5. x = Rounded(ds[i].bbox) /\ RightBox(b, ds[i].bbox)
    BY <2>3, <2>4 DEF RightDetection
  <2>6. image.w \in Nat /\ image.h \in Nat
    BY <2>1, ImageIsThere, InferenceAssumption, DecodeAssumption
  <2>. QED
    BY <2>5, <2>6, RoundedIs DEF RightBox
<1>3. ResultsWellFormed <=>
        /\ \A b \in {y \in DOMAIN result : Answered(y)} : \A box \in Boxes(result[b].detections) :
              /\ WellOrdered(box)
              /\ b \in {"centernet", "centernet-onnx"} => HasArea(box)
              /\ b \in {"centernet", "centernet-onnx"} \/ stray = {}
                   => Inside(box, Part * image.w, Part * image.h)
        /\ \A b \in DOMAIN stored : \A box \in Boxes(stored[b].detections) :
              /\ WellOrdered(box)
              /\ b \in {"centernet", "centernet-onnx"} => Inside(box, 100 * image.w, 100 * image.h)
  BY DEF ResultsWellFormed
<1>. QED
  BY <1>1, <1>2, <1>3 DEF RightBox

\* Every box that leaves a backend, and every box that is sent, is one of the
\* schema, whatever the image, the network and its input are.
THEOREM BoxesAreWellFormed == Spec => []ResultsWellFormed
BY ProvenanceHolds, WellFormedLemma, PTL
-------------------------------------------------------------------------------
\* Once around a cycle of n is back at the start.
LEMMA ModIs ==
    ASSUME NEW n \in Nat \ {0}, NEW d \in 0..n - 1
    PROVE  (d + n) % n = d
<1>. DEFINE q == (d + n) \div n
            m == (d + n) % n
<1>1. d + n = n * q + m /\ m \in 0..n - 1 /\ q \in Int
  OBVIOUS
<1>. HIDE DEF q, m
<1>2. n * (q - 1) = n * q - n /\ n * q \in Int /\ n * 0 = 0 /\ n * (2 - q) = 2 * n - n * q /\ n * 2 = 2 * n
  BY <1>1
<1>3. n * 0 < n * q /\ n * q < n * 2
  BY <1>1, <1>2
<1>4. 0 < q /\ q < 2
  BY <1>1, <1>3, FactorsCancel
<1>5. q = 1
  BY <1>1, <1>4
<1>6. n * q = n
  BY <1>5
<1>7. m = d
  BY <1>1, <1>6
<1>. QED
  BY <1>7 DEF m

\* Rolling brings every neighbour, and those across the border besides.
LEMMA RollingIsWider ==
    ASSUME NEW side \in Nat \ {0}, NEW p \in Cells(side)
    PROVE  p \in Near(p, side) /\ Near(p, side) \subseteq NearRolled(p, side)
<1>1. p = <<p[1], p[2]>> /\ p[1] \in 0..side - 1 /\ p[2] \in 0..side - 1
  BY DEF Cells
<1>2. Near(p, side) = (Greater(0, p[1] - 1)..Lesser(side - 1, p[1] + 1))
                        \X (Greater(0, p[2] - 1)..Lesser(side - 1, p[2] + 1))
  BY DEF Near, Window
<1>3. ASSUME NEW u \in 0..side - 1, NEW v \in Greater(0, u - 1)..Lesser(side - 1, u + 1)
      PROVE  \E x \in -1..1 : v = (u + x + side) % side
  <2>1. v \in 0..side - 1 /\ v - u \in -1..1 /\ u + (v - u) + side = v + side
    BY <1>3 DEF Greater, Lesser
  <2>2. (v + side) % side = v
    BY <2>1, ModIs
  <2>. QED
    BY <2>1, <2>2
<1>4. p \in Near(p, side)
  <2>1. \A u \in 0..side - 1 : u \in Greater(0, u - 1)..Lesser(side - 1, u + 1)
    BY DEF Greater, Lesser
  <2>. QED
    BY <1>1, <1>2, <2>1
<1>5. ASSUME NEW d \in Near(p, side) PROVE d \in NearRolled(p, side)
  <2>1. /\ d = <<d[1], d[2]>>
        /\ d[1] \in Greater(0, p[1] - 1)..Lesser(side - 1, p[1] + 1)
        /\ d[2] \in Greater(0, p[2] - 1)..Lesser(side - 1, p[2] + 1)
    BY <1>2
  <2>2. PICK x \in -1..1 : d[1] = (p[1] + x + side) % side
    BY <1>1, <1>3, <2>1
  <2>3. PICK y \in -1..1 : d[2] = (p[2] + y + side) % side
    BY <1>1, <1>3, <2>1
  <2>. QED
    BY <2>1, <2>2, <2>3 DEF NearRolled
<1>. QED
  BY <1>4, <1>5

\* What PathsAgree assumes of the image.
Clear ==
    \A b, c \in blobs : b # c =>
      /\ b.score # c.score
      /\ c.cell \notin NearRolled(b.cell, HeadSide(Size)) \ Near(b.cell, HeadSide(Size))

\* In a clear image np.roll and padding find the same peaks.
LEMMA PeaksAgree ==
    ASSUME blobs \in SUBSET Blobs, IsFiniteSet(blobs), Clear
    PROVE  TorchPeaks = NumpyPeaks
<1>. DEFINE side == HeadSide(Size)
            Top3(around, hm, p) == \A d \in around[p] : HeatAt(hm, d) <= hm[p]
<1>1. side \in Nat \ {0}
  <2>1. Size \in Nat \ {0}
    BY InferenceAssumption, DecodeAssumption
  <2>2. side = 8 * ((Size + 31) \div 32)
    BY <2>1, HeadSideIs
  <2>. QED
    BY <2>1, <2>2
<1>. HIDE DEF side
<1>2. ASSUME NEW cls \in DOMAIN Heads.hm, NEW p \in DOMAIN Heads.hm[cls]
      PROVE  Top3(Padded(side), Heads.hm[cls], p) <=> Top3(Rolled(side), Heads.hm[cls], p)
  <2>. DEFINE hm == Heads.hm[cls]
  <2>1. cls \in Classes
    BY HeatIs DEF Heads
  <2>2. \A c \in DOMAIN hm : \E b \in blobs : b.cell = c /\ b.score = hm[c]
    BY <2>1, HeatIs
  <2>3. PICK b \in blobs : b.cell = p /\ b.score = hm[p]
    BY <2>2
  <2>4. p \in Cells(side) /\ hm[p] \in Nat
    BY <2>3, InferenceAssumption, DecodeAssumption DEF side
  <2>5. Padded(side)[p] = Near(p, side) /\ Rolled(side)[p] = NearRolled(p, side)
    BY <2>4 DEF Padded, Rolled
  <2>6. p \in Near(p, side) /\ Near(p, side) \subseteq NearRolled(p, side)
    BY <1>1, <2>4, RollingIsWider
  <2>7. ASSUME NEW d \in NearRolled(p, side) \ Near(p, side) PROVE HeatAt(hm, d) <= hm[p]
    <3>1. d \notin DOMAIN hm
      <4>. SUFFICES ASSUME d \in DOMAIN hm PROVE FALSE
        OBVIOUS
      <4>1. PICK c \in blobs : c.cell = d
        BY <2>2
      <4>2. c # b
        BY <2>3, <2>6, <2>7, <4>1
      <4>. QED
        BY <2>3, <2>7, <4>1, <4>2 DEF Clear, side
    <3>. HIDE DEF hm
    <3>2. HeatAt(hm, d) = 0
      BY <3>1 DEF HeatAt
    <3>. QED
      BY <2>4, <3>2
  <2>. HIDE DEF hm
  <2>. QED
    BY <2>5, <2>6, <2>7 DEF hm
<1>. HIDE DEF Top3
<1>. DEFINE Tops(around, cls) == {p \in DOMAIN Heads.hm[cls] : Heads.hm[cls][p] > 0 /\ Top3(around, Heads.hm[cls], p)}
            RowsOf(cls, cells) == {RowAt(Heads, cls, c) : c \in cells}
<1>3. \A around : PeakRows(Heads, side, around) =
        UNION {RowsOf(cls, Tops(around, cls)) : cls \in DOMAIN Heads.hm}
  BY Zenon DEF PeakRows, Top3
<1>4. \A cls \in DOMAIN Heads.hm : Tops(Padded(side), cls) = Tops(Rolled(side), cls)
  BY <1>2
<1>5. PeakRows(Heads, side, Padded(side)) = PeakRows(Heads, side, Rolled(side))
  <2>. HIDE DEF Tops, RowsOf
  <2>1. \A cls \in DOMAIN Heads.hm : RowsOf(cls, Tops(Padded(side), cls)) = RowsOf(cls, Tops(Rolled(side), cls))
    BY <1>4
  <2>2. {RowsOf(cls, Tops(Padded(side), cls)) : cls \in DOMAIN Heads.hm}
          = {RowsOf(cls, Tops(Rolled(side), cls)) : cls \in DOMAIN Heads.hm}
    BY <2>1
  <2>. QED
    BY <1>3, <2>2
<1>. QED
  BY <1>5 DEF TorchPeaks, NumpyPeaks, side

\* With no two scores equal, the first k rows are those that at most k rows
\* are as good as, in whatever order argsort left the others.
LEMMA FirstAreBest ==
    ASSUME NEW rs, IsFiniteSet(rs), RowsTyped(rs), NEW s \in Rankings(rs), NEW k \in Nat,
           \A q, r \in rs : q.score = r.score => q = r
    PROVE  Range(FirstOf(s, k)) = {r \in rs : Cardinality({q \in rs : q.score >= r.score}) <= k}
<1>. DEFINE n == Len(s)
            f == FirstOf(s, k)
            B(r) == {q \in rs : q.score >= r.score}
<1>1. /\ s \in Seq(rs) /\ Range(s) = rs /\ Sorted(s)
      /\ n \in Nat /\ DOMAIN s = 1..n /\ \A i \in 1..n : s[i] \in rs
  BY RankingIs, LenProperties, ElementOfSeq
<1>2. DOMAIN f = 1..Lesser(k, n) /\ \A j \in 1..Lesser(k, n) : j \in 1..n /\ f[j] = s[j]
  <2>1. DOMAIN f = 1..Lesser(k, n) /\ Len(f) = Lesser(k, n) /\ \A j \in 1..Len(f) : f[j] = s[j]
    BY <1>1, FirstIs DEF n
  <2>. HIDE DEF f, n
  <2>2. \A j \in 1..Lesser(k, n) : j \in 1..n
    BY <1>1 DEF Lesser
  <2>. QED
    BY <2>1, <2>2
<1>3. ASSUME NEW r \in Range(f) PROVE r \in rs /\ Cardinality(B(r)) <= k
  <2>. HIDE DEF f
  <2>1. PICK i \in 1..Lesser(k, n) : r = s[i]
    BY <1>2, <1>3 DEF Range
  <2>2. i \in 1..n /\ i <= k /\ r \in rs
    BY <1>1, <1>2, <2>1 DEF Lesser
  <2>. DEFINE T == {s[j] : j \in 1..i}
              F == [j \in 1..i |-> s[j]]
  <2>3. B(r) \subseteq T
    <3>. SUFFICES ASSUME NEW q \in rs, q.score >= r.score PROVE q \in T
      OBVIOUS
    <3>1. PICK j \in 1..n : q = s[j]
      BY <1>1 DEF Range
    <3>2. CASE j <= i
      BY <2>2, <3>1, <3>2
    <3>3. CASE ~(j <= i)
      <4>1. s[i].score >= s[j].score
        BY <1>1, <2>2, <3>3 DEF Sorted
      <4>2. q.score \in Int /\ r.score \in Int
        BY <2>2 DEF RowsTyped
      <4>3. q.score = r.score
        BY <2>1, <3>1, <4>1, <4>2
      <4>4. q = s[i]
        BY <2>1, <2>2, <4>3
      <4>. QED
        BY <2>2, <4>4
    <3>. QED
      BY <3>2, <3>3
  <2>4. F \in Surjection(1..i, T)
    BY DEF Surjection
  <2>5. IsFiniteSet(1..i) /\ Cardinality(1..i) = i
    BY <2>2, FS_Interval
  <2>. HIDE DEF T, F
  <2>6. IsFiniteSet(T) /\ Cardinality(T) <= i
    BY <2>4, <2>5, FS_Surjection
  <2>. HIDE DEF B
  <2>7. Cardinality(B(r)) <= Cardinality(T) /\ Cardinality(T) \in Nat /\ Cardinality(B(r)) \in Nat
    BY <2>3, <2>6, FS_Subset, FS_CardinalityType
  <2>. QED
    BY <2>2, <2>6, <2>7
<1>4. ASSUME NEW r \in rs, Cardinality(B(r)) <= k PROVE r \in Range(f)
  BY <1>4, BestComeFirst
<1>. HIDE DEF f
<1>. QED
  BY <1>3, <1>4 DEF f

\* The same peaks, the same first k, the same outcome of suppression, in each
\* class; and the threshold before it or after it.
LEMMA PathsLemma ==
    ASSUME Provenance
    PROVE  PathsAgree
<1>. SUFFICES ASSUME Answered("centernet"), Answered("centernet-onnx"), NumClasses = NumShapes, Clear
              PROVE  Range(result["centernet"].detections) = Range(result["centernet-onnx"].detections)
  BY Zenon DEF PathsAgree, Clear
<1>. DEFINE P == TorchPeaks
<1>1. blobs \in SUBSET Blobs /\ IsFiniteSet(blobs)
  BY DEF Provenance
<1>2. NumpyPeaks = P
  BY <1>1, PeaksAgree
<1>3. /\ IsFiniteSet(P) /\ RowsTyped(P)
      /\ \A r \in P : /\ r.cls \in Classes /\ r = RowAt(Heads, r.cls, r.cell)
                      /\ \E b \in blobs : SeenAt(r, b)
  BY <1>1, PeaksAre DEF TorchPeaks
<1>4. \A q, r \in P : q.score = r.score => q = r
  <2>. SUFFICES ASSUME NEW q \in P, NEW r \in P, q.score = r.score PROVE q = r
    OBVIOUS
  <2>1. PICK b \in blobs : SeenAt(q, b)
    BY <1>3
  <2>2. PICK c \in blobs : SeenAt(r, c)
    BY <1>3
  <2>3. b = c
    BY <2>1, <2>2 DEF SeenAt, Clear
  <2>4. q.cls = r.cls /\ q.cell = r.cell
    BY <2>1, <2>2, <2>3 DEF SeenAt
  <2>. QED
    BY <1>3, <2>4
<1>5. PICK s \in Rankings(P) :
          result["centernet"] = ToFrameResult(DecodeTorch(s, TopK, Conf, NmsNum, NmsDen), TorchNames)
  BY TorchIs
<1>6. PICK z \in Rankings(P) :
          result["centernet-onnx"] = ToFrameResult(DecodeNumpy(z, NumClasses, TopK, NmsNum, NmsDen), OnnxNames)
  BY <1>2, NumpyIs
<1>. HIDE DEF P
<1>7. TopK \in Nat /\ Conf \in Int /\ NumClasses \in Nat
  BY InferenceAssumption, DecodeAssumption
<1>. DEFINE U == Range(FirstOf(s, TopK))
            t == DecodeTorch(s, TopK, Conf, NmsNum, NmsDen)
            n == DecodeNumpy(z, NumClasses, TopK, NmsNum, NmsDen)
<1>8. U = Range(FirstOf(z, TopK)) /\ U \subseteq P
  <2>1. U = {r \in P : Cardinality({q \in P : q.score >= r.score}) <= TopK}
    BY <1>3, <1>4, <1>5, <1>7, FirstAreBest
  <2>2. Range(FirstOf(z, TopK)) = {r \in P : Cardinality({q \in P : q.score >= r.score}) <= TopK}
    BY <1>3, <1>4, <1>6, <1>7, FirstAreBest
  <2>. HIDE DEF U
  <2>. QED
    BY <2>1, <2>2
<1>9. /\ t \in Seq(P) /\ Range(t) \subseteq {r \in U : r.score >= Conf}
      /\ \A cls : Greedy(Class(Range(t), cls), Class({r \in U : r.score >= Conf}, cls), NmsNum, NmsDen)
  BY <1>3, <1>7, DecodeTorchIs
<1>10. /\ n \in Seq(P) /\ Range(n) \subseteq Range(FirstOf(z, TopK))
       /\ \A cls \in 0..NumClasses - 1 :
             Greedy(Class(Range(n), cls), Class(Range(FirstOf(z, TopK)), cls), NmsNum, NmsDen)
  BY <1>3, <1>7, DecodeNumpyIs
<1>. HIDE DEF t, n, U
<1>11. ASSUME NEW cls \in Classes
       PROVE  Class(Range(t), cls) = {r \in Class(Range(n), cls) : r.score >= Conf}
  <2>. DEFINE R == Class(U, cls)
              K == Class(Range(n), cls)
              L == Class(Range(t), cls)
  <2>1. R \in SUBSET P
    BY <1>8 DEF Class
  <2>2. Greedy(K, R, NmsNum, NmsDen)
    BY <1>8, <1>10 DEF Classes
  <2>3. Class({r \in U : r.score >= Conf}, cls) = {r \in R : r.score >= Conf}
    BY DEF Class
  <2>4. Greedy(L, {r \in R : r.score >= Conf}, NmsNum, NmsDen)
    BY <1>9, <2>3
  <2>. HIDE DEF R, K, L
  <2>5. L = {r \in K : r.score >= Conf}
    BY <1>3, <1>4, <1>7, <2>1, <2>2, <2>4, GreedyIsUnique
  <2>. QED
    BY <2>5 DEF K, L
<1>12. \A r : r \in Range(t) <=> r \in Range(n) /\ r.score >= Conf
  <2>1. Range(t) \subseteq P /\ Range(n) \subseteq P
    BY <1>8, <1>9, <1>10
  <2>2. \A r : r \in Range(t) <=> r \in P /\ r \in Class(Range(t), r.cls)
    BY <2>1 DEF Class
  <2>3. \A r : r \in Range(n) <=> r \in P /\ r \in Class(Range(n), r.cls)
    BY <2>1 DEF Class
  <2>. QED
    BY <1>3, <1>11, <2>2, <2>3
<1>13. Shown(Range(t)) = Shown(Range(n))
  BY <1>12 DEF Shown
<1>14. TorchNames = OnnxNames
  BY DEF TorchNames, OnnxNames
<1>15. /\ Range(result["centernet"].detections) = {DetectionOf(r, TorchNames) : r \in Shown(Range(t))}
       /\ Range(result["centernet-onnx"].detections) = {DetectionOf(r, OnnxNames) : r \in Shown(Range(n))}
  <2>1. result["centernet"] = ToFrameResult(t, TorchNames) /\ result["centernet-onnx"] = ToFrameResult(n, OnnxNames)
    BY <1>5, <1>6 DEF t, n
  <2>2. Range(ToFrameResult(t, TorchNames).detections) = {DetectionOf(r, TorchNames) : r \in Shown(Range(t))}
    BY <1>9, ShownAre, Zenon
  <2>3. Range(ToFrameResult(n, OnnxNames).detections) = {DetectionOf(r, OnnxNames) : r \in Shown(Range(n))}
    BY <1>10, ShownAre, Zenon
  <2>. QED
    BY <2>1, <2>2, <2>3
<1>. QED
  BY <1>13, <1>14, <1>15

\* The two backends of CenterNet are interchangeable, for any network, image,
\* threshold, number of objects and topk that PathsAgree speaks of.
THEOREM PathsDoAgree == Spec => []PathsAgree
BY ProvenanceHolds, PathsLemma, PTL
-------------------------------------------------------------------------------
\* A radius is a natural number.
LEMMA RadiiAreNat == MaxRadius \in Nat /\ \A r \in 0..MaxRadius : r \in Nat
<1>1. MaxRadius \in Nat
  BY HeatAssumption, Zenon
<1>. QED
  BY <1>1

\* The largest radius that passes RootsAtLeast, or 0.
LEMMA RadiusIs ==
    ASSUME NEW h \in Nat, NEW w \in Nat
    PROVE  Radius(h, w) \in 0..MaxRadius /\ (Radius(h, w) = 0 \/ RootsAtLeast(h, w, Radius(h, w)))
<1>. DEFINE S == {n \in 0..MaxRadius : n = 0 \/ RootsAtLeast(h, w, n)}
<1>1. S \subseteq 0..MaxRadius /\ 0 \in S /\ MaxRadius \in Nat
  BY RadiiAreNat
<1>. HIDE DEF S
<1>2. \E m \in S : \A n \in S : m >= n
  <2>1. IsFiniteSet(S)
    <3>1. IsFiniteSet(0..MaxRadius)
      BY <1>1, FS_Interval
    <3>. QED
      BY <1>1, <3>1, FS_Subset, Zenon
  <2>2. S \in SUBSET Int /\ S # {}
    BY <1>1
  <2>. QED
    BY <2>1, <2>2, HottestIs
<1>3. Radius(h, w) = Max(S)
  BY DEF Radius, S
<1>4. Max(S) \in S
  BY <1>2 DEF Max
<1>. QED
  BY <1>3, <1>4 DEF S

\* What the three quadratics of gaussian_radius say of a radius, in products of
\* lengths; and that the box is more than twice as long as it on either side.
RadiusFits(h, w, r) ==
    /\ 2 * r < h /\ 2 * r < w
    /\ 17 * (r * h) + 17 * (r * w) <= 17 * (r * r) + 3 * (h * w)
    /\ 20 * (r * h) + 20 * (r * w) <= 40 * (r * r) + 3 * (h * w)
    /\ 28 * (r * r) + 14 * (r * h) + 14 * (r * w) <= 3 * (h * w)
    /\ 20 * (r * r) <= 3 * (r * h) /\ 20 * (r * r) <= 3 * (r * w)

\* RootsAtLeast says so of every radius it lets pass.
LEMMA RootsFit ==
    ASSUME NEW h \in Nat \ {0}, NEW w \in Nat \ {0}, NEW n \in Nat \ {0}, RootsAtLeast(h, w, n)
    PROVE  RadiusFits(h, w, Cell * n)
<1>. DEFINE r == Cell * n
<1>1. r = 8 * n /\ r \in Nat \ {0}
  BY DEF Cell
<1>2. /\ r * h = 8 * (n * h) /\ r * w = 8 * (n * w) /\ r * r = 64 * (n * n)
      /\ n * h \in Nat /\ n * w \in Nat /\ n * n \in Nat /\ h * w \in Nat
  BY <1>1
<1>3. /\ 32 * n <= h + w
      /\ 1088 * (n * n) - 136 * (n * h + n * w) + 3 * (h * w) >= 0
      /\ 2560 * (n * n) - 160 * (n * h + n * w) + 3 * (h * w) >= 0
      /\ 1792 * (n * n) + 112 * (n * h + n * w) <= 3 * (h * w)
  <2>1. /\ 1088 * n * n = 1088 * (n * n) /\ 136 * n * (h + w) = 136 * (n * h + n * w)
        /\ 2560 * n * n = 2560 * (n * n) /\ 160 * n * (h + w) = 160 * (n * h + n * w)
        /\ 1792 * n * n = 1792 * (n * n) /\ 112 * n * (h + w) = 112 * (n * h + n * w)
        /\ 3 * h * w = 3 * (h * w)
    OBVIOUS
  <2>. QED
    BY <2>1 DEF RootsAtLeast
<1>4. /\ 4 * r <= h + w
      /\ 17 * (r * h) + 17 * (r * w) <= 17 * (r * r) + 3 * (h * w)
      /\ 20 * (r * h) + 20 * (r * w) <= 40 * (r * r) + 3 * (h * w)
      /\ 28 * (r * r) + 14 * (r * h) + 14 * (r * w) <= 3 * (h * w)
  BY <1>1, <1>2, <1>3
<1>. HIDE DEF r
<1>5. r * h \in Nat /\ r * w \in Nat /\ r * r \in Nat /\ h * w \in Nat \ {0}
  BY <1>1
<1>6. 2 * r < h /\ 2 * r < w
  <2>. DEFINE a == h - 2 * r
              b == w - 2 * r
  <2>1. a * b = h * w - 2 * (r * h) - 2 * (r * w) + 4 * (r * r) /\ a \in Int /\ b \in Int /\ a + b >= 0
    BY <1>1, <1>4
  <2>2. a * b > 0
    BY <1>4, <1>5, <2>1
  <2>. HIDE DEF a, b
  <2>3. a > 0 /\ b > 0
    <3>1. CASE a <= 0
      <4>1. 0 <= -a /\ 0 <= b /\ (-a) * b = -(a * b)
        BY <2>1, <3>1
      <4>2. (-a) * b >= 0
        BY <2>1, <4>1
      <4>. QED
        BY <2>1, <2>2, <4>1, <4>2
    <3>2. CASE b <= 0
      <4>1. 0 <= -b /\ 0 <= a /\ (-b) * a = -(a * b)
        BY <2>1, <3>2
      <4>2. (-b) * a >= 0
        BY <2>1, <4>1
      <4>. QED
        BY <2>1, <2>2, <4>1, <4>2
    <3>. QED
      BY <2>1, <3>1, <3>2
  <2>. QED
    BY <1>1, <2>3 DEF a, b
<1>7. ASSUME NEW u \in Nat \ {0}, NEW v \in Nat \ {0}, 2 * r < u, 2 * r < v,
             20 * (r * u) + 20 * (r * v) <= 40 * (r * r) + 3 * (u * v)
      PROVE  20 * (r * r) <= 3 * (r * u)
  <2>1. r * u \in Nat /\ r * v \in Nat /\ r * r \in Nat /\ u * v \in Nat
    BY <1>1
  <2>2. r * (2 * r) <= r * u /\ r * (2 * r) = 2 * (r * r)
    BY <1>1, <1>7, TimesIsMonotone
  <2>3. 20 * (r * v) <= 3 * (u * v)
    BY <1>7, <2>1, <2>2
  <2>4. v * (20 * r) <= v * (3 * u)
    <3>1. v * (20 * r) = 20 * (r * v) /\ v * (3 * u) = 3 * (u * v)
      BY <1>1
    <3>. QED
      BY <2>3, <3>1
  <2>5. 20 * r <= 3 * u
    <3>. SUFFICES ASSUME 3 * u < 20 * r PROVE FALSE
      BY <1>1
    <3>1. 3 * u + 1 <= 20 * r /\ 20 * r \in Int /\ 3 * u + 1 \in Int
      BY <1>1
    <3>2. v * (3 * u + 1) <= v * (20 * r) /\ v * (3 * u + 1) = v * (3 * u) + v
      BY <3>1, TimesIsMonotone
    <3>3. v * (3 * u) \in Int /\ v * (20 * r) \in Int
      BY <1>1
    <3>. QED
      BY <2>4, <3>2, <3>3
  <2>6. r * (20 * r) <= r * (3 * u) /\ r * (20 * r) = 20 * (r * r) /\ r * (3 * u) = 3 * (r * u)
    BY <1>1, <2>5, TimesIsMonotone
  <2>. QED
    BY <2>6
<1>8. 20 * (r * r) <= 3 * (r * h)
  BY <1>4, <1>6, <1>7
<1>9. 20 * (r * r) <= 3 * (r * w)
  <2>1. w * h = h * w
    OBVIOUS
  <2>. QED
    BY <1>4, <1>5, <1>6, <1>7, <2>1
<1>. QED
  BY <1>4, <1>6, <1>8, <1>9 DEF RadiusFits, r

\* Of a side s of which the ends move by r or not at all: how much of it stays,
\* and how long it is then at most.
Stays(s, r, i, c) ==
    \/ i = s /\ c <= s + 2 * r
    \/ i = s - r /\ c <= s
    \/ i = s - 2 * r /\ c <= s - 2 * r

\* The overlap is at least 0.7, whichever sides move.
LEMMA OverlapStays ==
    ASSUME NEW h \in Nat \ {0}, NEW w \in Nat \ {0}, NEW r \in Nat \ {0}, RadiusFits(h, w, r),
           NEW i \in Int, NEW c \in Nat, Stays(w, r, i, c),
           NEW j \in Int, NEW d \in Nat, Stays(h, r, j, d)
    PROVE  i > 0 /\ j > 0 /\ 17 * (i * j) >= 7 * (w * h + c * d)
<1>1. /\ 2 * r < h /\ 2 * r < w
      /\ r * h \in Nat /\ r * w \in Nat /\ r * r \in Nat /\ w * h \in Nat
      /\ 17 * (r * h) + 17 * (r * w) <= 17 * (r * r) + 3 * (w * h)
      /\ 20 * (r * h) + 20 * (r * w) <= 40 * (r * r) + 3 * (w * h)
      /\ 28 * (r * r) + 14 * (r * h) + 14 * (r * w) <= 3 * (w * h)
      /\ 20 * (r * r) <= 3 * (r * h) /\ 20 * (r * r) <= 3 * (r * w)
  <2>1. h * w = w * h
    OBVIOUS
  <2>. QED
    BY <2>1 DEF RadiusFits
<1>2. i > 0 /\ j > 0
  BY <1>1 DEF Stays
<1>3. ASSUME NEW e \in Nat, NEW f \in Nat, c <= e, d <= f PROVE c * d <= e * f
  BY <1>3, ProductsGrow
<1>4. c * d \in Nat /\ i * j \in Nat
  BY <1>2
<1>. DEFINE X == w * h
            Y == r * h
            Z == r * w
            Q == r * r
<1>5. /\ w * h = X /\ w * (h - r) = X - Z /\ w * (h - 2 * r) = X - 2 * Z
      /\ (w - r) * h = X - Y /\ (w - r) * (h - r) = X - Y - Z + Q
      /\ (w - r) * (h - 2 * r) = X - Y - 2 * Z + 2 * Q
      /\ (w - 2 * r) * h = X - 2 * Y /\ (w - 2 * r) * (h - r) = X - 2 * Y - Z + 2 * Q
      /\ (w - 2 * r) * (h - 2 * r) = X - 2 * Y - 2 * Z + 4 * Q
  OBVIOUS
<1>6. /\ (w + 2 * r) * (h + 2 * r) = X + 2 * Y + 2 * Z + 4 * Q
      /\ (w + 2 * r) * h = X + 2 * Y /\ w * (h + 2 * r) = X + 2 * Z
      /\ (w + 2 * r) * (h - 2 * r) = X + 2 * Y - 2 * Z - 4 * Q
      /\ (w - 2 * r) * (h + 2 * r) = X - 2 * Y + 2 * Z - 4 * Q
  OBVIOUS
<1>. HIDE DEF X, Y, Z, Q
<1>7. ASSUME NEW a \in {0, 1, 2}, NEW b \in {0, 1, 2},
             i = w - a * r, j = h - b * r,
             NEW e \in Nat, NEW f \in Nat, c <= e, d <= f,
             e = IF a = 0 THEN w + 2 * r ELSE IF a = 1 THEN w ELSE w - 2 * r,
             f = IF b = 0 THEN h + 2 * r ELSE IF b = 1 THEN h ELSE h - 2 * r
      PROVE  17 * (i * j) >= 7 * (w * h + c * d)
  <2>1. c * d <= e * f /\ e * f \in Nat
    BY <1>3, <1>7
  <2>2. X \in Nat /\ Y \in Nat /\ Z \in Nat /\ Q \in Nat
    BY DEF X, Y, Z, Q
  <2>3. /\ 17 * Y + 17 * Z <= 17 * Q + 3 * X
        /\ 20 * Y + 20 * Z <= 40 * Q + 3 * X
        /\ 28 * Q + 14 * Y + 14 * Z <= 3 * X
        /\ 20 * Q <= 3 * Y /\ 20 * Q <= 3 * Z
    BY <1>1 DEF X, Y, Z, Q
  <2>4. 0 * r = 0 /\ 1 * r = r
    OBVIOUS
  <2>5. i * j = X - b * Z - a * Y + (a * b) * Q
    <3>1. CASE a = 0
      BY <1>5, <1>7, <2>2, <2>4, <3>1
    <3>2. CASE a = 1
      BY <1>5, <1>7, <2>2, <2>4, <3>2
    <3>3. CASE a = 2
      BY <1>5, <1>7, <2>2, <2>4, <3>3
    <3>. QED
      BY <3>1, <3>2, <3>3
  <2>6. e * f =
          IF a = 0 THEN IF b = 0 THEN X + 2 * Y + 2 * Z + 4 * Q
                        ELSE IF b = 1 THEN X + 2 * Y ELSE X + 2 * Y - 2 * Z - 4 * Q
          ELSE IF a = 1 THEN IF b = 0 THEN X + 2 * Z ELSE IF b = 1 THEN X ELSE X - 2 * Z
          ELSE IF b = 0 THEN X - 2 * Y + 2 * Z - 4 * Q
               ELSE IF b = 1 THEN X - 2 * Y ELSE X - 2 * Y - 2 * Z + 4 * Q
    <3>1. CASE a = 0
      BY <1>5, <1>6, <1>7, <3>1
    <3>2. CASE a = 1
      BY <1>5, <1>6, <1>7, <3>2
    <3>3. CASE a = 2
      BY <1>5, <1>6, <1>7, <3>3
    <3>. QED
      BY <3>1, <3>2, <3>3
  <2>7. w * h = X
    BY DEF X
  <2>. DEFINE ij == i * j
              ef == e * f
              cd == c * d
  <2>8. ij \in Int /\ ef \in Int /\ cd \in Int /\ cd <= ef
    BY <2>1, <1>4
  <2>. HIDE DEF ij, ef, cd
  <2>9. CASE a = 0 /\ b = 0
    <3>1. ij = X /\ ef = X + 2 * Y + 2 * Z + 4 * Q
      BY <2>2, <2>5, <2>6, <2>9 DEF ij, ef
    <3>. QED
      BY <2>2, <2>3, <2>7, <2>8, <3>1 DEF ij, cd
  <2>10. CASE a = 0 /\ b = 1
    <3>1. ij = X - Z /\ ef = X + 2 * Y
      BY <2>2, <2>5, <2>6, <2>10 DEF ij, ef
    <3>. QED
      BY <2>2, <2>3, <2>7, <2>8, <3>1 DEF ij, cd
  <2>11. CASE a = 0 /\ b = 2
    <3>1. ij = X - 2 * Z /\ ef = X + 2 * Y - 2 * Z - 4 * Q
      BY <2>2, <2>5, <2>6, <2>11 DEF ij, ef
    <3>. QED
      BY <2>2, <2>3, <2>7, <2>8, <3>1 DEF ij, cd
  <2>12. CASE a = 1 /\ b = 0
    <3>1. ij = X - Y /\ ef = X + 2 * Z
      BY <2>2, <2>5, <2>6, <2>12 DEF ij, ef
    <3>. QED
      BY <2>2, <2>3, <2>7, <2>8, <3>1 DEF ij, cd
  <2>13. CASE a = 1 /\ b = 1
    <3>1. ij = X - Y - Z + Q /\ ef = X
      BY <2>2, <2>5, <2>6, <2>13 DEF ij, ef
    <3>. QED
      BY <2>2, <2>3, <2>7, <2>8, <3>1 DEF ij, cd
  <2>14. CASE a = 1 /\ b = 2
    <3>1. ij = X - Y - 2 * Z + 2 * Q /\ ef = X - 2 * Z
      BY <2>2, <2>5, <2>6, <2>14 DEF ij, ef
    <3>. QED
      BY <2>2, <2>3, <2>7, <2>8, <3>1 DEF ij, cd
  <2>15. CASE a = 2 /\ b = 0
    <3>1. ij = X - 2 * Y /\ ef = X - 2 * Y + 2 * Z - 4 * Q
      BY <2>2, <2>5, <2>6, <2>15 DEF ij, ef
    <3>. QED
      BY <2>2, <2>3, <2>7, <2>8, <3>1 DEF ij, cd
  <2>16. CASE a = 2 /\ b = 1
    <3>1. ij = X - 2 * Y - Z + 2 * Q /\ ef = X - 2 * Y
      BY <2>2, <2>5, <2>6, <2>16 DEF ij, ef
    <3>. QED
      BY <2>2, <2>3, <2>7, <2>8, <3>1 DEF ij, cd
  <2>17. CASE a = 2 /\ b = 2
    <3>1. ij = X - 2 * Y - 2 * Z + 4 * Q /\ ef = X - 2 * Y - 2 * Z + 4 * Q
      BY <2>2, <2>5, <2>6, <2>17 DEF ij, ef
    <3>. QED
      BY <2>2, <2>3, <2>7, <2>8, <3>1 DEF ij, cd
  <2>. QED
    BY <2>9, <2>10, <2>11, <2>12, <2>13, <2>14, <2>15, <2>16, <2>17
<1>8. \E a \in {0, 1, 2}, e \in Nat :
        /\ i = w - a * r /\ c <= e
        /\ e = IF a = 0 THEN w + 2 * r ELSE IF a = 1 THEN w ELSE w - 2 * r
  <2>1. CASE i = w /\ c <= w + 2 * r
    <3>1. i = w - 0 * r /\ w + 2 * r \in Nat
      BY <2>1
    <3>. QED
      BY <2>1, <3>1
  <2>2. CASE i = w - r /\ c <= w
    <3>1. i = w - 1 * r
      BY <2>2
    <3>. QED
      BY <2>2, <3>1
  <2>3. CASE i = w - 2 * r /\ c <= w - 2 * r
    <3>1. w - 2 * r \in Nat
      BY <1>1
    <3>. QED
      BY <2>3, <3>1
  <2>. QED
    BY <2>1, <2>2, <2>3 DEF Stays
<1>9. \E b \in {0, 1, 2}, f \in Nat :
        /\ j = h - b * r /\ d <= f
        /\ f = IF b = 0 THEN h + 2 * r ELSE IF b = 1 THEN h ELSE h - 2 * r
  <2>1. CASE j = h /\ d <= h + 2 * r
    <3>1. j = h - 0 * r /\ h + 2 * r \in Nat
      BY <2>1
    <3>. QED
      BY <2>1, <3>1
  <2>2. CASE j = h - r /\ d <= h
    <3>1. j = h - 1 * r
      BY <2>2
    <3>. QED
      BY <2>2, <3>1
  <2>3. CASE j = h - 2 * r /\ d <= h - 2 * r
    <3>1. h - 2 * r \in Nat
      BY <1>1
    <3>. QED
      BY <2>3, <3>1
  <2>. QED
    BY <2>1, <2>2, <2>3 DEF Stays
<1>10. PICK a \in {0, 1, 2}, e \in Nat :
        /\ i = w - a * r /\ c <= e
        /\ e = IF a = 0 THEN w + 2 * r ELSE IF a = 1 THEN w ELSE w - 2 * r
  BY <1>8
<1>11. PICK b \in {0, 1, 2}, f \in Nat :
        /\ j = h - b * r /\ d <= f
        /\ f = IF b = 0 THEN h + 2 * r ELSE IF b = 1 THEN h ELSE h - 2 * r
  BY <1>9
<1>. QED
  BY <1>2, <1>7, <1>10, <1>11

\* gaussian_radius, for boxes of any size: each radius the quadratics let pass
\* keeps 0.7 of overlap, whichever of the four sides move by it and whereto.
THEOREM RadiusIsSafe ==
    ASSUME NEW h \in Nat \ {0}, NEW w \in Nat \ {0}, NEW n \in Nat \ {0}, RootsAtLeast(h, w, n)
    PROVE  \A dx1, dy1, dx2, dy2 \in {-(Cell * n), 0, Cell * n} :
              IouAtLeast(Box(0, 0, w, h), Box(dx1, dy1, w + dx2, h + dy2), OverlapNum, OverlapDen)
<1>. DEFINE r == Cell * n
<1>1. r \in Nat \ {0} /\ RadiusFits(h, w, r)
  BY RootsFit DEF Cell
<1>. HIDE DEF r
<1>. SUFFICES ASSUME NEW dx1 \in {-r, 0, r}, NEW dy1 \in {-r, 0, r}, NEW dx2 \in {-r, 0, r}, NEW dy2 \in {-r, 0, r}
              PROVE  IouAtLeast(Box(0, 0, w, h), Box(dx1, dy1, w + dx2, h + dy2), OverlapNum, OverlapDen)
  BY DEF r
<1>. DEFINE i == Greater(0, Lesser(w, w + dx2) - Greater(0, dx1))
            j == Greater(0, Lesser(h, h + dy2) - Greater(0, dy1))
            c == Greater(0, (w + dx2) - dx1)
            d == Greater(0, (h + dy2) - dy1)
<1>2. 2 * r < h /\ 2 * r < w
  BY <1>1 DEF RadiusFits
<1>3. i \in Int /\ c \in Nat /\ Stays(w, r, i, c)
  BY <1>1, <1>2 DEF Stays, Greater, Lesser
<1>4. j \in Int /\ d \in Nat /\ Stays(h, r, j, d)
  BY <1>1, <1>2 DEF Stays, Greater, Lesser
<1>5. i > 0 /\ j > 0 /\ 17 * (i * j) >= 7 * (w * h + c * d)
  <2>. HIDE DEF i, j, c, d
  <2>. QED
    BY <1>1, <1>3, <1>4, OverlapStays
<1>6. /\ Intersection(Box(0, 0, w, h), Box(dx1, dy1, w + dx2, h + dy2)) = i * j
      /\ Area(Box(dx1, dy1, w + dx2, h + dy2)) = c * d
  BY DEF Intersection, Area, Box
<1>7. Area(Box(0, 0, w, h)) = w * h
  BY DEF Area, Box, Greater
<1>. HIDE DEF i, j, c, d
<1>8. Union(Box(0, 0, w, h), Box(dx1, dy1, w + dx2, h + dy2)) = w * h + c * d - i * j
  BY <1>6, <1>7 DEF Union
<1>9. i * j > 0 /\ i * j \in Int /\ w * h \in Int /\ c * d \in Int
  BY <1>3, <1>4, <1>5
<1>10. 10 * (i * j) >= 7 * (w * h + c * d - i * j)
  BY <1>5, <1>9
<1>. QED
  BY <1>6, <1>8, <1>9, <1>10 DEF IouAtLeast, OverlapNum, OverlapDen

\* A heatmap: numbers for some of the cells.
HeatMaps(side) == UNION {[D -> Int] : D \in SUBSET Cells(side)}

\* draw_gaussian makes a heatmap of a heatmap.
LEMMA DrawGaussianIs ==
    ASSUME NEW side \in Nat \ {0}, NEW heat \in HeatMaps(side), NEW c \in Cells(side), NEW r \in 0..MaxRadius
    PROVE  DrawGaussian(heat, c, r, side) \in HeatMaps(side)
<1>. DEFINE W == Window(c, r, side)
            D == DOMAIN heat
            value(x) == IF x \in W THEN Greater(HeatAt(heat, x), Splat(c, r, x)) ELSE heat[x]
<1>1. c[1] \in 0..side - 1 /\ c[2] \in 0..side - 1 /\ r \in Nat
  BY HeatAssumption DEF Cells
<1>2. W \subseteq Cells(side)
  BY <1>1 DEF Window, Cells, Greater, Lesser
<1>3. D \subseteq Cells(side) /\ \A x \in D : heat[x] \in Int
  BY DEF HeatMaps
<1>4. ASSUME NEW x \in Cells(side) PROVE HeatAt(heat, x) \in Int
  BY <1>3 DEF HeatAt
<1>5. ASSUME NEW x \in Cells(side) PROVE Splat(c, r, x) \in Int
  <2>1. x[1] \in Int /\ x[2] \in Int
    BY DEF Cells
  <2>2. Apart(c, x) \in Int
    BY <1>1, <2>1 DEF Apart
  <2>3. Spread \div ((2 * r + 1) * (2 * r + 1)) \in Int /\ Top \in Int
    BY HeatAssumption
  <2>. QED
    BY <2>2, <2>3 DEF Splat
<1>6. \A x \in W \cup D : value(x) \in Int
  BY <1>2, <1>3, <1>4, <1>5 DEF Greater
<1>7. DrawGaussian(heat, c, r, side) = [x \in W \cup D |-> value(x)]
  BY Zenon DEF DrawGaussian
<1>. HIDE DEF W, D, value
<1>8. DrawGaussian(heat, c, r, side) \in [W \cup D -> Int]
  BY <1>6, <1>7
<1>. QED
  BY <1>2, <1>3, <1>8 DEF HeatMaps

\* What build_targets stores for an object: a size above 0, an offset, a cell.
SlotState(side) ==
    [ind : Cells(side), wh : (Nat \ {0}) \X (Nat \ {0}), offset : Int \X Int]

\* The box that is encoded, when it has area, and its center.
LEMMA OutputBoxIs ==
    ASSUME NEW b \in BoxState, NEW side \in Nat \ {0}, HasArea(OutputBox(b, side))
    PROVE  LET x == OutputBox(b, side)
           IN  /\ x \in BoxState /\ x.x2 - x.x1 \in Nat \ {0} /\ x.y2 - x.y1 \in Nat \ {0}
               /\ CenterCell(x, side) \in Cells(side)
               /\ Slot(x, side) \in SlotState(side)
<1>. DEFINE x == OutputBox(b, side)
            l == Cell * (side - 1)
<1>1. l \in Nat
  BY DEF Cell
<1>2. 2 * b.x1 \in Int /\ 2 * b.y1 \in Int /\ 2 * b.x2 \in Int /\ 2 * b.y2 \in Int
  BY DEF BoxState
<1>3. x = Box(Clamp(2 * b.x1, 0, l), Clamp(2 * b.y1, 0, l), Clamp(2 * b.x2, 0, l), Clamp(2 * b.y2, 0, l))
  BY DEF OutputBox, ClipBox, Scaled, Box
<1>. HIDE DEF l
<1>4. x.x1 \in 0..l /\ x.y1 \in 0..l /\ x.x2 \in 0..l /\ x.y2 \in 0..l /\ x \in BoxState
  <2>1. \A v \in Int : Clamp(v, 0, l) \in 0..l
    BY <1>1, ClampIs
  <2>. QED
    BY <1>1, <1>2, <1>3, <2>1 DEF Box, BoxState
<1>. HIDE DEF x
<1>5. x.x1 < x.x2 /\ x.y1 < x.y2
  BY DEF HasArea, x
<1>6. Middle(x)[1] \in Nat /\ Middle(x)[2] \in Nat
  BY <1>1, <1>4 DEF Middle
<1>7. \A m \in Nat : Lesser(m \div Cell, side - 1) \in 0..side - 1
  BY DEF Cell, Lesser
<1>8. CenterCell(x, side) \in Cells(side)
  BY <1>6, <1>7 DEF CenterCell, Cells
<1>9. Slot(x, side) \in SlotState(side)
  <2>. DEFINE c == CenterCell(x, side)
  <2>1. c[1] \in Int /\ c[2] \in Int
    BY <1>8 DEF Cells
  <2>. HIDE DEF c
  <2>2. <<Middle(x)[1] - Cell * c[1], Middle(x)[2] - Cell * c[2]>> \in Int \X Int
    BY <1>6, <2>1 DEF Cell
  <2>3. <<x.x2 - x.x1, x.y2 - x.y1>> \in (Nat \ {0}) \X (Nat \ {0})
    BY <1>1, <1>4, <1>5
  <2>. QED
    BY <1>8, <2>2, <2>3 DEF Slot, SlotState, c
<1>. QED
  BY <1>4, <1>5, <1>8, <1>9 DEF x

\* How far the splat of a stored object reaches.
Reach(s) == Radius(s.wh[2], s.wh[1])

\* The cells it covers.
Covered(s, side) == Window(s.ind, Reach(s), side)

\* Its heat there.
HeatOf(s, x) == Splat(s.ind, Reach(s), x)

\* A heatmap shows the objects in some slots: its heat is that of one of them
\* wherever there is any, and nowhere below that of another.
Shows(heat, S, slot, side) ==
    /\ heat \in HeatMaps(side)
    /\ \A x \in DOMAIN heat : \E k \in S : x \in Covered(slot[k], side) /\ heat[x] = HeatOf(slot[k], x)
    /\ \A k \in S : \A x \in Covered(slot[k], side) : x \in DOMAIN heat /\ heat[x] >= HeatOf(slot[k], x)

\* What a splat heats a cell by.
Heats == {v \in Int : v > 0 /\ v <= Top}

\* The square of a number between -r and r.
LEMMA SquareIsBounded ==
    ASSUME NEW r \in Nat, NEW d \in -r..r
    PROVE  d * d \in 0..r * r /\ (d * d = 0 <=> d = 0)
<1>1. r - d \in Nat /\ r + d \in Nat /\ r * r \in Nat
  OBVIOUS
<1>2. (r - d) * (r + d) \in Nat /\ (r - d) * (r + d) = r * r - d * d
  BY <1>1
<1>3. CASE d >= 0
  <2>1. d \in Nat /\ d * d \in Nat
    BY <1>3
  <2>. QED
    BY <1>1, <1>2, <2>1, NoZeroFactor
<1>4. CASE d < 0
  <2>1. -d \in Nat \ {0} /\ d * d = (-d) * (-d)
    BY <1>4
  <2>2. (-d) * (-d) \in Nat
    BY <2>1
  <2>. QED
    BY <1>1, <1>2, <2>1, <2>2, NoZeroFactor
<1>. QED
  BY <1>3, <1>4

\* A splat is hottest in its center, where it is Top, and falls off: any other
\* cell it reaches has a neighbour that it reaches, and heats more.
LEMMA SplatFalls ==
    ASSUME NEW side \in Nat \ {0}, NEW c \in Cells(side), NEW r \in 0..MaxRadius, NEW x \in Window(c, r, side)
    PROVE  /\ x \in Cells(side) /\ Splat(c, r, x) \in Int /\ Splat(c, r, x) > 0
           /\ c \in Window(c, r, side)
           /\ Splat(c, r, x) = Top <=> x = c
           /\ Splat(c, r, x) <= Top
           /\ x # c => \E y \in Near(x, side) : y \in Window(c, r, side) /\ Splat(c, r, y) > Splat(c, r, x)
<1>. DEFINE q == Spread \div ((2 * r + 1) * (2 * r + 1))
            dx == c[1] - x[1]
            dy == c[2] - x[2]
<1>1. c[1] \in 0..side - 1 /\ c[2] \in 0..side - 1 /\ r \in Nat /\ c = <<c[1], c[2]>>
  BY HeatAssumption DEF Cells
<1>2. /\ x[1] \in 0..side - 1 /\ x[2] \in 0..side - 1 /\ x = <<x[1], x[2]>>
      /\ dx \in -r..r /\ dy \in -r..r
  BY <1>1 DEF Window, Greater, Lesser
<1>3. q \in Nat \ {0} /\ Top \in Nat /\ 2 * r * r * q < Top
  BY HeatAssumption
<1>. HIDE DEF q
<1>4. x = c <=> dx = 0 /\ dy = 0
  <2>1. dx = 0 /\ dy = 0 => x[1] = c[1] /\ x[2] = c[2]
    BY <1>1, <1>2
  <2>2. x = c => dx = 0 /\ dy = 0
    BY <1>1
  <2>. QED
    BY <1>1, <1>2, <2>1, <2>2, Zenon
<1>5. \A y : Splat(c, r, y) = Top - ((c[1] - y[1]) * (c[1] - y[1]) + (c[2] - y[2]) * (c[2] - y[2])) * q
  BY DEF Splat, Apart, q
<1>6. Splat(c, r, x) = Top - (dx * dx + dy * dy) * q
  BY <1>5
<1>7. dx * dx \in 0..r * r /\ dy * dy \in 0..r * r /\ (dx * dx = 0 <=> dx = 0) /\ (dy * dy = 0 <=> dy = 0)
  BY <1>1, <1>2, SquareIsBounded
<1>8. c \in Window(c, r, side)
  BY <1>1 DEF Window, Greater, Lesser
<1>9. /\ Splat(c, r, x) \in Int /\ Splat(c, r, x) > 0 /\ Splat(c, r, x) <= Top
      /\ Splat(c, r, x) = Top <=> x = c
  <2>. DEFINE a == dx * dx
              b == dy * dy
  <2>1. a \in 0..r * r /\ b \in 0..r * r /\ (x = c <=> a = 0 /\ b = 0)
    BY <1>4, <1>7
  <2>2. Splat(c, r, x) = Top - (a + b) * q
    BY <1>6
  <2>3. /\ (a + b) * q \in Nat /\ (a + b) * q < Top
        /\ (a + b) * q = 0 <=> a = 0 /\ b = 0
    <3>1. r * r \in Nat /\ a + b \in Nat /\ a + b <= 2 * (r * r) /\ (a + b = 0 <=> a = 0 /\ b = 0)
      <4>1. r * r \in Nat
        BY <1>1, ProductsGrow
      <4>. HIDE DEF a, b
      <4>. QED
        BY <2>1, <4>1
    <3>2. (a + b) * q \in Nat /\ (a + b) * q <= (2 * (r * r)) * q
      BY <1>3, <3>1, ProductsGrow
    <3>3. (2 * (r * r)) * q = 2 * r * r * q
      BY <1>1, <1>3
    <3>4. (a + b) * q = 0 <=> a + b = 0
      BY <1>3, <3>1, NoZeroFactor
    <3>. HIDE DEF a, b
    <3>5. 2 * r * r * q \in Int
      BY <1>1, <1>3
    <3>. QED
      BY <1>3, <3>1, <3>2, <3>3, <3>4, <3>5
  <2>. HIDE DEF a, b
  <2>. QED
    BY <1>3, <2>1, <2>2, <2>3
<1>10. ASSUME x # c PROVE \E y \in Near(x, side) : y \in Window(c, r, side) /\ Splat(c, r, y) > Splat(c, r, x)
  <2>. DEFINE step(d) == IF d > 0 THEN 1 ELSE IF d < 0 THEN -1 ELSE 0
              y == <<x[1] + step(dx), x[2] + step(dy)>>
  <2>1. y[1] = x[1] + step(dx) /\ y[2] = x[2] + step(dy)
    OBVIOUS
  <2>2. /\ c[1] - y[1] = dx - step(dx) /\ c[2] - y[2] = dy - step(dy)
        /\ y[1] \in 0..side - 1 /\ y[2] \in 0..side - 1
        /\ y[1] - x[1] \in -1..1 /\ y[2] - x[2] \in -1..1
        /\ c[1] - y[1] \in -r..r /\ c[2] - y[2] \in -r..r
    <3>1. ASSUME NEW u \in 0..side - 1, NEW v \in 0..side - 1, u - v \in -r..r
          PROVE  /\ u - (v + step(u - v)) = (u - v) - step(u - v)
                 /\ v + step(u - v) \in 0..side - 1
                 /\ (v + step(u - v)) - v \in -1..1
                 /\ u - (v + step(u - v)) \in -r..r
      BY <1>1, <3>1
    <3>2. c[1] - x[1] = dx /\ c[2] - x[2] = dy
      OBVIOUS
    <3>. HIDE DEF y, step
    <3>. QED
      BY <1>1, <1>2, <2>1, <3>1, <3>2
  <2>3. y \in Near(x, side) /\ y \in Window(c, r, side)
    BY <1>1, <1>2, <2>2 DEF Near, Window, Greater, Lesser
  <2>4. ASSUME NEW d \in -r..r
        PROVE  /\ (d - step(d)) * (d - step(d)) \in Int /\ d * d \in Int
               /\ (d - step(d)) * (d - step(d)) <= d * d
               /\ d # 0 => (d - step(d)) * (d - step(d)) < d * d
    <3>1. CASE d > 0
      BY <1>1, <3>1
    <3>2. CASE d < 0
      BY <1>1, <3>2
    <3>3. CASE d = 0
      BY <3>3
    <3>. QED
      BY <1>1, <3>1, <3>2, <3>3
  <2>5. dx # 0 \/ dy # 0
    BY <1>4, <1>10
  <2>. DEFINE a == (dx - step(dx)) * (dx - step(dx))
              b == (dy - step(dy)) * (dy - step(dy))
              e == dx * dx
              f == dy * dy
  <2>6. a \in Int /\ b \in Int /\ e \in Int /\ f \in Int /\ a + b < e + f
    <3>1. a \in Int /\ e \in Int /\ a <= e /\ (dx # 0 => a < e)
      BY <1>2, <2>4
    <3>2. b \in Int /\ f \in Int /\ b <= f /\ (dy # 0 => b < f)
      BY <1>2, <2>4
    <3>. HIDE DEF a, b, e, f, dx, dy
    <3>. QED
      BY <2>5, <3>1, <3>2
  <2>7. Splat(c, r, y) = Top - (a + b) * q /\ Splat(c, r, x) = Top - (e + f) * q
    <3>1. Splat(c, r, y) = Top - ((c[1] - y[1]) * (c[1] - y[1]) + (c[2] - y[2]) * (c[2] - y[2])) * q
      BY <1>5
    <3>. HIDE DEF y, step
    <3>. QED
      BY <1>6, <2>2, <3>1
  <2>. HIDE DEF a, b, e, f, y
  <2>8. Splat(c, r, y) > Splat(c, r, x)
    <3>1. \A u, v, t \in Int : u = v + t => u * q = v * q + t * q
      BY <1>3
    <3>2. e + f = (a + b) + ((e + f) - (a + b)) /\ (e + f) - (a + b) \in Nat \ {0}
      BY <2>6
    <3>3. (e + f) * q = (a + b) * q + ((e + f) - (a + b)) * q
      BY <2>6, <3>1, <3>2
    <3>4. ((e + f) - (a + b)) * q \in Nat \ {0}
      BY <1>3, <3>2, ProductsGrow, NoZeroFactor
    <3>5. (a + b) * q \in Int /\ (e + f) * q \in Int
      BY <1>3, <2>6
    <3>. QED
      BY <1>3, <2>7, <3>3, <3>4, <3>5
  <2>. QED
    BY <2>3, <2>8
<1>11. x \in Cells(side)
  BY <1>2 DEF Cells
<1>. QED
  BY <1>8, <1>9, <1>10, <1>11

\* So in a heatmap that shows some objects the cells at Top are their centers,
\* and so are the cells that no neighbour exceeds, and nothing is above Top.
LEMMA PeaksOf ==
    ASSUME NEW side \in Nat \ {0}, NEW heat, NEW S, NEW slot, Shows(heat, S, slot, side),
           \A k \in S : slot[k] \in SlotState(side)
    PROVE  LET centers == {slot[k].ind : k \in S}
           IN  /\ {x \in DOMAIN heat : heat[x] = Top} = centers
               /\ {x \in DOMAIN heat : heat[x] > 0 /\ \A d \in Near(x, side) : HeatAt(heat, d) <= heat[x]} = centers
               /\ \A x \in DOMAIN heat : x \in Cells(side) /\ heat[x] \in Heats
<1>. DEFINE centers == {slot[k].ind : k \in S}
<1>1. ASSUME NEW k \in S PROVE slot[k].ind \in Cells(side) /\ Reach(slot[k]) \in 0..MaxRadius
  <2>1. slot[k].ind \in Cells(side) /\ slot[k].wh[1] \in Nat /\ slot[k].wh[2] \in Nat
    BY DEF SlotState
  <2>. QED
    BY <2>1, RadiusIs DEF Reach
<1>2. ASSUME NEW x \in DOMAIN heat
      PROVE  \E k \in S : x \in Covered(slot[k], side) /\ heat[x] = HeatOf(slot[k], x)
  BY DEF Shows
<1>3. ASSUME NEW k \in S, NEW x \in Covered(slot[k], side)
      PROVE  x \in DOMAIN heat /\ heat[x] >= HeatOf(slot[k], x)
  BY DEF Shows
<1>4. ASSUME NEW k \in S, NEW x \in Covered(slot[k], side)
      PROVE  /\ x \in Cells(side) /\ HeatOf(slot[k], x) \in Heats
             /\ slot[k].ind \in Covered(slot[k], side) /\ HeatOf(slot[k], slot[k].ind) = Top
             /\ HeatOf(slot[k], x) = Top <=> x = slot[k].ind
             /\ x # slot[k].ind => \E y \in Near(x, side) :
                    y \in Covered(slot[k], side) /\ HeatOf(slot[k], y) > HeatOf(slot[k], x)
  <2>. DEFINE c == slot[k].ind
              r == Reach(slot[k])
  <2>1. c \in Cells(side) /\ r \in 0..MaxRadius /\ x \in Window(c, r, side)
    BY <1>1 DEF Covered
  <2>. HIDE DEF c, r
  <2>2. /\ x \in Cells(side) /\ Splat(c, r, x) \in Int /\ Splat(c, r, x) > 0
        /\ c \in Window(c, r, side)
        /\ Splat(c, r, x) = Top <=> x = c
        /\ Splat(c, r, x) <= Top
        /\ x # c => \E y \in Near(x, side) : y \in Window(c, r, side) /\ Splat(c, r, y) > Splat(c, r, x)
    BY <2>1, SplatFalls
  <2>3. Splat(c, r, c) = Top
    BY <2>1, <2>2, SplatFalls
  <2>4. Splat(c, r, x) \in Heats
    BY <2>2 DEF Heats
  <2>. QED
    BY <2>2, <2>3, <2>4, Zenon DEF HeatOf, Covered, c, r
<1>5. ASSUME NEW x \in DOMAIN heat PROVE x \in Cells(side) /\ heat[x] \in Heats
  BY <1>2, <1>4
<1>6. ASSUME NEW k \in S PROVE slot[k].ind \in DOMAIN heat /\ heat[slot[k].ind] = Top
  <2>1. slot[k].ind \in Covered(slot[k], side)
    <3>1. slot[k].ind \in Window(slot[k].ind, Reach(slot[k]), side)
      <4>1. \A c \in Cells(side), r \in Nat : c \in Window(c, r, side)
        BY DEF Cells, Window, Greater, Lesser
      <4>. QED
        BY <1>1, <4>1, HeatAssumption
    <3>. QED
      BY <3>1 DEF Covered
  <2>2. HeatOf(slot[k], slot[k].ind) = Top
    BY <1>4, <2>1
  <2>3. slot[k].ind \in DOMAIN heat /\ heat[slot[k].ind] >= Top
    BY <1>3, <2>1, <2>2
  <2>. QED
    BY <1>5, <2>3, HeatAssumption DEF Heats
<1>7. {x \in DOMAIN heat : heat[x] = Top} = centers
  <2>1. ASSUME NEW x \in DOMAIN heat, heat[x] = Top PROVE x \in centers
    <3>1. PICK k \in S : x \in Covered(slot[k], side) /\ heat[x] = HeatOf(slot[k], x)
      BY <1>2
    <3>. QED
      BY <1>4, <2>1, <3>1
  <2>. QED
    BY <1>6, <2>1
<1>8. {x \in DOMAIN heat : heat[x] > 0 /\ \A d \in Near(x, side) : HeatAt(heat, d) <= heat[x]} = centers
  <2>1. ASSUME NEW x \in DOMAIN heat, \A d \in Near(x, side) : HeatAt(heat, d) <= heat[x] PROVE x \in centers
    <3>1. PICK k \in S : x \in Covered(slot[k], side) /\ heat[x] = HeatOf(slot[k], x)
      BY <1>2
    <3>. SUFFICES ASSUME x # slot[k].ind PROVE FALSE
      OBVIOUS
    <3>2. PICK y \in Near(x, side) : y \in Covered(slot[k], side) /\ HeatOf(slot[k], y) > HeatOf(slot[k], x)
      BY <1>4, <3>1
    <3>3. y \in DOMAIN heat /\ heat[y] >= HeatOf(slot[k], y)
      BY <1>3, <3>2
    <3>4. heat[y] <= heat[x]
      BY <2>1, <3>2, <3>3 DEF HeatAt
    <3>5. HeatOf(slot[k], y) \in Heats
      BY <1>4, <3>2
    <3>. QED
      BY <1>5, <3>1, <3>2, <3>3, <3>4, <3>5 DEF Heats
  <2>2. ASSUME NEW x \in centers
        PROVE  x \in DOMAIN heat /\ heat[x] > 0 /\ \A d \in Near(x, side) : HeatAt(heat, d) <= heat[x]
    <3>1. x \in DOMAIN heat /\ heat[x] = Top
      BY <1>6
    <3>. QED
      BY <1>5, <3>1, HeatAssumption DEF HeatAt, Heats
  <2>. QED
    BY <2>1, <2>2
<1>. QED
  BY <1>5, <1>7, <1>8

\* The heatmap of one class, object by object.
DrawsAll(g, n, chosen, center, radius, side) ==
    g = [k \in 0..n |->
            IF k = 0 THEN << >>
            ELSE IF k \in chosen THEN DrawGaussian(g[k - 1], center[k], radius[k], side) ELSE g[k - 1]]

Drawn(n, chosen, center, radius, side) == CHOOSE g : DrawsAll(g, n, chosen, center, radius, side)

\* What the loop over the objects has drawn, at any time, is a heatmap.
LEMMA DrawingIs ==
    ASSUME NEW side \in Nat \ {0}, NEW n \in Nat, NEW chosen,
           NEW center, NEW radius,
           \A k \in 1..n : k \in chosen => center[k] \in Cells(side) /\ radius[k] \in 0..MaxRadius
    PROVE  LET f == Drawn(n, chosen, center, radius, side)
           IN  /\ f[0] = << >> /\ \A k \in 0..n : f[k] \in HeatMaps(side)
               /\ \A k \in 1..n : k \in chosen =>
                    f[k] = DrawGaussian(f[k - 1], center[k], radius[k], side)
               /\ \A k \in 1..n : k \notin chosen => f[k] = f[k - 1]
<1>. DEFINE V == HeatMaps(side)
            next(h, k) == IF k \in chosen THEN DrawGaussian(h, center[k], radius[k], side) ELSE h
            step == [p \in (1..n) \X V |-> next(p[2], p[1])]
            f == Drawn(n, chosen, center, radius, side)
<1>1. ASSUME NEW h \in V, NEW k \in 1..n PROVE next(h, k) \in V
  <2>1. CASE k \in chosen
    <3>1. center[k] \in Cells(side) /\ radius[k] \in 0..MaxRadius
      BY <2>1
    <3>. QED
      BY <2>1, <3>1, DrawGaussianIs
  <2>2. CASE k \notin chosen
    BY <2>2
  <2>. QED
    BY <2>1, <2>2
<1>2. << >> \in V
  <2>1. << >> \in [{} -> Int] /\ {} \in SUBSET Cells(side)
    OBVIOUS
  <2>. QED
    BY <2>1 DEF HeatMaps
<1>. HIDE DEF V, next
<1>3. PICK g : Solution(g, n, V, << >>, step)
  <2>1. StepOf(step, n, V)
    BY <1>1 DEF StepOf
  <2>. HIDE DEF step
  <2>. QED
    BY <1>2, <2>1, Recursion
<1>4. g \in [0..n -> V] /\ g[0] = << >> /\ \A k \in 1..n : g[k] = next(g[k - 1], k)
  <2>1. g \in [0..n -> V] /\ g[0] = << >> /\ \A k \in 1..n : g[k] = step[<<k, g[k - 1]>>]
    BY <1>3 DEF Solution
  <2>2. ASSUME NEW k \in 1..n PROVE step[<<k, g[k - 1]>>] = next(g[k - 1], k)
    <3>1. k - 1 \in 0..n
      OBVIOUS
    <3>2. g[k - 1] \in V
      BY <2>1, <3>1
    <3>. QED
      BY <3>2
  <2>. QED
    BY <2>1, <2>2
<1>5. DrawsAll(g, n, chosen, center, radius, side)
  <2>1. \A k \in 0..n : k = 0 \/ k \in 1..n
    OBVIOUS
  <2>2. \A k \in 0..n : g[k] = IF k = 0 THEN << >> ELSE next(g[k - 1], k)
    BY <1>4, <2>1, Zenon
  <2>3. g = [k \in 0..n |-> IF k = 0 THEN << >> ELSE next(g[k - 1], k)]
    BY <1>4, <2>2
  <2>. QED
    BY <2>3, Zenon DEF DrawsAll, next
<1>6. f = [k \in 0..n |-> IF k = 0 THEN << >> ELSE next(f[k - 1], k)]
  <2>1. DrawsAll(f, n, chosen, center, radius, side)
    BY <1>5, Zenon DEF Drawn
  <2>. HIDE DEF f
  <2>. QED
    BY <2>1, Zenon DEF DrawsAll, next
<1>. HIDE DEF f
<1>7. f[0] = << >> /\ \A k \in 1..n : f[k] = next(f[k - 1], k)
  <2>1. 0 \in 0..n /\ \A k \in 1..n : k \in 0..n /\ k # 0
    OBVIOUS
  <2>. QED
    BY <1>6, <2>1, Zenon
<1>. DEFINE P == {k \in Nat : k <= n => f[k] \in V}
<1>8. 0 \in P
  BY <1>2, <1>7
<1>9. ASSUME NEW k \in Nat, k \in P PROVE k + 1 \in P
  <2>. SUFFICES ASSUME k + 1 <= n PROVE f[k + 1] \in V
    OBVIOUS
  <2>1. k + 1 \in 1..n /\ (k + 1) - 1 = k /\ f[k] \in V
    BY <1>9
  <2>. QED
    BY <1>1, <1>7, <2>1
<1>10. Nat \subseteq P
  <2>. HIDE DEF P
  <2>. QED
    BY <1>8, <1>9, SetInduction
<1>11. \A k \in 0..n : f[k] \in V
  BY <1>10
<1>12. /\ \A k \in 1..n : k \in chosen => f[k] = DrawGaussian(f[k - 1], center[k], radius[k], side)
       /\ \A k \in 1..n : k \notin chosen => f[k] = f[k - 1]
  BY <1>7, Zenon DEF next
<1>. QED
  BY <1>7, <1>11, <1>12 DEF V, f


\* One more object drawn is one more that shows.
LEMMA DrawShows ==
    ASSUME NEW side \in Nat \ {0}, NEW heat, NEW S, NEW slot, NEW k, Shows(heat, S, slot, side),
           \A j \in S \cup {k} : slot[j].ind \in Cells(side) /\ Reach(slot[j]) \in 0..MaxRadius
    PROVE  Shows(DrawGaussian(heat, slot[k].ind, Reach(slot[k]), side), S \cup {k}, slot, side)
<1>. DEFINE c == slot[k].ind
            r == Reach(slot[k])
            W == Window(c, r, side)
            D == DOMAIN heat
            value(x) == IF x \in W THEN Greater(HeatAt(heat, x), Splat(c, r, x)) ELSE heat[x]
            new == DrawGaussian(heat, c, r, side)
<1>1. c \in Cells(side) /\ r \in 0..MaxRadius /\ heat \in HeatMaps(side)
  BY DEF Shows
<1>2. new \in HeatMaps(side)
  <2>. HIDE DEF c, r
  <2>. QED
    BY <1>1, DrawGaussianIs
<1>3. new = [x \in W \cup D |-> value(x)]
  BY Zenon DEF DrawGaussian
<1>4. Covered(slot[k], side) = W /\ \A x : HeatOf(slot[k], x) = Splat(c, r, x)
  BY DEF Covered, HeatOf
<1>5. ASSUME NEW x \in W PROVE Splat(c, r, x) \in Int /\ Splat(c, r, x) > 0
  <2>. HIDE DEF c, r
  <2>. QED
    BY <1>1, SplatFalls
<1>6. \A x \in D : heat[x] \in Int
  BY <1>1 DEF HeatMaps
<1>7. ASSUME NEW x \in D PROVE \E j \in S : x \in Covered(slot[j], side) /\ heat[x] = HeatOf(slot[j], x)
  BY DEF Shows
<1>8. ASSUME NEW j \in S, NEW x \in Covered(slot[j], side) PROVE x \in D /\ heat[x] >= HeatOf(slot[j], x)
  BY DEF Shows
<1>. HIDE DEF c, r, W, D, new
<1>9. ASSUME NEW x \in W \cup D
      PROVE  /\ x \in W /\ x \in D => \/ new[x] = heat[x] /\ heat[x] >= Splat(c, r, x)
                                      \/ new[x] = Splat(c, r, x) /\ Splat(c, r, x) >= heat[x]
             /\ x \in W /\ x \notin D => new[x] = Splat(c, r, x)
             /\ x \notin W => new[x] = heat[x]
  <2>1. new[x] = value(x)
    BY <1>3, <1>9
  <2>2. CASE x \in W /\ x \in D
    BY <1>5, <1>6, <2>1, <2>2 DEF HeatAt, Greater, D
  <2>3. CASE x \in W /\ x \notin D
    BY <1>5, <2>1, <2>3 DEF HeatAt, Greater, D
  <2>4. CASE x \notin W
    BY <2>1, <2>4
  <2>. QED
    BY <2>2, <2>3, <2>4
<1>10. DOMAIN new = W \cup D
  BY <1>3
<1>11. ASSUME NEW x \in DOMAIN new
       PROVE  \E j \in S \cup {k} : x \in Covered(slot[j], side) /\ new[x] = HeatOf(slot[j], x)
  <2>1. CASE x \in W /\ new[x] = Splat(c, r, x)
    BY <1>4, <2>1
  <2>2. CASE x \in D /\ new[x] = heat[x]
    <3>1. PICK j \in S : x \in Covered(slot[j], side) /\ heat[x] = HeatOf(slot[j], x)
      BY <1>7, <2>2
    <3>. QED
      BY <2>2, <3>1
  <2>. QED
    BY <1>9, <1>10, <1>11, <2>1, <2>2
<1>12. ASSUME NEW j \in S \cup {k}, NEW x \in Covered(slot[j], side)
       PROVE  x \in DOMAIN new /\ new[x] >= HeatOf(slot[j], x)
  <2>1. CASE j \in S
    <3>1. x \in D /\ heat[x] >= HeatOf(slot[j], x)
      BY <1>8, <2>1
    <3>2. PICK i \in S : x \in Covered(slot[i], side) /\ heat[x] = HeatOf(slot[i], x)
      BY <1>7, <3>1
    <3>3. CASE new[x] = heat[x]
      BY <1>10, <3>1, <3>3
    <3>4. CASE x \in W /\ new[x] = Splat(c, r, x) /\ Splat(c, r, x) >= heat[x]
      <4>1. HeatOf(slot[j], x) \in Int
        BY <2>1, SplatFalls DEF HeatOf, Covered
      <4>. QED
        BY <1>5, <1>6, <1>10, <3>1, <3>4, <4>1
    <3>. QED
      BY <1>9, <3>1, <3>3, <3>4
  <2>2. CASE j = k
    <3>1. x \in W /\ HeatOf(slot[j], x) = Splat(c, r, x)
      BY <1>4, <2>2
    <3>2. Splat(c, r, x) \in Int /\ (x \in D => heat[x] \in Int)
      BY <1>5, <1>6, <3>1
    <3>. QED
      BY <1>9, <1>10, <3>1, <3>2
  <2>. QED
    BY <2>1, <2>2
<1>. QED
  BY <1>2, <1>11, <1>12 DEF Shows, new, c, r

\* So the loop over the objects draws a heatmap that shows those of its class.
LEMMA HeatMapIs ==
    ASSUME NEW side \in Nat \ {0}, NEW n \in Nat, NEW chosen, NEW center, NEW radius, NEW slot,
           \A k \in 1..n : k \in chosen =>
                /\ center[k] \in Cells(side) /\ radius[k] \in 0..MaxRadius
                /\ slot[k].ind = center[k] /\ Reach(slot[k]) = radius[k]
    PROVE  LET f == Drawn(n, chosen, center, radius, side)
           IN  Shows(f[n], {k \in 1..n : k \in chosen}, slot, side)
<1>. DEFINE f == Drawn(n, chosen, center, radius, side)
            drawn(m) == {k \in 1..m : k \in chosen}
            P == {m \in Nat : m <= n => Shows(f[m], drawn(m), slot, side)}
<1>1. /\ f[0] = << >> /\ \A k \in 0..n : f[k] \in HeatMaps(side)
      /\ \A k \in 1..n : k \in chosen => f[k] = DrawGaussian(f[k - 1], center[k], radius[k], side)
      /\ \A k \in 1..n : k \notin chosen => f[k] = f[k - 1]
  <2>1. \A k \in 1..n : k \in chosen => center[k] \in Cells(side) /\ radius[k] \in 0..MaxRadius
    OBVIOUS
  <2>. QED
    BY <2>1, DrawingIs
<1>. HIDE DEF f
<1>2. 0 \in P
  <2>1. f[0] \in HeatMaps(side) /\ DOMAIN f[0] = {} /\ drawn(0) = {}
    <3>1. 0 \in 0..n /\ DOMAIN << >> = {} /\ 1..0 = {}
      OBVIOUS
    <3>. QED
      BY <1>1, <3>1
  <2>2. Shows(f[0], drawn(0), slot, side)
    BY <2>1 DEF Shows
  <2>. QED
    BY <2>2
<1>3. ASSUME NEW m \in Nat, m \in P PROVE m + 1 \in P
  <2>. SUFFICES ASSUME m + 1 <= n PROVE Shows(f[m + 1], drawn(m + 1), slot, side)
    OBVIOUS
  <2>1. m + 1 \in 1..n /\ (m + 1) - 1 = m /\ Shows(f[m], drawn(m), slot, side)
    BY <1>3
  <2>2. CASE m + 1 \in chosen
    <3>1. f[m + 1] = DrawGaussian(f[m], slot[m + 1].ind, Reach(slot[m + 1]), side)
      BY <1>1, <2>1, <2>2
    <3>2. drawn(m + 1) = drawn(m) \cup {m + 1}
      BY <2>2
    <3>3. \A j \in drawn(m) \cup {m + 1} : slot[j].ind \in Cells(side) /\ Reach(slot[j]) \in 0..MaxRadius
      <4>1. ASSUME NEW j \in drawn(m) \cup {m + 1} PROVE j \in 1..n /\ j \in chosen
        BY <2>1, <2>2
      <4>. QED
        BY <4>1, Zenon
    <3>. HIDE DEF drawn
    <3>4. Shows(DrawGaussian(f[m], slot[m + 1].ind, Reach(slot[m + 1]), side), drawn(m) \cup {m + 1}, slot, side)
      BY <2>1, <3>3, DrawShows
    <3>. QED
      BY <3>1, <3>2, <3>4, Zenon
  <2>3. CASE m + 1 \notin chosen
    <3>1. f[m + 1] = f[m]
      BY <1>1, <2>1, <2>3
    <3>2. drawn(m + 1) = drawn(m)
      BY <2>3
    <3>. QED
      BY <2>1, <3>1, <3>2
  <2>. QED
    BY <2>2, <2>3
<1>4. Nat \subseteq P
  <2>. HIDE DEF P
  <2>. QED
    BY <1>2, <1>3, SetInduction
<1>5. Shows(f[n], drawn(n), slot, side)
  BY <1>4
<1>. QED
  BY <1>5, Zenon DEF f

\* Objects as the data set gives them: a class, and a box anywhere.
ObjectState == [cls : Nat, box : BoxState]

\* What targets say of objects: of those that have area once they are clipped,
\* of the first ones, a size, an offset and a center; and for each class a
\* heatmap that shows them.
Encodes(t, objs, classes, side, most) ==
    /\ DOMAIN t.slot = {k \in 1..Lesser(Len(objs), most) : HasArea(OutputBox(objs[k].box, side))}
    /\ \A k \in DOMAIN t.slot : t.slot[k] = Slot(OutputBox(objs[k].box, side), side)
    /\ DOMAIN t.hm = classes
    /\ \A cls \in classes : Shows(t.hm[cls], {k \in DOMAIN t.slot : objs[k].cls = cls}, t.slot, side)

\* build_targets encodes the objects.
LEMMA BuildTargetsIs ==
    ASSUME NEW objs \in Seq(ObjectState), NEW classes, NEW side \in Nat \ {0}, NEW most \in Nat
    PROVE  LET t == BuildTargets(objs, classes, side, most)
           IN  /\ Encodes(t, objs, classes, side, most)
               /\ \A k \in DOMAIN t.slot : t.slot[k] \in SlotState(side)
<1>. DEFINE n == Lesser(Len(objs), most)
            box(k) == OutputBox(objs[k].box, side)
            used == {k \in 1..n : HasArea(box(k))}
            splat(heat, k) ==
                DrawGaussian(heat, CenterCell(box(k), side),
                             Radius(box(k).y2 - box(k).y1, box(k).x2 - box(k).x1), side)
            upTo(cls) == CHOOSE g : g = [k \in 0..n |->
                IF k = 0 THEN << >>
                ELSE IF k \in used /\ objs[k].cls = cls THEN splat(g[k - 1], k) ELSE g[k - 1]]
            t == BuildTargets(objs, classes, side, most)
<1>1. t = [hm |-> [cls \in classes |-> upTo(cls)[n]], slot |-> [k \in used |-> Slot(box(k), side)]]
  BY Zenon DEF BuildTargets
<1>2. n \in Nat /\ \A k \in 1..n : objs[k] \in ObjectState
  <2>1. Len(objs) \in Nat /\ n \in Nat /\ n <= Len(objs)
    BY LenProperties DEF Lesser
  <2>. QED
    BY <2>1, ElementOfSeq
<1>3. ASSUME NEW k \in used
      PROVE  /\ CenterCell(box(k), side) \in Cells(side) /\ Slot(box(k), side) \in SlotState(side)
             /\ Radius(box(k).y2 - box(k).y1, box(k).x2 - box(k).x1) \in 0..MaxRadius
  <2>1. objs[k].box \in BoxState /\ HasArea(OutputBox(objs[k].box, side))
    BY <1>2 DEF ObjectState
  <2>. DEFINE x == OutputBox(objs[k].box, side)
  <2>2. /\ x.x2 - x.x1 \in Nat \ {0} /\ x.y2 - x.y1 \in Nat \ {0}
        /\ CenterCell(x, side) \in Cells(side) /\ Slot(x, side) \in SlotState(side)
    BY <2>1, OutputBoxIs
  <2>. HIDE DEF x
  <2>3. Radius(x.y2 - x.y1, x.x2 - x.x1) \in 0..MaxRadius
    BY <2>2, RadiusIs
  <2>. QED
    BY <2>2, <2>3 DEF x
<1>. DEFINE slots == [k \in used |-> Slot(box(k), side)]
<1>4. ASSUME NEW cls
      PROVE  Shows(upTo(cls)[n], {k \in used : objs[k].cls = cls}, slots, side)
  <2>. DEFINE chosen == {k \in used : objs[k].cls = cls}
              center == [k \in 1..n |-> CenterCell(box(k), side)]
              radius == [k \in 1..n |-> Radius(box(k).y2 - box(k).y1, box(k).x2 - box(k).x1)]
              f == Drawn(n, chosen, center, radius, side)
  <2>1. ASSUME NEW g
        PROVE  [k \in 0..n |->
                  IF k = 0 THEN << >>
                  ELSE IF k \in used /\ objs[k].cls = cls THEN splat(g[k - 1], k) ELSE g[k - 1]]
             = [k \in 0..n |->
                  IF k = 0 THEN << >>
                  ELSE IF k \in chosen THEN DrawGaussian(g[k - 1], center[k], radius[k], side) ELSE g[k - 1]]
    <3>1. \A k \in used : k \in 1..n
      OBVIOUS
    <3>2. \A k \in 1..n : /\ center[k] = CenterCell(box(k), side)
                          /\ radius[k] = Radius(box(k).y2 - box(k).y1, box(k).x2 - box(k).x1)
      OBVIOUS
    <3>3. \A k : k \in chosen <=> k \in used /\ objs[k].cls = cls
      OBVIOUS
    <3>. HIDE DEF used, chosen, center, radius, n
    <3>. QED
      BY <3>1, <3>2, <3>3, Zenon
  <2>2. upTo(cls) = f
    <3>. HIDE DEF used, chosen, center, radius, n
    <3>. QED
      BY <2>1, Zenon DEF Drawn, DrawsAll
  <2>3. ASSUME NEW k \in 1..n, k \in chosen
        PROVE  /\ center[k] \in Cells(side) /\ radius[k] \in 0..MaxRadius
               /\ slots[k].ind = center[k] /\ Reach(slots[k]) = radius[k]
    <3>1. k \in used
      BY <2>3
    <3>. DEFINE x == box(k)
    <3>2. slots[k] = Slot(x, side) /\ center[k] = CenterCell(x, side) /\ radius[k] = Radius(x.y2 - x.y1, x.x2 - x.x1)
      BY <3>1
    <3>3. CenterCell(x, side) \in Cells(side) /\ Radius(x.y2 - x.y1, x.x2 - x.x1) \in 0..MaxRadius
      BY <1>3, <3>1
    <3>. HIDE DEF x, slots, center, radius
    <3>4. Slot(x, side).ind = CenterCell(x, side) /\ Slot(x, side).wh = <<x.x2 - x.x1, x.y2 - x.y1>>
      BY DEF Slot
    <3>5. Reach(slots[k]) = Radius(x.y2 - x.y1, x.x2 - x.x1)
      BY <3>2, <3>4 DEF Reach
    <3>. QED
      BY <3>2, <3>3, <3>4, <3>5
  <2>4. {k \in 1..n : k \in chosen} = chosen
    OBVIOUS
  <2>5. Shows(f[n], {k \in 1..n : k \in chosen}, slots, side)
    <3>. HIDE DEF chosen, center, radius, n, slots, used, box
    <3>1. n \in Nat
      BY <1>2
    <3>. QED
      BY <2>3, <3>1, HeatMapIs
  <2>. HIDE DEF f, upTo, slots
  <2>. QED
    BY <2>2, <2>4, <2>5
<1>5. t.slot = slots /\ DOMAIN t.hm = classes /\ \A cls \in classes : t.hm[cls] = upTo(cls)[n]
  <2>. HIDE DEF upTo, slots
  <2>. QED
    BY <1>1 DEF slots
<1>6. DOMAIN slots = used /\ \A k \in used : slots[k] = Slot(box(k), side)
  OBVIOUS
<1>7. used = {k \in 1..n : HasArea(box(k))}
  OBVIOUS
<1>8. Encodes(t, objs, classes, side, most)
  <2>. HIDE DEF upTo, used, slots, t
  <2>. QED
    BY <1>4, <1>5, <1>6, <1>7 DEF Encodes
<1>. HIDE DEF upTo, n, used, box, t, slots
<1>. QED
  BY <1>3, <1>5, <1>6, <1>8 DEF t

\* The cells of the heads are those of the targets.
Side == TargetSide(Size)

\* There is at least one cell.
LEMMA SideIs == Side \in Nat \ {0} /\ HeadSide(Size) = Side
<1>1. Size \in Nat \ {0} /\ HeadSide(Size) = Side
  BY DecodeAssumption, EvaluationAssumption DEF Side
<1>2. HeadSide(Size) = 8 * ((Size + 31) \div 32)
  BY <1>1, HeadSideIs
<1>3. 8 * ((Size + 31) \div 32) \in Nat \ {0}
  BY <1>1
<1>. QED
  BY <1>1, <1>2, <1>3

\* The data: objects of whole numbers, and targets that build_targets can make.
ObjectsTyped == objects \in Seq(ObjectState)

TargetsLike(t) ==
    /\ DOMAIN t.hm \subseteq Classes
    /\ \A cls \in DOMAIN t.hm : t.hm[cls] \in HeatMaps(Side)
    /\ \A k \in DOMAIN t.slot : t.slot[k] \in SlotState(Side)

DataTyped == ObjectsTyped /\ TargetsLike(targets)

\* No targets are targets.
LEMMA NoTargetsTyped == TargetsLike(NoTargets)
<1>1. DOMAIN NoTargets.hm = {} /\ DOMAIN NoTargets.slot = {}
  BY DEF NoTargets
<1>. QED
  BY <1>1 DEF TargetsLike

\* Where each step of the loop leads, and what it leaves alone.
LEMMA StepsLeave ==
    /\ RenderShapes \/ ReadAnnotated =>
          pc' = "augment" /\ UNCHANGED <<targets, heads, rows, scores, nGt, flawless, aps>>
    /\ Augment => pc' = "encode" /\ UNCHANGED <<targets, heads, rows, scores, nGt, flawless, aps>>
    /\ Encode => pc' = "forward" /\ UNCHANGED <<heads, rows, scores, nGt, flawless, aps>>
    /\ Predict => pc' = "decode" /\ UNCHANGED <<objects, targets, rows, scores, nGt, flawless, aps>>
    /\ DecodeImage =>
          pc = "decode" /\ pc' = "update" /\ UNCHANGED <<objects, targets, heads, defect, scores, nGt, flawless, aps>>
    /\ Update => pc' = "load" /\ UNCHANGED aps
    /\ Compute => pc' = "done" /\ UNCHANGED <<objects, targets, heads, rows, scores, nGt, flawless>>
    /\ UNCHANGED evalVars =>
          UNCHANGED <<pc, objects, targets, heads, defect, rows, scores, nGt, images, flawless, aps>>
BY Zenon DEF RenderShapes, ReadAnnotated, Augment, Encode, Predict, DecodeImage, Update, Compute, evalVars

\* An image that was drawn or read has objects.
LEMMA LoadedIsTyped == RenderShapes \/ ReadAnnotated => ObjectsTyped'
<1>1. Size \in Nat \ {0} /\ NumClasses \in Nat /\ MaxShapes \in Nat
  BY DecodeAssumption, EvaluationAssumption
<1>2. ASSUME RenderShapes PROVE objects' \in Seq(ObjectState)
  <2>1. PICK n \in 1..MaxShapes : \E drawn \in [1..n -> Shapes] :
                objects' = [i \in 1..n |-> LabelOf(drawn[i])]
    BY <1>2 DEF RenderShapes
  <2>2. PICK drawn \in [1..n -> Shapes] : objects' = [i \in 1..n |-> LabelOf(drawn[i])]
    BY <2>1
  <2>3. n \in Nat
    BY <1>1
  <2>4. ASSUME NEW s \in Shapes PROVE LabelOf(s) \in ObjectState
    <3>1. s.cls \in Classes /\ s.s \in Int /\ s.cx \in Int /\ s.cy \in Int
      BY <1>1, EvaluationAssumption
    <3>2. s.cls \in Nat
      BY <1>1, <3>1 DEF Classes
    <3>. QED
      BY <3>1, <3>2 DEF LabelOf, Box, BoxState, ObjectState
  <2>5. \A i \in 1..n : LabelOf(drawn[i]) \in ObjectState
    BY <2>2, <2>4
  <2>. QED
    BY <2>2, <2>3, <2>5, SeqDef
<1>3. ASSUME ReadAnnotated PROVE objects' \in Seq(ObjectState)
  <2>. DEFINE known(a) == Only(a.objects, {o \in Range(a.objects) : o.cls \in Classes})
              fit(a, b) == Box((b.x1 * Size) \div a.w, (b.y1 * Size) \div a.h,
                               (b.x2 * Size) \div a.w, (b.y2 * Size) \div a.h)
  <2>1. PICK a \in Annotations :
            objects' = [i \in 1..Len(known(a)) |-> [cls |-> known(a)[i].cls, box |-> fit(a, known(a)[i].box)]]
    BY <1>3 DEF ReadAnnotated
  <2>2. a.w \in Nat \ {0} /\ a.h \in Nat \ {0} /\ a.objects \in Seq(ObjectState)
    BY EvaluationAssumption DEF ObjectState
  <2>3. known(a) \in Seq(ObjectState)
    BY <2>2, OnlyIs
  <2>. DEFINE k == known(a)
  <2>4. Len(k) \in Nat /\ \A i \in 1..Len(k) : k[i] \in ObjectState
    BY <2>3, LenProperties, ElementOfSeq
  <2>5. ASSUME NEW b \in BoxState PROVE fit(a, b) \in BoxState
    <3>1. b.x1 * Size \in Int /\ b.y1 * Size \in Int /\ b.x2 * Size \in Int /\ b.y2 * Size \in Int
      BY <1>1 DEF BoxState
    <3>2. \A v \in Int, u \in Nat \ {0} : v \div u \in Int
      OBVIOUS
    <3>3. /\ (b.x1 * Size) \div a.w \in Int /\ (b.y1 * Size) \div a.h \in Int
          /\ (b.x2 * Size) \div a.w \in Int /\ (b.y2 * Size) \div a.h \in Int
      BY <2>2, <3>1, <3>2
    <3>. QED
      BY <3>3 DEF Box, BoxState
  <2>. HIDE DEF fit, known
  <2>6. \A i \in 1..Len(k) : [cls |-> k[i].cls, box |-> fit(a, k[i].box)] \in ObjectState
    BY <2>4, <2>5 DEF ObjectState
  <2>7. objects' = [i \in 1..Len(k) |-> [cls |-> k[i].cls, box |-> fit(a, k[i].box)]]
    BY <2>1
  <2>. HIDE DEF k
  <2>. QED
    <3>1. objects' \in [1..Len(k) -> ObjectState]
      BY <2>6, <2>7
    <3>. QED
      BY <2>4, <3>1, SeqDef, Zenon
<1>. QED
  BY <1>2, <1>3 DEF ObjectsTyped

\* Every step keeps the data typed.
LEMMA DataNext == DataTyped /\ [EvalNext]_evalVars => DataTyped'
<1>. SUFFICES ASSUME DataTyped, [EvalNext]_evalVars PROVE DataTyped'
  OBVIOUS
<1>1. Size \in Nat \ {0} /\ MaxObjects \in Nat /\ Side \in Nat \ {0}
  BY DecodeAssumption, EvaluationAssumption, SideIs
<1>2. ASSUME UNCHANGED targets PROVE TargetsLike(targets')
  BY <1>2 DEF DataTyped
<1>3. CASE RenderShapes \/ ReadAnnotated
  <2>1. UNCHANGED targets
    BY <1>3, StepsLeave
  <2>. QED
    BY <1>2, <1>3, <2>1, LoadedIsTyped DEF DataTyped
<1>4. CASE Augment
  <2>. DEFINE n == Len(objects)
  <2>1. n \in Nat /\ \A i \in 1..n : objects[i] \in ObjectState
    BY LenProperties, ElementOfSeq DEF DataTyped, ObjectsTyped
  <2>2. ASSUME NEW o \in ObjectState PROVE [o EXCEPT !.box = Mirrored(o.box)] \in ObjectState
    <3>1. Mirrored(o.box) \in BoxState
      BY <1>1 DEF Mirrored, Box, BoxState, ObjectState
    <3>. QED
      BY <3>1 DEF ObjectState
  <2>3. CASE objects' = objects
    BY <1>2, <1>4, <2>3 DEF Augment, DataTyped, ObjectsTyped
  <2>4. CASE objects' = [i \in 1..n |-> [objects[i] EXCEPT !.box = Mirrored(objects[i].box)]]
    <3>. HIDE DEF n
    <3>1. \A i \in 1..n : [objects[i] EXCEPT !.box = Mirrored(objects[i].box)] \in ObjectState
      BY <2>1, <2>2
    <3>2. objects' \in Seq(ObjectState)
      BY <2>1, <2>4, <3>1, SeqDef
    <3>. QED
      BY <1>2, <1>4, <3>2 DEF Augment, DataTyped, ObjectsTyped
  <2>. QED
    BY <1>4, <2>3, <2>4 DEF Augment
<1>5. CASE Encode
  <2>. DEFINE t == BuildTargets(objects, Classes, Side, MaxObjects)
  <2>1. targets' = t /\ objects' = FirstOf(objects, MaxObjects)
    BY <1>5 DEF Encode, Side
  <2>2. Encodes(t, objects, Classes, Side, MaxObjects) /\ \A k \in DOMAIN t.slot : t.slot[k] \in SlotState(Side)
    BY <1>1, BuildTargetsIs DEF DataTyped, ObjectsTyped
  <2>. HIDE DEF t
  <2>3. TargetsLike(targets')
    BY <2>1, <2>2 DEF TargetsLike, Encodes, Shows
  <2>4. FirstOf(objects, MaxObjects) \in Seq(ObjectState)
    BY <1>1, FirstIs DEF DataTyped, ObjectsTyped
  <2>. QED
    BY <2>1, <2>3, <2>4 DEF DataTyped, ObjectsTyped
<1>6. CASE Update
  <2>1. objects' = << >> /\ targets' = NoTargets
    BY <1>6 DEF Update
  <2>2. << >> \in Seq(ObjectState)
    BY EmptySeq
  <2>3. TargetsLike(targets')
    BY <2>1, NoTargetsTyped
  <2>. QED
    BY <2>1, <2>2, <2>3 DEF DataTyped, ObjectsTyped
<1>7. CASE Predict \/ DecodeImage \/ Compute \/ UNCHANGED evalVars
  BY <1>2, <1>7 DEF Predict, DecodeImage, Compute, evalVars, DataTyped, ObjectsTyped
<1>. QED
  BY <1>3, <1>4, <1>5, <1>6, <1>7 DEF EvalNext

\* At the start there is no image.
LEMMA DataInit == EvalInit => DataTyped
<1>. SUFFICES ASSUME EvalInit PROVE DataTyped
  OBVIOUS
<1>1. << >> \in Seq(ObjectState)
  BY EmptySeq
<1>2. TargetsLike(targets)
  BY NoTargetsTyped DEF EvalInit
<1>. QED
  BY <1>1, <1>2 DEF EvalInit, DataTyped, ObjectsTyped

\* So the data are typed in every state.
LEMMA DataHolds == EvalSpec => []DataTyped
BY DataInit, DataNext, PTL DEF EvalSpec

\* gaussian_radius keeps its promise for every object that gets targets: the
\* penalty is lowered only for boxes that overlap the object by 0.7.
THEOREM RadiiAreSafe == EvalSpec => []RadiusKeepsOverlap
<1>1. DataTyped => RadiusKeepsOverlap
  <2>. SUFFICES ASSUME DataTyped, NEW k \in DOMAIN targets.slot
                PROVE  LET b == Box(0, 0, targets.slot[k].wh[1], targets.slot[k].wh[2])
                           r == Cell * Radius(b.y2, b.x2)
                       IN \A dx1, dy1, dx2, dy2 \in {-r, 0, r} :
                             r > 0 => IouAtLeast(b, Box(dx1, dy1, b.x2 + dx2, b.y2 + dy2), OverlapNum, OverlapDen)
    BY Zenon DEF RadiusKeepsOverlap
  <2>. DEFINE b == Box(0, 0, targets.slot[k].wh[1], targets.slot[k].wh[2])
              n == Radius(b.y2, b.x2)
              r == Cell * n
  <2>1. b.x2 \in Nat \ {0} /\ b.y2 \in Nat \ {0} /\ b = Box(0, 0, b.x2, b.y2)
    <3>1. targets.slot[k] \in SlotState(Side)
      BY DEF DataTyped, TargetsLike
    <3>. QED
      BY <3>1 DEF SlotState, Box
  <2>. HIDE DEF b
  <2>2. n \in Nat /\ (n = 0 \/ RootsAtLeast(b.y2, b.x2, n))
    <3>1. n \in 0..MaxRadius /\ (n = 0 \/ RootsAtLeast(b.y2, b.x2, n))
      BY <2>1, RadiusIs
    <3>. QED
      BY <3>1, RadiiAreNat, Zenon
  <2>. HIDE DEF n
  <2>3. ASSUME r > 0
        PROVE  \A dx1, dy1, dx2, dy2 \in {-r, 0, r} :
                  IouAtLeast(Box(0, 0, b.x2, b.y2), Box(dx1, dy1, b.x2 + dx2, b.y2 + dy2), OverlapNum, OverlapDen)
    <3>1. n \in Nat \ {0} /\ RootsAtLeast(b.y2, b.x2, n)
      BY <2>2, <2>3 DEF Cell
    <3>. QED
      BY <2>1, <3>1, RadiusIsSafe
  <2>. HIDE DEF r
  <2>4. ASSUME NEW dx1 \in {-r, 0, r}, NEW dy1 \in {-r, 0, r}, NEW dx2 \in {-r, 0, r}, NEW dy2 \in {-r, 0, r}, r > 0
        PROVE  IouAtLeast(b, Box(dx1, dy1, b.x2 + dx2, b.y2 + dy2), OverlapNum, OverlapDen)
    BY <2>1, <2>3, <2>4
  <2>. QED
    BY <2>4, Zenon DEF b, n, r
<1>. QED
  BY <1>1, DataHolds, PTL
-------------------------------------------------------------------------------
\* As many in one set as in the other: one for one.
LEMMA OneForOne ==
    ASSUME NEW S, NEW T, NEW f \in [S -> T], IsFiniteSet(S),
           \A x, y \in S : f[x] = f[y] => x = y,
           \A z \in T : \E x \in S : f[x] = z
    PROVE  IsFiniteSet(T) /\ Cardinality(T) = Cardinality(S)
<1>1. f \in Surjection(S, T)
  BY DEF Surjection
<1>2. f \in Injection(S, T)
  BY DEF Injection, IsInjective
<1>. QED
  BY <1>1, <1>2, FS_Surjection

\* Sets of places have a size.
LEMMA PlacesAreFinite ==
    ASSUME NEW n \in Nat, NEW T \in SUBSET (1..n)
    PROVE  IsFiniteSet(T) /\ Cardinality(T) \in 0..n
<1>1. IsFiniteSet(1..n) /\ Cardinality(1..n) = n
  BY FS_Interval
<1>2. IsFiniteSet(T) /\ Cardinality(T) <= Cardinality(1..n)
  BY <1>1, FS_Subset
<1>. QED
  BY <1>1, <1>2, FS_CardinalityType

\* An entry of the accumulators.
EntryState == [score : Int, tp : {0, 1}]

\* The true positives of two sequences put together are those of both.
LEMMA HitsAddUp ==
    ASSUME NEW S, NEW s \in Seq(S), NEW t \in Seq(S)
    PROVE  TpCum(s \o t, Len(s \o t)) = TpCum(s, Len(s)) + TpCum(t, Len(t))
<1>. DEFINE u == s \o t
            n == Len(s)
            m == Len(t)
            A == {j \in 1..n : s[j].tp = 1}
            B == {j \in 1..m : t[j].tp = 1}
            C == {j \in 1..n + m : u[j].tp = 1}
            D == {j \in C : j > n}
            f == [j \in B |-> n + j]
<1>1. n \in Nat /\ m \in Nat
  BY LenProperties
<1>2. Len(u) = n + m /\ \A i \in 1..n + m : u[i] = IF i <= n THEN s[i] ELSE t[i - n]
  BY ConcatProperties
<1>. HIDE DEF u, n, m
<1>3. IsFiniteSet(A) /\ IsFiniteSet(B) /\ Cardinality(A) \in Nat /\ Cardinality(B) \in Nat
  BY <1>1, PlacesAreFinite
<1>4. IsFiniteSet(D) /\ Cardinality(D) = Cardinality(B)
  <2>1. f \in [B -> D]
    <3>. SUFFICES ASSUME NEW j \in B PROVE n + j \in D
      OBVIOUS
    <3>1. n + j \in 1..n + m /\ ~(n + j <= n) /\ (n + j) - n = j
      BY <1>1
    <3>2. u[n + j] = t[j]
      BY <1>2, <3>1
    <3>. QED
      BY <1>1, <3>1, <3>2
  <2>2. \A i, j \in B : f[i] = f[j] => i = j
    BY <1>1
  <2>3. \A k \in D : \E j \in B : f[j] = k
    <3>. TAKE k \in D
    <3>1. k - n \in 1..m /\ ~(k <= n) /\ n + (k - n) = k
      BY <1>1
    <3>2. u[k] = t[k - n]
      BY <1>2, <3>1
    <3>3. k - n \in B
      BY <3>1, <3>2
    <3>. QED
      BY <3>1, <3>3
  <2>. HIDE DEF f, B, D
  <2>. QED
    BY <1>3, <2>1, <2>2, <2>3, OneForOne
<1>5. C = A \cup D /\ A \cap D = {}
  <2>1. ASSUME NEW j \in 1..n + m, j <= n PROVE j \in C <=> j \in A
    <3>1. u[j] = s[j] /\ j \in 1..n
      BY <1>1, <1>2, <2>1
    <3>. QED
      BY <3>1
  <2>2. \A j \in A : j \in 1..n + m /\ j <= n
    BY <1>1
  <2>3. \A j \in C : j \in 1..n + m /\ (j <= n \/ j > n)
    BY <1>1
  <2>4. \A j \in D : j \in C /\ ~(j <= n)
    BY <1>1
  <2>5. \A j \in C : j > n => j \in D
    OBVIOUS
  <2>. HIDE DEF A, C, D
  <2>. QED
    BY <2>1, <2>2, <2>3, <2>4, <2>5
<1>6. Cardinality(C) = Cardinality(A) + Cardinality(B)
  <2>. HIDE DEF A, B, C, D
  <2>1. Cardinality(A \cup D) = Cardinality(A) + Cardinality(D) - Cardinality(A \cap D)
    BY <1>3, <1>4, FS_Union
  <2>2. Cardinality(A \cap D) = 0
    BY <1>5, FS_EmptySet
  <2>. QED
    BY <1>3, <1>4, <1>5, <2>1, <2>2
<1>. QED
  BY <1>2, <1>6 DEF TpCum, u, n, m

\* The objects that some row is nearest to and near enough.
Found(rs, gt) == {Nearest(rs[i].box, gt) : i \in {j \in 1..Len(rs) : Hits(rs[j].box, gt)}}

\* Matches: the true positives are as many as the objects that were found.
LEMMA MatchesIs ==
    ASSUME NEW S, NEW rs \in Seq(S), \A r \in S : r.score \in Int, NEW gt
    PROVE  /\ Matches(rs, gt) \in Seq(EntryState)
           /\ IsFiniteSet(Found(rs, gt))
           /\ TpCum(Matches(rs, gt), Len(Matches(rs, gt))) = Cardinality(Found(rs, gt))
<1>. DEFINE n == Len(rs)
            hits(i) == Hits(rs[i].box, gt)
            target(i) == Nearest(rs[i].box, gt)
            matched(i) == \E h \in 1..i - 1 : hits(h) /\ target(h) = target(i)
            t == Matches(rs, gt)
            T == {j \in 1..n : hits(j) /\ ~matched(j)}
            f == [j \in T |-> target(j)]
<1>1. n \in Nat /\ \A i \in 1..n : rs[i].score \in Int
  BY LenProperties, ElementOfSeq
<1>2. t = [i \in 1..n |-> [score |-> rs[i].score, tp |-> IF hits(i) /\ ~matched(i) THEN 1 ELSE 0]]
  BY Zenon DEF Matches
<1>3. Found(rs, gt) = {target(i) : i \in {j \in 1..n : hits(j)}}
  BY DEF Found
<1>. HIDE DEF n, hits, target, t
<1>4. t \in Seq(EntryState)
  <2>1. \A i \in 1..n : [score |-> rs[i].score, tp |-> IF hits(i) /\ ~matched(i) THEN 1 ELSE 0] \in EntryState
    BY <1>1 DEF EntryState
  <2>. QED
    BY <1>1, <1>2, <2>1, SeqDef
<1>5. Len(t) = n
  <2>1. DOMAIN t = 1..n
    BY <1>2
  <2>. QED
    BY <1>1, <1>4, <2>1, LenProperties
<1>6. {j \in 1..n : t[j].tp = 1} = T
  BY <1>2
<1>7. IsFiniteSet(T)
  BY <1>1, PlacesAreFinite
<1>8. IsFiniteSet(Found(rs, gt)) /\ Cardinality(Found(rs, gt)) = Cardinality(T)
  <2>1. f \in [T -> Found(rs, gt)]
    BY <1>3
  <2>2. ASSUME NEW i \in T, NEW j \in T, target(i) = target(j) PROVE i = j
    <3>1. i \in Nat /\ j \in Nat /\ hits(i) /\ hits(j) /\ ~matched(i) /\ ~matched(j)
      BY <1>1
    <3>2. CASE i < j
      <4>1. i \in 1..j - 1
        BY <2>2, <3>2, <1>1
      <4>. QED
        BY <2>2, <3>1, <4>1
    <3>3. CASE j < i
      <4>1. j \in 1..i - 1
        BY <2>2, <3>3, <1>1
      <4>. QED
        BY <2>2, <3>1, <4>1
    <3>. QED
      BY <3>1, <3>2, <3>3
  <2>3. ASSUME NEW v \in Found(rs, gt) PROVE \E j \in T : target(j) = v
    <3>. DEFINE I == {j \in 1..n : hits(j) /\ target(j) = v}
    <3>1. I \in SUBSET Nat /\ I # {}
      BY <1>1, <1>3
    <3>. HIDE DEF I
    <3>2. PICK i \in I : \A j \in I : i <= j
      BY <3>1, Smallest
    <3>3. i \in 1..n /\ hits(i) /\ target(i) = v
      BY DEF I
    <3>4. ~matched(i)
      <4>. SUFFICES ASSUME NEW h \in 1..i - 1, hits(h), target(h) = target(i) PROVE FALSE
        OBVIOUS
      <4>1. h \in 1..n /\ h < i
        BY <1>1, <3>3
      <4>2. h \in I
        BY <3>3, <4>1 DEF I
      <4>. QED
        BY <1>1, <3>2, <3>3, <4>1, <4>2
    <3>. QED
      BY <3>3, <3>4
  <2>4. \A i, j \in T : f[i] = f[j] => i = j
    BY <2>2
  <2>5. \A v \in Found(rs, gt) : \E j \in T : f[j] = v
    BY <2>3
  <2>. HIDE DEF f, T
  <2>. QED
    BY <1>7, <2>1, <2>4, <2>5, OneForOne
<1>. QED
  BY <1>4, <1>5, <1>6, <1>8 DEF TpCum, t
-------------------------------------------------------------------------------
\* The network's output: heat in the cells, and a pair of lengths in each.
PairsLike(p) == \A c \in Cells(Side) : PairAt(p, c) \in Int \X Int

HeadsLike(h) ==
    /\ DOMAIN h.hm \subseteq Classes
    /\ \A cls \in DOMAIN h.hm : h.hm[cls] \in HeatMaps(Side)
    /\ PairsLike(h.wh) /\ PairsLike(h.offset)

\* A row of a decoder.
RowState == [cls : Classes, score : Int, box : BoxState, cell : Cells(Side)]

\* All that evaluate has at hand is typed, the accumulators too.
AccumulatorsTyped == scores \in [Classes -> Seq(EntryState)] /\ nGt \in [Classes -> Nat]

LoopTyped == DataTyped /\ HeadsLike(heads) /\ rows \in Seq(RowState) /\ AccumulatorsTyped

\* No output is an output.
LEMMA NoHeadsTyped == HeadsLike(NoHeads)
<1>1. DOMAIN NoHeads.hm = {} /\ DOMAIN NoHeads.wh = {} /\ DOMAIN NoHeads.offset = {}
  BY DEF NoHeads
<1>2. PairsLike(NoHeads.wh) /\ PairsLike(NoHeads.offset)
  BY <1>1 DEF PairsLike, PairAt
<1>. QED
  BY <1>1, <1>2 DEF HeadsLike

\* One more cell with heat.
LEMMA WithIs ==
    ASSUME NEW heat \in HeatMaps(Side), NEW c \in Cells(Side), NEW v \in Int
    PROVE  With(heat, c, v) \in HeatMaps(Side)
<1>. DEFINE D == DOMAIN heat \cup {c}
<1>1. D \in SUBSET Cells(Side) /\ \A d \in DOMAIN heat : heat[d] \in Int
  BY DEF HeatMaps
<1>2. With(heat, c, v) \in [D -> Int]
  BY <1>1 DEF With
<1>. QED
  BY <1>1, <1>2 DEF HeatMaps

\* One cell without.
LEMMA BlankIs ==
    ASSUME NEW D, NEW heat \in [D -> Int], NEW c
    PROVE  [heat EXCEPT ![c] = 0] \in [D -> Int]
<1>1. [heat EXCEPT ![c] = 0] = [d \in D |-> IF d = c THEN 0 ELSE heat[d]]
  <2>1. DOMAIN heat = D
    OBVIOUS
  <2>. QED
    BY <2>1, Zenon
<1>2. \A d \in D : (IF d = c THEN 0 ELSE heat[d]) \in Int
  OBVIOUS
<1>. QED
  BY <1>1, <1>2

\* Every network the model considers has such an output.
LEMMA PredictIs ==
    ASSUME TargetsLike(targets), Predict
    PROVE  HeadsLike(heads')
<1>1. PICK f \in Showings :
        \/ heads' = Ideal(f)
        \/ \E cls \in Classes, c \in Centers : heads' = [Ideal(f) EXCEPT !.hm[cls][c] = 0]
        \/ \E g \in Ghosts :
              heads' = [Ideal(f) EXCEPT !.hm[g.cls] = With(@, g.cell, Greater(HeatAt(@, g.cell), g.score)),
                                        !.wh = With(@, g.cell, g.wh)]
  BY DEF Predict
<1>. DEFINE h == Ideal(f)
<1>2. /\ DOMAIN h.hm \subseteq Classes
      /\ \A cls \in DOMAIN h.hm : h.hm[cls] \in HeatMaps(Side)
  BY DEF Ideal, TargetsLike
<1>3. h = [hm |-> h.hm, wh |-> h.wh, offset |-> h.offset]
  BY DEF Ideal
<1>4. PairsLike(h.wh) /\ PairsLike(h.offset)
  <2>1. ASSUME NEW c \in Centers
        PROVE  targets.slot[f[c]].wh \in Int \X Int /\ targets.slot[f[c]].offset \in Int \X Int
    <3>1. f[c] \in DOMAIN targets.slot
      BY DEF Showings
    <3>2. targets.slot[f[c]] \in SlotState(Side)
      BY <3>1 DEF TargetsLike
    <3>. QED
      BY <3>2 DEF SlotState
  <2>. QED
    BY <2>1 DEF Ideal, PairsLike, PairAt
<1>. HIDE DEF h
<1>5. CASE heads' = h
  BY <1>2, <1>4, <1>5 DEF HeadsLike
<1>6. ASSUME NEW cls \in Classes, NEW c \in Centers, heads' = [h EXCEPT !.hm[cls][c] = 0]
      PROVE  HeadsLike(heads')
  <2>1. heads'.hm = [h.hm EXCEPT ![cls] = [@ EXCEPT ![c] = 0]] /\ heads'.wh = h.wh /\ heads'.offset = h.offset
    BY <1>3, <1>6
  <2>2. ASSUME NEW heat \in HeatMaps(Side) PROVE [heat EXCEPT ![c] = 0] \in HeatMaps(Side)
    <3>1. PICK D \in SUBSET Cells(Side) : heat \in [D -> Int]
      BY DEF HeatMaps
    <3>2. [heat EXCEPT ![c] = 0] \in [D -> Int]
      BY <3>1, BlankIs
    <3>. QED
      BY <3>1, <3>2 DEF HeatMaps
  <2>3. /\ DOMAIN heads'.hm = DOMAIN h.hm
        /\ \A d \in DOMAIN h.hm : heads'.hm[d] = h.hm[d] \/ heads'.hm[d] = [h.hm[d] EXCEPT ![c] = 0]
    BY <2>1
  <2>. QED
    BY <1>2, <1>4, <2>1, <2>2, <2>3 DEF HeadsLike
<1>7. ASSUME NEW g \in Ghosts,
             heads' = [h EXCEPT !.hm[g.cls] = With(@, g.cell, Greater(HeatAt(@, g.cell), g.score)),
                                !.wh = With(@, g.cell, g.wh)]
      PROVE  HeadsLike(heads')
  <2>. DEFINE spot(heat) == With(heat, g.cell, Greater(HeatAt(heat, g.cell), g.score))
  <2>1. g.cell \in Cells(Side) /\ g.score \in Nat /\ g.wh \in Int \X Int
    BY EvaluationAssumption, SideIs
  <2>2. /\ heads'.hm = [h.hm EXCEPT ![g.cls] = spot(h.hm[g.cls])]
        /\ heads'.wh = With(h.wh, g.cell, g.wh) /\ heads'.offset = h.offset
    BY <1>3, <1>7
  <2>3. ASSUME NEW heat \in HeatMaps(Side) PROVE spot(heat) \in HeatMaps(Side)
    <3>1. HeatAt(heat, g.cell) \in Int
      BY DEF HeatAt, HeatMaps
    <3>2. Greater(HeatAt(heat, g.cell), g.score) \in Int
      BY <2>1, <3>1 DEF Greater
    <3>. QED
      BY <2>1, <3>2, WithIs
  <2>. HIDE DEF spot
  <2>4. /\ DOMAIN heads'.hm = DOMAIN h.hm
        /\ \A d \in DOMAIN h.hm : heads'.hm[d] = h.hm[d] \/ heads'.hm[d] = spot(h.hm[d])
    BY <2>2
  <2>5. PairsLike(heads'.wh)
    <3>1. ASSUME NEW c \in Cells(Side) PROVE PairAt(With(h.wh, g.cell, g.wh), c) \in Int \X Int
      <4>1. PairAt(h.wh, c) \in Int \X Int
        BY <1>4 DEF PairsLike
      <4>2. CASE c = g.cell
        BY <2>1, <4>2 DEF With, PairAt
      <4>3. CASE c # g.cell
        BY <4>1, <4>3 DEF With, PairAt
      <4>. QED
        BY <4>2, <4>3
    <3>. QED
      BY <2>2, <3>1 DEF PairsLike
  <2>. QED
    BY <1>2, <1>4, <2>2, <2>3, <2>4, <2>5 DEF HeadsLike
<1>. QED
  BY <1>1, <1>5, <1>6, <1>7, Zenon DEF h

\* The peaks of such an output are finitely many rows.
LEMMA PeakRowsAre ==
    ASSUME NEW h, HeadsLike(h), NEW around
    PROVE  LET rs == PeakRows(h, Side, around)
           IN  IsFiniteSet(rs) /\ rs \subseteq RowState
<1>. DEFINE rs == PeakRows(h, Side, around)
            P == Classes \X Cells(Side)
            F == [p \in P |-> RowAt(h, p[1], p[2])]
<1>1. Side \in Nat \ {0} /\ NumClasses \in Nat
  BY SideIs, DecodeAssumption
<1>2. ASSUME NEW r \in rs
      PROVE  \E cls \in Classes : \E c \in Cells(Side) :
                r = RowAt(h, cls, c) /\ h.hm[cls][c] \in Int
  <2>1. PICK cls \in DOMAIN h.hm : \E c \in DOMAIN h.hm[cls] : r = RowAt(h, cls, c)
    BY DEF PeakRows
  <2>2. PICK c \in DOMAIN h.hm[cls] : r = RowAt(h, cls, c)
    BY <2>1
  <2>3. cls \in Classes /\ h.hm[cls] \in HeatMaps(Side)
    BY DEF HeadsLike
  <2>4. c \in Cells(Side) /\ h.hm[cls][c] \in Int
    BY <2>2, <2>3 DEF HeatMaps
  <2>. QED
    BY <2>2, <2>3, <2>4
<1>3. rs \subseteq RowState
  <2>. SUFFICES ASSUME NEW r \in rs PROVE r \in RowState
    OBVIOUS
  <2>1. PICK cls \in Classes : \E c \in Cells(Side) : r = RowAt(h, cls, c) /\ h.hm[cls][c] \in Int
    BY <1>2
  <2>2. PICK c \in Cells(Side) : r = RowAt(h, cls, c) /\ h.hm[cls][c] \in Int
    BY <2>1
  <2>3. PairAt(h.wh, c) \in Int \X Int /\ PairAt(h.offset, c) \in Int \X Int /\ c[1] \in Int /\ c[2] \in Int
    BY DEF HeadsLike, PairsLike, Cells
  <2>4. BoxAt(h, c) \in BoxState
    BY <2>3, BoxAtIs
  <2>. QED
    BY <2>2, <2>4 DEF RowAt, RowState
<1>4. IsFiniteSet(P)
  <2>1. IsFiniteSet(0..NumClasses - 1) /\ IsFiniteSet(0..Side - 1)
    BY <1>1, FS_Interval
  <2>2. IsFiniteSet(Cells(Side))
    BY <2>1, FS_Product DEF Cells
  <2>. QED
    BY <2>1, <2>2, FS_Product DEF Classes
<1>5. F \in Surjection(P, Range(F))
  BY DEF Surjection, Range
<1>6. IsFiniteSet(Range(F))
  <2>. HIDE DEF F, P
  <2>. QED
    BY <1>4, <1>5, FS_Surjection
<1>7. rs \subseteq Range(F)
  <2>. SUFFICES ASSUME NEW r \in rs PROVE r \in Range(F)
    OBVIOUS
  <2>1. PICK cls \in Classes : \E c \in Cells(Side) : r = RowAt(h, cls, c)
    BY <1>2
  <2>2. PICK c \in Cells(Side) : r = RowAt(h, cls, c)
    BY <2>1
  <2>3. <<cls, c>> \in P /\ F[<<cls, c>>] = r
    BY <2>2
  <2>. QED
    BY <2>3 DEF Range
<1>8. IsFiniteSet(rs)
  BY <1>6, <1>7, FS_Subset
<1>. QED
  BY <1>3, <1>8

\* What decode_detections gives is rows.
LEMMA DecodedIs == ASSUME HeadsLike(heads), DecodeImage PROVE rows' \in Seq(RowState)
<1>. DEFINE peaks == PeakRows(heads, HeadSide(Size), Padded(HeadSide(Size)))
            found(ranking) == DecodeTorch(ranking, TopK, Threshold, NmsNum, NmsDen)
<1>1. PICK ranking \in Rankings(peaks) : rows' = [i \in 1..Len(found(ranking)) |-> InPixels(found(ranking)[i])]
  BY DEF DecodeImage
<1>2. IsFiniteSet(peaks) /\ peaks \subseteq RowState
  BY SideIs, PeakRowsAre
<1>. HIDE DEF peaks
<1>3. RowsTyped(peaks)
  BY <1>2 DEF RowsTyped, RowState
<1>4. TopK \in Nat /\ Threshold \in Int
  BY DecodeAssumption, EvaluationAssumption
<1>5. found(ranking) \in Seq(peaks)
  BY <1>2, <1>3, <1>4, DecodeTorchIs
<1>. DEFINE t == found(ranking)
<1>. HIDE DEF found
<1>6. Len(t) \in Nat /\ \A i \in 1..Len(t) : t[i] \in RowState
  BY <1>2, <1>5, LenProperties, ElementOfSeq
<1>. HIDE DEF t
<1>7. ASSUME NEW r \in RowState PROVE InPixels(r) \in RowState
  <2>1. /\ r.box.x1 \div 2 \in Int /\ r.box.y1 \div 2 \in Int
        /\ r.box.x2 \div 2 \in Int /\ r.box.y2 \div 2 \in Int
    BY DEF RowState, BoxState
  <2>. QED
    BY <2>1 DEF InPixels, Box, RowState, BoxState
<1>8. rows' = [i \in 1..Len(t) |-> InPixels(t[i])]
  BY <1>1 DEF t
<1>. QED
  BY <1>6, <1>7, <1>8, SeqDef

\* The rows of a class are rows, and the objects of a class objects.
LEMMA OfClassIs ==
    ASSUME NEW c
    PROVE  /\ rows \in Seq(RowState) => OfClass(rows, c) \in Seq(RowState)
           /\ objects \in Seq(ObjectState) => OfClassIn(objects, c) \in Seq(ObjectState)
BY OnlyIs DEF OfClass, OfClassIn

\* update only appends.
LEMMA UpdateIs ==
    ASSUME LoopTyped, Update
    PROVE  /\ AccumulatorsTyped'
           /\ \A c \in Classes :
                LET mine == OfClass(rows, c)
                    gt == OfClassIn(objects, c)
                IN  /\ TpCum(scores'[c], Len(scores'[c]))
                          = TpCum(scores[c], Len(scores[c])) + Cardinality(Found(mine, gt))
                    /\ TpCum(scores[c], Len(scores[c])) \in Nat
                    /\ IsFiniteSet(Found(mine, gt))
                    /\ nGt'[c] = nGt[c] + Len(gt)
<1>1. ASSUME NEW c \in Classes
      PROVE  LET mine == OfClass(rows, c)
                 gt == OfClassIn(objects, c)
                 new == Matches(mine, gt)
             IN  /\ gt \in Seq(ObjectState) /\ new \in Seq(EntryState) /\ IsFiniteSet(Found(mine, gt))
                 /\ TpCum(new, Len(new)) = Cardinality(Found(mine, gt))
                 /\ TpCum(scores[c] \o new, Len(scores[c] \o new))
                      = TpCum(scores[c], Len(scores[c])) + TpCum(new, Len(new))
                 /\ TpCum(scores[c], Len(scores[c])) \in Nat
  <2>. DEFINE mine == OfClass(rows, c)
              gt == OfClassIn(objects, c)
              new == Matches(mine, gt)
  <2>1. mine \in Seq(RowState) /\ gt \in Seq(ObjectState)
    BY OfClassIs DEF LoopTyped, DataTyped, ObjectsTyped
  <2>2. \A r \in RowState : r.score \in Int
    BY DEF RowState
  <2>. HIDE DEF mine, gt
  <2>3. /\ new \in Seq(EntryState) /\ IsFiniteSet(Found(mine, gt))
        /\ TpCum(new, Len(new)) = Cardinality(Found(mine, gt))
    BY <2>1, <2>2, MatchesIs
  <2>. HIDE DEF new
  <2>4. scores[c] \in Seq(EntryState)
    BY DEF LoopTyped, AccumulatorsTyped
  <2>5. TpCum(scores[c] \o new, Len(scores[c] \o new)) = TpCum(scores[c], Len(scores[c])) + TpCum(new, Len(new))
    BY <2>3, <2>4, HitsAddUp
  <2>6. TpCum(scores[c], Len(scores[c])) \in Nat
    <3>1. Len(scores[c]) \in Nat
      BY <2>4, LenProperties
    <3>. QED
      BY <3>1, PlacesAreFinite DEF TpCum
  <2>. QED
    BY <2>1, <2>3, <2>5, <2>6 DEF mine, gt, new
<1>2. /\ scores' = [c \in Classes |-> scores[c] \o Matches(OfClass(rows, c), OfClassIn(objects, c))]
      /\ nGt' = [c \in Classes |-> nGt[c] + Len(OfClassIn(objects, c))]
  BY DEF Update
<1>3. AccumulatorsTyped'
  <2>1. ASSUME NEW c \in Classes
        PROVE  /\ scores[c] \o Matches(OfClass(rows, c), OfClassIn(objects, c)) \in Seq(EntryState)
               /\ nGt[c] + Len(OfClassIn(objects, c)) \in Nat
    <3>1. scores[c] \in Seq(EntryState) /\ nGt[c] \in Nat
      BY DEF LoopTyped, AccumulatorsTyped
    <3>2. Len(OfClassIn(objects, c)) \in Nat
      BY <1>1, LenProperties
    <3>. QED
      BY <1>1, <3>1, <3>2, ConcatIs
  <2>. QED
    BY <1>2, <2>1 DEF AccumulatorsTyped
<1>4. ASSUME NEW c \in Classes
      PROVE  /\ scores'[c] = scores[c] \o Matches(OfClass(rows, c), OfClassIn(objects, c))
             /\ nGt'[c] = nGt[c] + Len(OfClassIn(objects, c))
  BY <1>2
<1>. QED
  BY <1>1, <1>3, <1>4

\* Every step keeps the loop typed.
LEMMA LoopNext == LoopTyped /\ [EvalNext]_evalVars => LoopTyped'
<1>. SUFFICES ASSUME LoopTyped, [EvalNext]_evalVars PROVE LoopTyped'
  OBVIOUS
<1>1. DataTyped'
  BY DataNext DEF LoopTyped
<1>2. ASSUME UNCHANGED <<scores, nGt>> PROVE AccumulatorsTyped'
  BY <1>2 DEF LoopTyped, AccumulatorsTyped
<1>3. CASE Predict
  <2>1. HeadsLike(heads')
    BY <1>3, PredictIs DEF LoopTyped, DataTyped
  <2>. QED
    BY <1>1, <1>2, <1>3, <2>1 DEF Predict, LoopTyped
<1>4. CASE DecodeImage
  <2>1. rows' \in Seq(RowState)
    BY <1>4, DecodedIs DEF LoopTyped
  <2>. QED
    BY <1>1, <1>2, <1>4, <2>1 DEF DecodeImage, LoopTyped
<1>5. CASE Update
  <2>1. heads' = NoHeads /\ rows' = << >>
    BY <1>5 DEF Update
  <2>2. << >> \in Seq(RowState)
    BY EmptySeq
  <2>3. AccumulatorsTyped'
    BY <1>5, UpdateIs
  <2>. QED
    BY <1>1, <2>1, <2>2, <2>3, NoHeadsTyped DEF LoopTyped
<1>6. CASE RenderShapes \/ ReadAnnotated \/ Augment \/ Encode \/ Compute \/ UNCHANGED evalVars
  <2>1. UNCHANGED <<heads, rows, scores, nGt>>
    BY <1>6, StepsLeave
  <2>. QED
    BY <1>1, <1>2, <2>1 DEF LoopTyped
<1>. QED
  BY <1>3, <1>4, <1>5, <1>6 DEF EvalNext

\* At the start it is.
LEMMA LoopInit == EvalInit => LoopTyped
<1>. SUFFICES ASSUME EvalInit PROVE LoopTyped
  OBVIOUS
<1>1. << >> \in Seq(RowState) /\ << >> \in Seq(EntryState)
  BY EmptySeq
<1>2. DataTyped /\ HeadsLike(heads)
  BY DataInit, NoHeadsTyped DEF EvalInit
<1>. QED
  BY <1>1, <1>2 DEF EvalInit, LoopTyped, AccumulatorsTyped

\* So it is in every state.
LEMMA LoopHolds == EvalSpec => []LoopTyped
BY LoopInit, LoopNext, PTL DEF EvalSpec

\* update counts each object at most once: what an image adds to the true
\* positives of a class is the number of its objects that were found, however
\* many rows found the same one.
THEOREM FoundOnce == EvalSpec => ObjectsFoundOnce
<1>. DEFINE Counted ==
        pc = "update" => \A c \in Classes :
            LET mine == OfClass(rows, c)
                gt == OfClassIn(objects, c)
                found == {Nearest(mine[i].box, gt) : i \in {j \in 1..Len(mine) : Hits(mine[j].box, gt)}}
            IN TpCum(scores'[c], Len(scores'[c])) - TpCum(scores[c], Len(scores[c])) = Cardinality(found)
<1>1. LoopTyped /\ [EvalNext]_evalVars => [Counted]_evalVars
  <2>. SUFFICES ASSUME LoopTyped, EvalNext, pc = "update" PROVE Counted
    BY DEF Counted
  <2>1. Update
    BY DEF EvalNext, RenderShapes, ReadAnnotated, Augment, Encode, Predict, DecodeImage, Compute
  <2>2. ASSUME NEW c \in Classes
        PROVE  TpCum(scores'[c], Len(scores'[c])) - TpCum(scores[c], Len(scores[c]))
                 = Cardinality(Found(OfClass(rows, c), OfClassIn(objects, c)))
    <3>1. /\ TpCum(scores'[c], Len(scores'[c]))
                = TpCum(scores[c], Len(scores[c])) + Cardinality(Found(OfClass(rows, c), OfClassIn(objects, c)))
          /\ TpCum(scores[c], Len(scores[c])) \in Nat
          /\ IsFiniteSet(Found(OfClass(rows, c), OfClassIn(objects, c)))
      BY <2>1, UpdateIs
    <3>2. Cardinality(Found(OfClass(rows, c), OfClassIn(objects, c))) \in Nat
      BY <3>1, FS_CardinalityType
    <3>. QED
      BY <3>1, <3>2
  <2>. QED
    BY <2>2, Zenon DEF Found, Counted
<1>. QED
  BY <1>1, LoopHolds, PTL DEF EvalSpec, ObjectsFoundOnce
-------------------------------------------------------------------------------
\* Being nearer to a box is an order of the others: every two compare, and it
\* carries over.
LEMMA NearerIs ==
    ASSUME NEW a \in BoxState, NEW b \in BoxState, NEW c \in BoxState
    PROVE  /\ Nearer(a, b, c) \/ Nearer(a, c, b)
           /\ \A d \in BoxState : Nearer(a, b, c) /\ Nearer(a, c, d) => Nearer(a, b, d)
<1>1. ASSUME NEW x \in BoxState
      PROVE  /\ Intersection(a, x) \in Nat /\ Union(a, x) \in Nat
             /\ Area(a) = 0 => Intersection(a, x) = 0
             /\ Area(a) # 0 => Union(a, x) # 0
  BY AreasAre DEF Union
<1>2. Nearer(a, b, c) \/ Nearer(a, c, b)
  <2>1. Intersection(a, b) * Union(a, c) \in Int /\ Intersection(a, c) * Union(a, b) \in Int
    BY <1>1
  <2>. QED
    BY <2>1 DEF Nearer
<1>3. ASSUME NEW d \in BoxState, Nearer(a, b, c), Nearer(a, c, d) PROVE Nearer(a, b, d)
  <2>. DEFINE ib == Intersection(a, b)
              ic == Intersection(a, c)
              id == Intersection(a, d)
              ub == Union(a, b)
              uc == Union(a, c)
              ud == Union(a, d)
  <2>1. ib \in Nat /\ ic \in Nat /\ id \in Nat /\ ub \in Nat /\ uc \in Nat /\ ud \in Nat
    BY <1>1
  <2>2. ib * uc >= ic * ub /\ ic * ud >= id * uc
    BY <1>3 DEF Nearer
  <2>3. CASE Area(a) = 0
    <3>1. ib = 0 /\ id = 0
      BY <1>1, <2>3
    <3>. HIDE DEF ib, id, ub, ud
    <3>2. ib * ud >= id * ub
      BY <2>1, <3>1
    <3>. QED
      BY <3>2 DEF Nearer, ib, id, ub, ud
  <2>4. CASE Area(a) # 0
    <3>1. uc # 0
      BY <1>1, <2>4
    <3>. HIDE DEF ib, ic, id, ub, uc, ud
    <3>2. ud * (ic * ub) <= ud * (ib * uc) /\ ub * (id * uc) <= ub * (ic * ud)
      <4>1. ic * ub \in Int /\ ib * uc \in Int /\ id * uc \in Int /\ ic * ud \in Int
        BY <2>1
      <4>2. ic * ub <= ib * uc /\ id * uc <= ic * ud
        BY <2>2, <4>1
      <4>. QED
        BY <2>1, <4>1, <4>2, TimesIsMonotone
    <3>3. /\ ud * (ic * ub) = ub * (ic * ud)
          /\ ud * (ib * uc) = uc * (ib * ud) /\ ub * (id * uc) = uc * (id * ub)
      BY <2>1
    <3>4. uc * (id * ub) <= uc * (ib * ud)
      <4>1. uc * (id * ub) \in Int /\ uc * (ib * ud) \in Int /\ ub * (ic * ud) \in Int
        BY <2>1
      <4>. QED
        BY <3>2, <3>3, <4>1
    <3>5. id * ub <= ib * ud
      <4>1. id * ub \in Int /\ ib * ud \in Int
        BY <2>1
      <4>. QED
        BY <2>1, <3>1, <3>4, <4>1, FactorsCancel
    <3>6. id * ub \in Int /\ ib * ud \in Int
      BY <2>1
    <3>. QED
      BY <3>5, <3>6 DEF Nearer, ib, id, ub, ud
  <2>. QED
    BY <2>3, <2>4
<1>. QED
  BY <1>2, <1>3

\* Of finitely many things in such an order there is a first best one.
LEMMA FirstBest ==
    ASSUME NEW n \in Nat \ {0}, NEW R,
           \A i, j \in 1..n : <<i, j>> \in R \/ <<j, i>> \in R,
           \A i, j, k \in 1..n : <<i, j>> \in R /\ <<j, k>> \in R => <<i, k>> \in R
    PROVE  \E j \in 1..n : /\ \A i \in 1..n : <<j, i>> \in R
                           /\ \A i \in 1..j - 1 : <<i, j>> \notin R
<1>. DEFINE P == {m \in Nat : m + 1 <= n => \E j \in 1..m + 1 : \A i \in 1..m + 1 : <<j, i>> \in R}
<1>1. 0 \in P
  <2>1. 1 \in 1..n /\ <<1, 1>> \in R
    OBVIOUS
  <2>2. \A i \in 1..0 + 1 : <<1, i>> \in R
    BY <2>1
  <2>. QED
    BY <2>2
<1>2. ASSUME NEW m \in Nat, m \in P PROVE m + 1 \in P
  <2>. SUFFICES ASSUME (m + 1) + 1 <= n
                PROVE  \E j \in 1..(m + 1) + 1 : \A i \in 1..(m + 1) + 1 : <<j, i>> \in R
    OBVIOUS
  <2>1. PICK j \in 1..m + 1 : \A i \in 1..m + 1 : <<j, i>> \in R
    BY <1>2
  <2>. DEFINE k == (m + 1) + 1
  <2>2. k \in 1..n /\ j \in 1..n /\ j \in 1..k /\ \A i \in 1..k : i = k \/ i \in 1..m + 1
    OBVIOUS
  <2>3. \A i \in 1..k : i \in 1..n
    OBVIOUS
  <2>. HIDE DEF k
  <2>4. CASE <<j, k>> \in R
    BY <2>1, <2>2, <2>4 DEF k
  <2>5. CASE <<j, k>> \notin R
    <3>1. <<k, j>> \in R /\ <<k, k>> \in R
      BY <2>2, <2>5
    <3>2. \A i \in 1..k : <<k, i>> \in R
      BY <2>1, <2>2, <2>3, <3>1
    <3>3. k \in 1..k
      BY <2>2
    <3>. QED
      BY <3>2, <3>3 DEF k
  <2>. QED
    BY <2>4, <2>5
<1>3. Nat \subseteq P
  <2>. HIDE DEF P
  <2>. QED
    BY <1>1, <1>2, SetInduction
<1>. DEFINE M == {j \in 1..n : \A i \in 1..n : <<j, i>> \in R}
<1>4. M \in SUBSET Nat /\ M # {}
  <2>1. n - 1 \in Nat /\ (n - 1) + 1 = n
    OBVIOUS
  <2>2. n - 1 \in P
    <3>. HIDE DEF P
    <3>. QED
      BY <1>3, <2>1
  <2>. QED
    BY <2>1, <2>2
<1>5. PICK j \in M : \A i \in M : j <= i
  <2>. HIDE DEF M
  <2>. QED
    BY <1>4, Smallest
<1>6. ASSUME NEW i \in 1..j - 1, <<i, j>> \in R PROVE FALSE
  <2>1. i \in 1..n /\ i < j
    OBVIOUS
  <2>2. \A k \in 1..n : <<i, k>> \in R
    BY <1>6, <2>1
  <2>. QED
    BY <1>5, <2>1, <2>2
<1>. QED
  BY <1>6

\* argmax: there is a nearest object, if there is one at all.
LEMMA NearestIs ==
    ASSUME NEW box \in BoxState, NEW gt \in Seq(ObjectState), gt # << >>
    PROVE  /\ Nearest(box, gt) \in 1..Len(gt)
           /\ \A i \in 1..Len(gt) : Nearer(box, gt[Nearest(box, gt)].box, gt[i].box)
<1>. DEFINE n == Len(gt)
            R == {p \in (1..n) \X (1..n) : Nearer(box, gt[p[1]].box, gt[p[2]].box)}
<1>1. n \in Nat \ {0} /\ \A i \in 1..n : gt[i].box \in BoxState
  <2>1. n \in Nat /\ n # 0
    BY LenProperties, EmptySeq
  <2>2. \A i \in 1..n : gt[i] \in ObjectState
    BY ElementOfSeq
  <2>. QED
    BY <2>1, <2>2 DEF ObjectState
<1>. HIDE DEF n
<1>2. \A i, j \in 1..n : <<i, j>> \in R <=> Nearer(box, gt[i].box, gt[j].box)
  OBVIOUS
<1>3. \A i, j \in 1..n : <<i, j>> \in R \/ <<j, i>> \in R
  BY <1>1, <1>2, NearerIs
<1>4. \A i, j, k \in 1..n : <<i, j>> \in R /\ <<j, k>> \in R => <<i, k>> \in R
  BY <1>1, <1>2, NearerIs
<1>. HIDE DEF R
<1>5. PICK j \in 1..n : (\A i \in 1..n : <<j, i>> \in R) /\ (\A i \in 1..j - 1 : <<i, j>> \notin R)
  BY <1>1, <1>3, <1>4, FirstBest
<1>6. /\ \A i \in 1..n : Nearer(box, gt[j].box, gt[i].box)
      /\ \A i \in 1..j - 1 : ~Nearer(box, gt[i].box, gt[j].box)
  <2>1. \A i \in 1..j - 1 : i \in 1..n
    BY <1>1
  <2>. QED
    BY <1>2, <1>5, <2>1
<1>. QED
  BY <1>6, Zenon DEF Nearest, n

\* What was found is there.
LEMMA FoundIsThere ==
    ASSUME NEW rs \in Seq(RowState), NEW gt \in Seq(ObjectState)
    PROVE  IsFiniteSet(Found(rs, gt)) /\ Cardinality(Found(rs, gt)) \in 0..Len(gt)
<1>1. ASSUME NEW i \in 1..Len(rs), Hits(rs[i].box, gt) PROVE Nearest(rs[i].box, gt) \in 1..Len(gt)
  <2>1. rs[i] \in RowState
    BY ElementOfSeq
  <2>. QED
    BY <1>1, <2>1, NearestIs DEF Hits, RowState
<1>2. Found(rs, gt) \in SUBSET (1..Len(gt))
  BY <1>1 DEF Found
<1>. QED
  BY <1>2, PlacesAreFinite, LenProperties

\* No class ever has more true positives than objects.
NoneInvented == \A c \in Classes : TpCum(scores[c], Len(scores[c])) <= nGt[c]

\* Only update changes either number, and it adds found objects to the one and
\* all objects to the other.
LEMMA NoneInventedNext == LoopTyped /\ NoneInvented /\ [EvalNext]_evalVars => NoneInvented'
<1>. SUFFICES ASSUME LoopTyped, NoneInvented, [EvalNext]_evalVars PROVE NoneInvented'
  OBVIOUS
<1>1. CASE Update
  <2>. SUFFICES ASSUME NEW c \in Classes PROVE TpCum(scores'[c], Len(scores'[c])) <= nGt'[c]
    BY DEF NoneInvented
  <2>. DEFINE mine == OfClass(rows, c)
              gt == OfClassIn(objects, c)
  <2>1. mine \in Seq(RowState) /\ gt \in Seq(ObjectState)
    BY OfClassIs DEF LoopTyped, DataTyped, ObjectsTyped
  <2>2. /\ TpCum(scores'[c], Len(scores'[c]))
             = TpCum(scores[c], Len(scores[c])) + Cardinality(Found(mine, gt))
        /\ TpCum(scores[c], Len(scores[c])) \in Nat
        /\ nGt'[c] = nGt[c] + Len(gt)
    BY <1>1, UpdateIs
  <2>. HIDE DEF mine, gt
  <2>3. Cardinality(Found(mine, gt)) \in 0..Len(gt) /\ Len(gt) \in Nat
    BY <2>1, FoundIsThere, LenProperties
  <2>4. nGt[c] \in Nat /\ TpCum(scores[c], Len(scores[c])) <= nGt[c]
    BY DEF LoopTyped, AccumulatorsTyped, NoneInvented
  <2>. QED
    BY <2>2, <2>3, <2>4
<1>2. CASE ~Update
  <2>1. UNCHANGED <<scores, nGt>>
    BY <1>2, StepsLeave DEF EvalNext
  <2>. QED
    BY <2>1 DEF NoneInvented
<1>. QED
  BY <1>1, <1>2

\* At the start there is neither.
LEMMA NoneInventedInit == EvalInit => NoneInvented
<1>. SUFFICES ASSUME EvalInit, NEW c \in Classes PROVE TpCum(scores[c], Len(scores[c])) <= nGt[c]
  BY DEF NoneInvented
<1>1. scores[c] = << >> /\ nGt[c] = 0
  BY DEF EvalInit
<1>2. {j \in 1..Len(<< >>) : << >>[j].tp = 1} = {}
  BY EmptySeq
<1>. QED
  BY <1>1, <1>2, FS_EmptySet DEF TpCum
-------------------------------------------------------------------------------
\* One entry more.
LEMMA TpStep ==
    ASSUME NEW e \in Seq(EntryState)
    PROVE  /\ TpCum(e, 0) = 0
           /\ \A i \in 0..Len(e) : TpCum(e, i) \in Nat /\ TpCum(e, i) <= i
           /\ \A i \in 1..Len(e) : TpCum(e, i) = TpCum(e, i - 1) + e[i].tp
<1>. DEFINE T(i) == {j \in 1..i : e[j].tp = 1}
<1>1. Len(e) \in Nat /\ \A i \in 1..Len(e) : e[i].tp \in {0, 1}
  <2>1. \A i \in 1..Len(e) : e[i] \in EntryState
    BY ElementOfSeq
  <2>. QED
    BY <2>1, LenProperties DEF EntryState
<1>2. ASSUME NEW i \in Nat PROVE IsFiniteSet(T(i)) /\ Cardinality(T(i)) \in Nat /\ Cardinality(T(i)) <= i
  BY PlacesAreFinite
<1>3. T(0) = {}
  OBVIOUS
<1>4. ASSUME NEW i \in 1..Len(e) PROVE Cardinality(T(i)) = Cardinality(T(i - 1)) + e[i].tp
  <2>1. i \in Nat /\ i - 1 \in Nat /\ i \notin 1..i - 1 /\ 1..i = (1..i - 1) \cup {i}
    BY <1>1
  <2>2. CASE e[i].tp = 1
    <3>1. T(i) = T(i - 1) \cup {i} /\ i \notin T(i - 1)
      BY <2>1, <2>2
    <3>2. IsFiniteSet(T(i - 1))
      BY <1>2, <2>1
    <3>. HIDE DEF T
    <3>. QED
      BY <2>2, <3>1, <3>2, FS_AddElement
  <2>3. CASE e[i].tp # 1
    <3>1. T(i) = T(i - 1)
      BY <2>1, <2>3
    <3>2. e[i].tp = 0 /\ Cardinality(T(i - 1)) \in Nat
      BY <1>1, <1>2, <2>1, <2>3
    <3>. HIDE DEF T
    <3>. QED
      BY <3>1, <3>2
  <2>. QED
    BY <2>2, <2>3
<1>5. \A i : TpCum(e, i) = Cardinality(T(i))
  BY DEF TpCum
<1>. HIDE DEF T
<1>. QED
  BY <1>1, <1>2, <1>3, <1>4, <1>5, FS_EmptySet

\* The true positives only grow along the entries.
LEMMA TpGrows ==
    ASSUME NEW e \in Seq(EntryState), NEW i \in 0..Len(e), NEW j \in 0..Len(e), i <= j
    PROVE  TpCum(e, i) <= TpCum(e, j)
<1>. DEFINE A == {k \in 1..i : e[k].tp = 1}
            B == {k \in 1..j : e[k].tp = 1}
<1>1. A \subseteq B /\ j \in Nat
  BY LenProperties
<1>2. IsFiniteSet(B)
  BY <1>1, PlacesAreFinite
<1>. HIDE DEF A, B
<1>3. Cardinality(A) <= Cardinality(B)
  BY <1>1, <1>2, FS_Subset
<1>. QED
  BY <1>3 DEF TpCum, A, B

\* A loop that sums up.
SumsUp(f, n, v) == f = [i \in 0..n |-> IF i = 0 THEN 0 ELSE f[i - 1] + v[i]]

\* Its values are the sums.
LEMMA SumIs ==
    ASSUME NEW n \in Nat, NEW v \in [1..n -> Nat]
    PROVE  LET f == CHOOSE g : SumsUp(g, n, v)
           IN  /\ f[0] = 0
               /\ \A i \in 0..n : f[i] \in Nat
               /\ \A i \in 1..n : f[i] = f[i - 1] + v[i]
<1>. DEFINE f == CHOOSE g : SumsUp(g, n, v)
            step == [p \in (1..n) \X Nat |-> p[2] + v[p[1]]]
<1>1. PICK g : Solution(g, n, Nat, 0, step)
  <2>1. StepOf(step, n, Nat)
    BY DEF StepOf
  <2>. HIDE DEF step
  <2>. QED
    BY <2>1, Recursion
<1>2. g \in [0..n -> Nat] /\ g[0] = 0 /\ \A i \in 1..n : g[i] = step[<<i, g[i - 1]>>]
  BY <1>1 DEF Solution
<1>3. ASSUME NEW i \in 1..n PROVE g[i] = g[i - 1] + v[i]
  <2>1. i - 1 \in 0..n
    OBVIOUS
  <2>2. g[i - 1] \in Nat
    BY <1>2, <2>1
  <2>. QED
    BY <1>2, <2>2
<1>4. g = [i \in 0..n |-> IF i = 0 THEN 0 ELSE g[i - 1] + v[i]]
  <2>1. \A i \in 0..n : i = 0 \/ i \in 1..n
    OBVIOUS
  <2>2. \A i \in 0..n : g[i] = IF i = 0 THEN 0 ELSE g[i - 1] + v[i]
    BY <1>2, <1>3, <2>1, Zenon
  <2>. QED
    BY <1>2, <2>2
<1>5. f = [i \in 0..n |-> IF i = 0 THEN 0 ELSE f[i - 1] + v[i]]
  <2>1. SumsUp(g, n, v)
    BY <1>4, Zenon DEF SumsUp
  <2>2. SumsUp(f, n, v)
    BY <2>1, Zenon
  <2>. HIDE DEF f
  <2>. QED
    BY <2>2, Zenon DEF SumsUp
<1>. HIDE DEF f
<1>6. f[0] = 0 /\ \A i \in 1..n : f[i] = f[i - 1] + v[i]
  <2>1. 0 \in 0..n /\ \A i \in 1..n : i \in 0..n /\ i # 0
    OBVIOUS
  <2>. QED
    BY <1>5, <2>1, Zenon
<1>. DEFINE P == {i \in Nat : i <= n => f[i] \in Nat}
<1>7. 0 \in P
  BY <1>6
<1>8. ASSUME NEW i \in Nat, i \in P PROVE i + 1 \in P
  <2>. SUFFICES ASSUME i + 1 <= n PROVE f[i + 1] \in Nat
    OBVIOUS
  <2>1. i + 1 \in 1..n /\ (i + 1) - 1 = i /\ f[i] \in Nat
    BY <1>8
  <2>2. f[i + 1] = f[i] + v[i + 1] /\ v[i + 1] \in Nat
    BY <1>6, <2>1
  <2>. QED
    BY <2>1, <2>2
<1>9. Nat \subseteq P
  <2>. HIDE DEF P
  <2>. QED
    BY <1>7, <1>8, SetInduction
<1>. QED
  BY <1>6, <1>9 DEF f

\* The largest of some numbers.
LEMMA MaxOf ==
    ASSUME NEW S \in SUBSET Int, NEW x \in S, \A y \in S : x >= y
    PROVE  Max(S) = x
<1>1. Max(S) \in S /\ \A y \in S : Max(S) >= y
  <2>1. \E z \in S : \A y \in S : z >= y
    OBVIOUS
  <2>. QED
    BY <2>1 DEF Max
<1>. DEFINE m == Max(S)
<1>2. m \in S /\ m >= x
  BY <1>1
<1>. HIDE DEF m
<1>3. m \in Int /\ x \in Int /\ x >= m
  BY <1>2
<1>. QED
  BY <1>2, <1>3 DEF m

\* v is the best precision from the i-th entry on.
BestFrom(v, e, i) ==
    /\ v \in Nat
    /\ \E j \in i..Len(e) : v = Precision(e, j)
    /\ \A j \in i..Len(e) : Precision(e, j) <= v

\* A precision is a number.
LEMMA PrecisionIs ==
    ASSUME NEW e \in Seq(EntryState), NEW i \in 1..Len(e)
    PROVE  Precision(e, i) \in Nat
<1>1. i \in Nat \ {0} /\ i \in 0..Len(e)
  BY LenProperties
<1>2. TpCum(e, i) \in Nat
  BY <1>1, TpStep
<1>3. \A t \in Nat : (60 * t) \div i \in Nat
  BY <1>1
<1>. QED
  BY <1>2, <1>3 DEF Precision, Whole

\* The backward loop: at each place the best precision from there on.
LEMMA EnvelopeIs ==
    ASSUME NEW e \in Seq(EntryState)
    PROVE  \A i \in 1..Len(e) : BestFrom(Envelope(e)[i], e, i)
<1>. DEFINE n == Len(e)
            Loops(g) == g = [i \in 1..n |-> IF i = n THEN Precision(e, i) ELSE Greater(Precision(e, i), g[i + 1])]
            f == CHOOSE g : Loops(g)
            F == [i \in 1..n |-> CHOOSE v : BestFrom(v, e, i)]
<1>1. Envelope(e) = f
  BY Zenon DEF Envelope
<1>2. n \in Nat /\ \A i \in 1..n : Precision(e, i) \in Nat
  BY LenProperties, PrecisionIs
<1>3. n # 0 => BestFrom(Precision(e, n), e, n)
  BY <1>2 DEF BestFrom
<1>4. ASSUME NEW i \in 1..n, i # n, NEW v, BestFrom(v, e, i + 1)
      PROVE  BestFrom(Greater(Precision(e, i), v), e, i)
  <2>. DEFINE p == Precision(e, i)
  <2>1. p \in Nat /\ v \in Nat /\ i + 1 \in 1..n
    BY <1>2, <1>4 DEF BestFrom
  <2>2. PICK j \in i + 1..n : v = Precision(e, j)
    BY <1>4 DEF BestFrom
  <2>3. \A k \in i..n : k = i \/ k \in i + 1..n
    BY <1>2
  <2>4. \A k \in i + 1..n : Precision(e, k) <= v /\ Precision(e, k) \in Nat
    BY <1>2, <1>4 DEF BestFrom
  <2>5. \A k \in i..n : Precision(e, k) <= Greater(p, v)
    <3>1. p <= Greater(p, v) /\ v <= Greater(p, v) /\ Greater(p, v) \in Nat
      BY <2>1 DEF Greater
    <3>. HIDE DEF p
    <3>. QED
      BY <2>1, <2>3, <2>4, <3>1 DEF p
  <2>6. \E k \in i..n : Greater(p, v) = Precision(e, k)
    <3>1. i \in i..n /\ j \in i..n
      BY <1>2, <2>2
    <3>. QED
      BY <2>2, <3>1 DEF Greater
  <2>. QED
    BY <2>1, <2>5, <2>6 DEF BestFrom, Greater
<1>5. ASSUME NEW i \in 1..n, NEW u, NEW v, BestFrom(u, e, i), BestFrom(v, e, i) PROVE u = v
  BY <1>5 DEF BestFrom
<1>. DEFINE Q(g) == {k \in Nat : k < n => BestFrom(g[n - k], e, n - k)}
<1>6. ASSUME NEW g, n # 0 => g[n] = Precision(e, n),
             \A i \in 1..n : i # n => g[i] = Greater(Precision(e, i), g[i + 1])
      PROVE  \A i \in 1..n : BestFrom(g[i], e, i)
  <2>1. 0 \in Q(g)
    BY <1>2, <1>3, <1>6
  <2>2. ASSUME NEW k \in Nat, k \in Q(g) PROVE k + 1 \in Q(g)
    <3>. SUFFICES ASSUME k + 1 < n PROVE BestFrom(g[n - (k + 1)], e, n - (k + 1))
      OBVIOUS
    <3>. DEFINE i == n - (k + 1)
    <3>1. i \in 1..n /\ i # n /\ i + 1 = n - k
      BY <1>2
    <3>2. BestFrom(g[n - k], e, n - k)
      BY <1>2, <2>2
    <3>. HIDE DEF i
    <3>3. BestFrom(g[i + 1], e, i + 1)
      BY <3>1, <3>2
    <3>4. g[i] = Greater(Precision(e, i), g[i + 1])
      BY <1>6, <3>1
    <3>. QED
      BY <1>4, <3>1, <3>3, <3>4, Zenon DEF i
  <2>3. Nat \subseteq Q(g)
    <3>. HIDE DEF Q
    <3>. QED
      BY <2>1, <2>2, SetInduction
  <2>. SUFFICES ASSUME NEW i \in 1..n PROVE BestFrom(g[i], e, i)
    OBVIOUS
  <2>4. n - i \in Nat /\ n - i < n /\ n - (n - i) = i
    BY <1>2
  <2>5. n - i \in Q(g)
    <3>. HIDE DEF Q
    <3>. QED
      BY <2>3, <2>4
  <2>. QED
    BY <2>4, <2>5
<1>7. \A i \in 1..n : \E v : BestFrom(v, e, i)
  <2>. DEFINE R == {k \in Nat : k < n => \E v : BestFrom(v, e, n - k)}
  <2>1. 0 \in R
    BY <1>2, <1>3
  <2>2. ASSUME NEW k \in Nat, k \in R PROVE k + 1 \in R
    <3>. SUFFICES ASSUME k + 1 < n PROVE \E v : BestFrom(v, e, n - (k + 1))
      OBVIOUS
    <3>. DEFINE i == n - (k + 1)
    <3>1. i \in 1..n /\ i # n /\ i + 1 = n - k
      BY <1>2
    <3>2. PICK v : BestFrom(v, e, n - k)
      BY <1>2, <2>2
    <3>. HIDE DEF i
    <3>3. BestFrom(v, e, i + 1)
      BY <3>1, <3>2
    <3>. QED
      BY <1>4, <3>1, <3>3, Zenon DEF i
  <2>3. Nat \subseteq R
    <3>. HIDE DEF R
    <3>. QED
      BY <2>1, <2>2, SetInduction
  <2>. SUFFICES ASSUME NEW i \in 1..n PROVE \E v : BestFrom(v, e, i)
    OBVIOUS
  <2>4. n - i \in Nat /\ n - i < n /\ n - (n - i) = i
    BY <1>2
  <2>5. n - i \in R
    <3>. HIDE DEF R
    <3>. QED
      BY <2>3, <2>4
  <2>. QED
    BY <2>4, <2>5
<1>8. Loops(F)
  <2>1. \A i \in 1..n : BestFrom(F[i], e, i)
    BY <1>7, Zenon
  <2>3. F = [i \in 1..n |-> F[i]]
    OBVIOUS
  <2>. HIDE DEF F
  <2>2. ASSUME NEW i \in 1..n
        PROVE  F[i] = IF i = n THEN Precision(e, i) ELSE Greater(Precision(e, i), F[i + 1])
    <3>1. CASE i = n
      <4>1. BestFrom(Precision(e, i), e, i)
        BY <1>2, <1>3, <3>1
      <4>. QED
        BY <1>5, <2>1, <3>1, <4>1
    <3>2. CASE i # n
      <4>1. i + 1 \in 1..n
        BY <1>2, <3>2
      <4>2. BestFrom(Greater(Precision(e, i), F[i + 1]), e, i)
        BY <1>4, <2>1, <3>2, <4>1
      <4>. QED
        BY <1>5, <2>1, <3>2, <4>2
    <3>. QED
      BY <3>1, <3>2
  <2>. QED
    BY <2>2, <2>3
<1>9. Loops(f)
  <2>. HIDE DEF Loops
  <2>. QED
    BY <1>8, Zenon
<1>. HIDE DEF f
<1>10. \A i \in 1..n : f[i] = IF i = n THEN Precision(e, i) ELSE Greater(Precision(e, i), f[i + 1])
  BY <1>9, Zenon
<1>11. /\ n # 0 => f[n] = Precision(e, n)
       /\ \A i \in 1..n : i # n => f[i] = Greater(Precision(e, i), f[i + 1])
  <2>1. n # 0 => n \in 1..n
    BY <1>2
  <2>. QED
    BY <1>10, <2>1
<1>12. \A i \in 1..n : BestFrom(f[i], e, i)
  BY <1>6, <1>11
<1>. QED
  BY <1>1, <1>12

\* The best precision at a recall: at the entry that reaches it, the envelope;
\* beyond the last, nothing.
LEMMA BestAtRecallIs ==
    ASSUME NEW e \in Seq(EntryState)
    PROVE  /\ \A m \in Nat : BestAtRecall(e, m) \in Nat
           /\ \A m \in Nat : TpCum(e, Len(e)) < m => BestAtRecall(e, m) = 0
           /\ \A i \in 1..Len(e) : \A v : e[i].tp = 1 /\ BestFrom(v, e, i) => BestAtRecall(e, TpCum(e, i)) = v
<1>. DEFINE n == Len(e)
            J(m) == {j \in 1..n : TpCum(e, j) >= m}
            S(m) == {0} \cup {Precision(e, i) : i \in J(m)}
<1>1. /\ n \in Nat /\ \A i \in 1..n : Precision(e, i) \in Nat /\ i \in 0..n
      /\ \A i \in 0..n : TpCum(e, i) \in Nat
  BY LenProperties, PrecisionIs, TpStep
<1>2. \A m : BestAtRecall(e, m) = Max(S(m))
  BY DEF BestAtRecall
<1>3. \A m : S(m) \in SUBSET Int /\ S(m) \in SUBSET Nat
  BY <1>1
<1>4. ASSUME NEW m \in Nat PROVE Max(S(m)) \in Nat
  <2>. DEFINE F == [j \in J(m) |-> Precision(e, j)]
              K == {Precision(e, i) : i \in J(m)}
  <2>1. F \in Surjection(J(m), K)
    BY DEF Surjection
  <2>2. IsFiniteSet(J(m))
    <3>1. J(m) \in SUBSET (1..n)
      OBVIOUS
    <3>. HIDE DEF J
    <3>. QED
      BY <1>1, <3>1, PlacesAreFinite
  <2>3. IsFiniteSet(K)
    <3>. HIDE DEF F, K, J
    <3>. QED
      BY <2>1, <2>2, FS_Surjection
  <2>4. IsFiniteSet(S(m)) /\ S(m) # {}
    <3>1. IsFiniteSet(K \cup {0}) /\ S(m) = K \cup {0}
      <4>1. S(m) = K \cup {0}
        OBVIOUS
      <4>. HIDE DEF K
      <4>. QED
        BY <2>3, <4>1, FS_AddElement
    <3>. QED
      BY <3>1
  <2>. HIDE DEF S
  <2>5. Hottest(S(m)) \in S(m) /\ \A x \in S(m) : Hottest(S(m)) >= x
    BY <1>3, <2>4, HottestIs
  <2>6. Max(S(m)) = Hottest(S(m))
    BY <1>3, <2>5, MaxOf
  <2>. QED
    BY <1>3, <2>5, <2>6
<1>5. ASSUME NEW m \in Nat, TpCum(e, n) < m PROVE Max(S(m)) = 0
  <2>1. J(m) = {}
    <3>. SUFFICES ASSUME NEW j \in J(m) PROVE FALSE
      OBVIOUS
    <3>1. j \in 0..n /\ n \in 0..n /\ j <= n
      BY <1>1
    <3>2. TpCum(e, j) <= TpCum(e, n) /\ TpCum(e, j) \in Nat /\ TpCum(e, n) \in Nat /\ TpCum(e, j) >= m
      BY <1>1, <3>1, TpGrows
    <3>. QED
      BY <1>5, <3>2
  <2>2. S(m) = {0}
    BY <2>1
  <2>. HIDE DEF S
  <2>. QED
    BY <2>2, MaxOf
<1>6. ASSUME NEW i \in 1..n, NEW v, e[i].tp = 1, BestFrom(v, e, i) PROVE Max(S(TpCum(e, i))) = v
  <2>. DEFINE m == TpCum(e, i)
  <2>1. J(m) = i..n
    <3>1. ASSUME NEW j \in i..n PROVE j \in 1..n /\ TpCum(e, j) >= m
      <4>1. i \in 0..n /\ j \in 0..n /\ i <= j /\ j \in 1..n
        BY <1>1
      <4>2. m <= TpCum(e, j) /\ m \in Nat /\ TpCum(e, j) \in Nat
        BY <1>1, <4>1, TpGrows
      <4>. QED
        BY <4>1, <4>2
    <3>2. ASSUME NEW j \in 1..n, j < i PROVE ~(TpCum(e, j) >= m)
      <4>1. j \in 0..n /\ i - 1 \in 0..n /\ j <= i - 1
        BY <1>1, <3>2
      <4>2. TpCum(e, j) <= TpCum(e, i - 1) /\ m = TpCum(e, i - 1) + 1
        BY <1>6, <4>1, TpGrows, TpStep
      <4>3. TpCum(e, j) \in Nat /\ TpCum(e, i - 1) \in Nat
        BY <1>1, <4>1
      <4>. QED
        BY <4>2, <4>3
    <3>3. \A j \in 1..n : j \in i..n \/ j < i
      BY <1>1
    <3>. HIDE DEF m
    <3>. QED
      BY <3>1, <3>2, <3>3
  <2>2. S(m) = {0} \cup {Precision(e, j) : j \in i..n}
    BY <2>1
  <2>3. v \in S(m)
    BY <1>6, <2>2 DEF BestFrom
  <2>4. \A y \in S(m) : v >= y
    <3>. TAKE y \in S(m)
    <3>1. v \in Nat /\ \A j \in i..n : Precision(e, j) <= v
      BY <1>6 DEF BestFrom
    <3>2. y \in Nat
      BY <1>3
    <3>3. CASE y = 0
      BY <3>1, <3>3
    <3>4. CASE \E j \in i..n : y = Precision(e, j)
      BY <3>1, <3>2, <3>4
    <3>. QED
      BY <2>2, <3>3, <3>4
  <2>. HIDE DEF S, m
  <2>. QED
    BY <1>3, <2>3, <2>4, MaxOf DEF m
<1>. HIDE DEF S
<1>. QED
  <2>1. /\ \A m \in Nat : BestAtRecall(e, m) \in Nat
        /\ \A m \in Nat : TpCum(e, Len(e)) < m => BestAtRecall(e, m) = 0
    BY <1>2, <1>4, <1>5
  <2>. HIDE DEF n
  <2>2. \A i \in 1..n : \A v : e[i].tp = 1 /\ BestFrom(v, e, i) => BestAtRecall(e, TpCum(e, i)) = v
    BY <1>2, <1>6, Zenon
  <2>. QED
    BY <2>1, <2>2 DEF n

\* _ap_from_pr: each true positive adds the envelope at its rank.
LEMMA ApSums ==
    ASSUME NEW e \in Seq(EntryState)
    PROVE  \E a :
              /\ a[0] = 0 /\ AveragePrecision(e) = a[Len(e)]
              /\ \A i \in 1..Len(e) : a[i] = a[i - 1] + IF e[i].tp = 1 THEN Envelope(e)[i] ELSE 0
<1>. DEFINE n == Len(e)
            env == Envelope(e)
            v == [i \in 1..n |-> e[i].tp * env[i]]
            a == CHOOSE f : SumsUp(f, n, v)
<1>1. n \in Nat /\ \A i \in 1..n : e[i].tp \in {0, 1}
  <2>1. \A i \in 1..n : e[i] \in EntryState
    BY ElementOfSeq
  <2>. QED
    BY <2>1, LenProperties DEF EntryState
<1>2. \A i \in 1..n : BestFrom(env[i], e, i)
  BY EnvelopeIs
<1>3. AveragePrecision(e) = a[n]
  <2>1. AveragePrecision(e) = (CHOOSE f : f = [i \in 0..n |-> IF i = 0 THEN 0 ELSE f[i - 1] + e[i].tp * env[i]])[n]
    BY Zenon DEF AveragePrecision
  <2>2. ASSUME NEW f
        PROVE  SumsUp(f, n, v) <=> f = [i \in 0..n |-> IF i = 0 THEN 0 ELSE f[i - 1] + e[i].tp * env[i]]
    <3>1. \A i \in 0..n : i # 0 => v[i] = e[i].tp * env[i]
      BY <1>1
    <3>2. [i \in 0..n |-> IF i = 0 THEN 0 ELSE f[i - 1] + v[i]]
            = [i \in 0..n |-> IF i = 0 THEN 0 ELSE f[i - 1] + e[i].tp * env[i]]
      <4>. HIDE DEF v, n, env
      <4>. QED
        BY <3>1, Zenon
    <3>. HIDE DEF v, n, env
    <3>. QED
      BY <3>2, Zenon DEF SumsUp
  <2>. HIDE DEF v, n, env
  <2>3. a = CHOOSE f : f = [i \in 0..n |-> IF i = 0 THEN 0 ELSE f[i - 1] + e[i].tp * env[i]]
    BY <2>2, Zenon
  <2>. QED
    BY <2>1, <2>3, Zenon
<1>4. ASSUME NEW i \in 1..n PROVE v[i] = (IF e[i].tp = 1 THEN env[i] ELSE 0) /\ v[i] \in Nat
  <2>1. env[i] \in Nat
    BY <1>2 DEF BestFrom
  <2>. HIDE DEF env
  <2>2. CASE e[i].tp = 1
    BY <2>1, <2>2
  <2>3. CASE e[i].tp = 0
    BY <2>1, <2>3
  <2>. QED
    BY <1>1, <2>2, <2>3
<1>5. a[0] = 0 /\ \A i \in 1..n : a[i] = a[i - 1] + v[i]
  <2>1. v \in [1..n -> Nat]
    BY <1>4
  <2>. HIDE DEF v, n
  <2>. QED
    BY <1>1, <2>1, SumIs
<1>. HIDE DEF a, v, env, n
<1>6. a[0] = 0 /\ AveragePrecision(e) = a[n]
      /\ \A i \in 1..n : a[i] = a[i - 1] + IF e[i].tp = 1 THEN env[i] ELSE 0
  BY <1>3, <1>4, <1>5
<1>. QED
  BY <1>6 DEF n, env

\* _ap_from_pr: the sum over the entries is the sum over the recalls, as long
\* as no more are found than there are.
LEMMA AreaIs ==
    ASSUME NEW e \in Seq(EntryState), NEW g \in Nat, TpCum(e, Len(e)) <= g
    PROVE  AveragePrecision(e) = ReferenceAp(e, g)
<1>. DEFINE n == Len(e)
            env == Envelope(e)
            v(i) == IF e[i].tp = 1 THEN env[i] ELSE 0
            w == [m \in 1..g |-> BestAtRecall(e, m)]
            r == CHOOSE f : SumsUp(f, g, w)
<1>1. n \in Nat /\ \A i \in 1..n : e[i].tp \in {0, 1}
  <2>1. \A i \in 1..n : e[i] \in EntryState
    BY ElementOfSeq
  <2>. QED
    BY <2>1, LenProperties DEF EntryState
<1>2. \A i \in 1..n : BestFrom(env[i], e, i)
  BY EnvelopeIs
<1>3. \A m \in Nat : BestAtRecall(e, m) \in Nat
  BY BestAtRecallIs
<1>4. PICK a : /\ a[0] = 0 /\ AveragePrecision(e) = a[n]
               /\ \A i \in 1..n : a[i] = a[i - 1] + v(i)
  BY ApSums, Zenon
<1>5. ReferenceAp(e, g) = r[g]
  <2>1. ReferenceAp(e, g) = (CHOOSE f : f = [m \in 0..g |-> IF m = 0 THEN 0 ELSE f[m - 1] + BestAtRecall(e, m)])[g]
    BY Zenon DEF ReferenceAp
  <2>2. ASSUME NEW f
        PROVE  SumsUp(f, g, w) <=> f = [m \in 0..g |-> IF m = 0 THEN 0 ELSE f[m - 1] + BestAtRecall(e, m)]
    <3>1. \A m \in 0..g : m # 0 => w[m] = BestAtRecall(e, m)
      OBVIOUS
    <3>2. [m \in 0..g |-> IF m = 0 THEN 0 ELSE f[m - 1] + w[m]]
            = [m \in 0..g |-> IF m = 0 THEN 0 ELSE f[m - 1] + BestAtRecall(e, m)]
      <4>. HIDE DEF w
      <4>. QED
        BY <3>1, Zenon
    <3>. HIDE DEF w
    <3>. QED
      BY <3>2, Zenon DEF SumsUp
  <2>. HIDE DEF w
  <2>3. r = CHOOSE f : f = [m \in 0..g |-> IF m = 0 THEN 0 ELSE f[m - 1] + BestAtRecall(e, m)]
    BY <2>2, Zenon
  <2>. QED
    BY <2>1, <2>3, Zenon
<1>8. /\ r[0] = 0 /\ \A m \in 0..g : r[m] \in Nat
      /\ \A m \in 1..g : r[m] = r[m - 1] + BestAtRecall(e, m)
  <2>1. w \in [1..g -> Nat]
    BY <1>3
  <2>2. \A m \in 1..g : w[m] = BestAtRecall(e, m)
    OBVIOUS
  <2>. HIDE DEF w
  <2>3. /\ r[0] = 0 /\ \A m \in 0..g : r[m] \in Nat
        /\ \A m \in 1..g : r[m] = r[m - 1] + w[m]
    BY <2>1, SumIs
  <2>. QED
    BY <2>2, <2>3
<1>6. \A i \in 1..n : v(i) \in Nat
  BY <1>2 DEF BestFrom
<1>. HIDE DEF r, v, w, env
<1>. DEFINE T(i) == TpCum(e, i)
            P == {i \in Nat : i <= n => a[i] = r[T(i)]}
<1>9. /\ T(0) = 0 /\ \A i \in 0..n : T(i) \in 0..g
      /\ \A i \in 1..n : T(i) = T(i - 1) + e[i].tp
  <2>1. /\ T(0) = 0 /\ \A i \in 0..n : T(i) \in Nat
        /\ \A i \in 1..n : T(i) = T(i - 1) + e[i].tp
    BY TpStep
  <2>2. ASSUME NEW i \in 0..n PROVE T(i) <= g
    <3>1. n \in 0..n /\ i <= n
      BY <1>1
    <3>2. T(i) <= T(n)
      BY <3>1, TpGrows
    <3>3. T(n) <= g /\ T(n) \in Nat /\ T(i) \in Nat
      BY <2>1, <3>1
    <3>. HIDE DEF T
    <3>. QED
      BY <3>2, <3>3
  <2>. HIDE DEF T
  <2>. QED
    BY <2>1, <2>2
<1>10. 0 \in P
  BY <1>4, <1>8, <1>9
<1>11. ASSUME NEW i \in Nat, i \in P PROVE i + 1 \in P
  <2>. SUFFICES ASSUME i + 1 <= n PROVE a[i + 1] = r[T(i + 1)]
    OBVIOUS
  <2>. DEFINE k == i + 1
  <2>1. k \in 1..n /\ k - 1 = i /\ i \in 0..n /\ a[i] = r[T(i)]
    BY <1>1, <1>11
  <2>2. a[k] = a[i] + v(k) /\ T(k) = T(i) + e[k].tp /\ e[k].tp \in {0, 1}
    BY <1>1, <1>4, <1>9, <2>1
  <2>3. T(i) \in 0..g /\ T(k) \in 0..g /\ r[T(i)] \in Nat
    BY <1>1, <1>8, <1>9, <2>1
  <2>4. CASE e[k].tp = 0
    <3>1. v(k) = 0 /\ T(k) = T(i)
      BY <1>6, <2>1, <2>2, <2>3, <2>4 DEF v
    <3>. QED
      BY <2>1, <2>2, <2>3, <3>1
  <2>5. CASE e[k].tp = 1
    <3>1. v(k) = env[k]
      BY <2>1, <2>5 DEF v
    <3>2. BestAtRecall(e, T(k)) = env[k]
      <4>1. BestFrom(env[k], e, k)
        BY <1>2, <2>1 DEF env
      <4>. HIDE DEF k
      <4>. QED
        BY <2>1, <2>5, <4>1, BestAtRecallIs
    <3>3. T(k) \in 1..g /\ T(k) - 1 = T(i)
      BY <2>2, <2>3, <2>5
    <3>4. r[T(k)] = r[T(i)] + env[k]
      <4>. HIDE DEF T
      <4>. QED
        BY <1>8, <3>2, <3>3
    <3>. QED
      BY <2>1, <2>2, <3>1, <3>4
  <2>. QED
    BY <2>2, <2>4, <2>5
<1>12. a[n] = r[T(n)]
  <2>1. n \in P
    <3>. HIDE DEF P
    <3>. QED
      BY <1>1, <1>10, <1>11, SetInduction
  <2>. QED
    BY <2>1
<1>. DEFINE R == {d \in Nat : T(n) + d <= g => r[T(n) + d] = r[T(n)]}
<1>13. n \in 0..n /\ T(n) \in 0..g
  BY <1>1, <1>9
<1>14. 0 \in R
  BY <1>13
<1>15. ASSUME NEW d \in Nat, d \in R PROVE d + 1 \in R
  <2>. SUFFICES ASSUME T(n) + (d + 1) <= g PROVE r[T(n) + (d + 1)] = r[T(n)]
    OBVIOUS
  <2>. DEFINE m == T(n) + (d + 1)
  <2>1. m \in 1..g /\ m \in Nat /\ T(n) < m /\ m - 1 = T(n) + d /\ T(n) + d \in 0..g
    BY <1>13
  <2>2. BestAtRecall(e, m) = 0
    <3>. HIDE DEF m
    <3>. QED
      BY <2>1, BestAtRecallIs
  <2>3. r[m - 1] = r[T(n)] /\ r[m - 1] \in Nat
    BY <1>8, <1>15, <2>1
  <2>4. r[m] = r[m - 1] + 0
    BY <1>8, <2>1, <2>2
  <2>. QED
    BY <2>3, <2>4
<1>16. r[g] = r[T(n)]
  <2>1. g - T(n) \in Nat /\ T(n) + (g - T(n)) = g
    BY <1>13
  <2>2. g - T(n) \in R
    <3>. HIDE DEF R
    <3>. QED
      BY <1>14, <1>15, <2>1, SetInduction
  <2>. QED
    BY <2>1, <2>2
<1>. QED
  BY <1>4, <1>5, <1>12, <1>16

\* argsort: the entries in another order have as many true positives.
LEMMA EntriesAre ==
    ASSUME AccumulatorsTyped, NEW c \in Classes, NEW e \in EntryRankings(c)
    PROVE  /\ e \in Seq(EntryState)
           /\ TpCum(e, Len(e)) = TpCum(scores[c], Len(scores[c]))
           /\ Len(e) = Len(scores[c])
           /\ \A i \in 1..Len(e) : \E k \in 1..Len(e) : e[i].tp = scores[c][k].tp
<1>. DEFINE t == scores[c]
            n == Len(t)
            entry(i) == [score |-> t[i].score, tp |-> t[i].tp, n |-> i]
            X == {entry(i) : i \in 1..n}
            f == [i \in 1..n |-> entry(i)]
<1>1. n \in Nat /\ \A i \in 1..n : t[i] \in EntryState
  <2>1. t \in Seq(EntryState)
    BY DEF AccumulatorsTyped
  <2>. HIDE DEF t
  <2>. QED
    BY <2>1, LenProperties, ElementOfSeq
<1>2. PICK s \in Rankings(X) : e = [i \in 1..Len(s) |-> [score |-> s[i].score, tp |-> s[i].tp]]
  BY DEF EntryRankings
<1>. HIDE DEF t, n
<1>3. IsFiniteSet(X) /\ Cardinality(X) = n
  <2>1. IsFiniteSet(1..n) /\ Cardinality(1..n) = n
    BY <1>1, FS_Interval
  <2>2. f \in [1..n -> X]
    OBVIOUS
  <2>3. \A i, j \in 1..n : f[i] = f[j] => i = j
    <3>. TAKE i \in 1..n, j \in 1..n
    <3>1. f[i].n = i /\ f[j].n = j
      OBVIOUS
    <3>. QED
      BY <3>1
  <2>4. \A x \in X : \E i \in 1..n : f[i] = x
    OBVIOUS
  <2>. HIDE DEF f, X
  <2>. QED
    BY <2>1, <2>2, <2>3, <2>4, OneForOne
<1>4. s \in Seq(X) /\ Len(s) = n /\ Range(s) = X /\ IsInjective(s)
  <2>. HIDE DEF X
  <2>. QED
    BY <1>3, RankingIs
<1>5. DOMAIN s = 1..n /\ \A i \in 1..n : s[i] \in X
  BY <1>4, LenProperties, ElementOfSeq
<1>6. \A i \in 1..n : s[i].n \in 1..n /\ s[i].tp = t[s[i].n].tp /\ s[i].score = t[s[i].n].score
  BY <1>5
<1>7. e = [i \in 1..n |-> [score |-> s[i].score, tp |-> s[i].tp]]
  BY <1>2, <1>4
<1>8. e \in Seq(EntryState) /\ Len(e) = n
  <2>1. \A i \in 1..n : [score |-> s[i].score, tp |-> s[i].tp] \in EntryState
    BY <1>1, <1>6 DEF EntryState
  <2>2. e \in Seq(EntryState) /\ DOMAIN e = 1..n
    BY <1>1, <1>7, <2>1, SeqDef
  <2>. QED
    BY <1>1, <2>2, LenProperties
<1>. DEFINE A == {i \in 1..n : e[i].tp = 1}
            B == {i \in 1..n : t[i].tp = 1}
            h == [i \in A |-> s[i].n]
<1>9. \A i \in 1..n : e[i].tp = s[i].tp
  BY <1>7
<1>10. IsFiniteSet(A)
  BY <1>1, PlacesAreFinite
<1>11. h \in [A -> B]
  BY <1>6, <1>9
<1>12. \A i, j \in A : h[i] = h[j] => i = j
  <2>. TAKE i \in A, j \in A
  <2>. HAVE h[i] = h[j]
  <2>1. s[i].n = s[j].n /\ i \in 1..n /\ j \in 1..n
    OBVIOUS
  <2>2. s[i] = s[j]
    <3>1. PICK k \in 1..n : s[i] = entry(k)
      BY <1>5, <2>1
    <3>2. PICK l \in 1..n : s[j] = entry(l)
      BY <1>5, <2>1
    <3>3. s[i].n = k /\ s[j].n = l
      BY <3>1, <3>2
    <3>. QED
      BY <2>1, <3>1, <3>2, <3>3
  <2>. QED
    BY <1>4, <1>5, <2>1, <2>2 DEF IsInjective
<1>13. \A j \in B : \E i \in A : h[i] = j
  <2>. TAKE j \in B
  <2>1. j \in 1..n /\ t[j].tp = 1 /\ entry(j) \in X
    OBVIOUS
  <2>2. PICK i \in 1..n : s[i] = entry(j)
    BY <1>4, <1>5, <2>1 DEF Range
  <2>3. s[i].n = j /\ s[i].tp = 1
    BY <2>1, <2>2
  <2>4. i \in A
    BY <1>9, <2>3
  <2>. QED
    BY <2>3, <2>4
<1>14. Cardinality(B) = Cardinality(A)
  <2>. HIDE DEF A, B, h
  <2>. QED
    BY <1>10, <1>11, <1>12, <1>13, OneForOne
<1>15. \A i \in 1..n : \E k \in 1..n : e[i].tp = t[k].tp
  BY <1>6, <1>9
<1>. QED
  BY <1>8, <1>14, <1>15 DEF TpCum, t, n

\* The loop over the data set is in order, and what it has computed is right.
EvalSound == LoopTyped /\ NoneInvented /\ ApIsArea

\* compute is the only step that makes an average precision.
LEMMA EvalSoundNext == EvalSound /\ [EvalNext]_evalVars => EvalSound'
<1>. SUFFICES ASSUME EvalSound, [EvalNext]_evalVars PROVE EvalSound'
  OBVIOUS
<1>1. LoopTyped' /\ NoneInvented'
  BY LoopNext, NoneInventedNext DEF EvalSound
<1>2. CASE Compute
  <2>1. PICK order \in [Classes -> UNION {EntryRankings(c) : c \in Classes}] :
            /\ \A c \in Classes : order[c] \in EntryRankings(c)
            /\ aps' = [c \in {d \in Classes : nGt[d] > 0} |->
                         [entries |-> order[c], ap |-> AveragePrecision(order[c])]]
    BY <1>2 DEF Compute
  <2>2. ASSUME NEW c \in DOMAIN aps' PROVE aps'[c].ap = ReferenceAp(aps'[c].entries, nGt'[c])
    <3>1. /\ c \in Classes /\ order[c] \in EntryRankings(c)
          /\ aps'[c].entries = order[c] /\ aps'[c].ap = AveragePrecision(order[c])
      BY <2>1
    <3>2. nGt'[c] = nGt[c] /\ nGt[c] \in Nat /\ AccumulatorsTyped
      BY <1>2, <3>1 DEF Compute, EvalSound, LoopTyped, AccumulatorsTyped
    <3>3. order[c] \in Seq(EntryState) /\ TpCum(order[c], Len(order[c])) <= nGt[c]
      <4>1. /\ order[c] \in Seq(EntryState)
            /\ TpCum(order[c], Len(order[c])) = TpCum(scores[c], Len(scores[c]))
        BY <3>1, <3>2, EntriesAre
      <4>. QED
        BY <3>1, <4>1 DEF EvalSound, NoneInvented
    <3>4. AveragePrecision(order[c]) = ReferenceAp(order[c], nGt[c])
      BY <3>2, <3>3, AreaIs
    <3>. QED
      BY <3>1, <3>2, <3>4
  <2>. QED
    BY <1>1, <2>2 DEF EvalSound, ApIsArea
<1>3. CASE ~Compute
  <2>1. pc' # "done" \/ UNCHANGED <<pc, aps, nGt>>
    BY <1>3, StepsLeave DEF EvalNext
  <2>2. ApIsArea'
    BY <2>1 DEF EvalSound, ApIsArea
  <2>. QED
    BY <1>1, <2>2 DEF EvalSound
<1>. QED
  BY <1>2, <1>3

\* The mAP that chooses best.pt is made of areas under the curve of the best
\* precision at each recall, for any images, any network and any order of
\* equal scores: what the loop sums up entry by entry is the definition.
THEOREM ApIsTheArea == EvalSpec => []ApIsArea
<1>1. EvalInit => EvalSound
  BY LoopInit, NoneInventedInit DEF EvalInit, EvalSound, ApIsArea
<1>2. EvalSound => ApIsArea
  BY DEF EvalSound
<1>. QED
  BY <1>1, <1>2, EvalSoundNext, PTL DEF EvalSpec
-------------------------------------------------------------------------------
\* From the encoding on, the targets encode the objects at hand, and those are
\* no more than the data set's limit.
Encoded ==
    pc \in {"forward", "decode", "update"} =>
        Len(objects) <= MaxObjects /\ Encodes(targets, objects, Classes, Side, MaxObjects)

\* Targets encode the objects up to the limit, whatever comes after it.
LEMMA EncodesFirst ==
    ASSUME NEW objs \in Seq(ObjectState), NEW most \in Nat, NEW t, NEW classes, NEW side \in Nat \ {0},
           Encodes(t, objs, classes, side, most)
    PROVE  /\ Len(FirstOf(objs, most)) <= most
           /\ Encodes(t, FirstOf(objs, most), classes, side, most)
<1>. DEFINE o == FirstOf(objs, most)
            used(s, n) == {k \in 1..n : HasArea(OutputBox(s[k].box, side))}
<1>1. Len(objs) \in Nat
  BY LenProperties
<1>2. Len(o) = Lesser(most, Len(objs)) /\ \A k \in 1..Len(o) : o[k] = objs[k]
  BY FirstIs
<1>. HIDE DEF o
<1>3. Lesser(Len(o), most) = Len(o) /\ Lesser(Len(objs), most) = Len(o) /\ Len(o) <= most
  BY <1>1, <1>2 DEF Lesser
<1>4. DOMAIN t.slot = used(objs, Len(o))
  BY <1>3 DEF Encodes
<1>5. used(objs, Len(o)) = used(o, Len(o))
  BY <1>2
<1>6. \A k \in DOMAIN t.slot : o[k] = objs[k]
  BY <1>2, <1>4
<1>7. \A cls : {k \in DOMAIN t.slot : o[k].cls = cls} = {k \in DOMAIN t.slot : objs[k].cls = cls}
  BY <1>6
<1>8. \A k \in DOMAIN t.slot : t.slot[k] = Slot(OutputBox(o[k].box, side), side)
  BY <1>6 DEF Encodes
<1>9. \A cls \in classes : Shows(t.hm[cls], {k \in DOMAIN t.slot : o[k].cls = cls}, t.slot, side)
  BY <1>7, Zenon DEF Encodes
<1>10. DOMAIN t.slot = {k \in 1..Lesser(Len(o), most) : HasArea(OutputBox(o[k].box, side))}
  BY <1>3, <1>4, <1>5
<1>11. Encodes(t, o, classes, side, most)
  BY <1>8, <1>9, <1>10 DEF Encodes
<1>. QED
  BY <1>3, <1>11 DEF o

\* Encode makes them so, and nothing touches them until the image is done.
LEMMA EncodedNext == DataTyped /\ Encoded /\ [EvalNext]_evalVars => Encoded'
<1>. SUFFICES ASSUME DataTyped, Encoded, [EvalNext]_evalVars PROVE Encoded'
  OBVIOUS
<1>1. CASE Encode
  <2>. DEFINE t == BuildTargets(objects, Classes, Side, MaxObjects)
  <2>1. targets' = t /\ objects' = FirstOf(objects, MaxObjects)
    BY <1>1 DEF Encode, Side
  <2>2. MaxObjects \in Nat /\ Side \in Nat \ {0} /\ objects \in Seq(ObjectState)
    BY EvaluationAssumption, SideIs DEF DataTyped, ObjectsTyped
  <2>3. Encodes(t, objects, Classes, Side, MaxObjects)
    BY <2>2, BuildTargetsIs, Zenon
  <2>. HIDE DEF t
  <2>4. Len(objects') <= MaxObjects /\ Encodes(targets', objects', Classes, Side, MaxObjects)
    BY <2>1, <2>2, <2>3, EncodesFirst
  <2>. QED
    BY <2>4 DEF Encoded, Side
<1>2. CASE RenderShapes \/ ReadAnnotated \/ Augment \/ Update \/ Compute
  BY <1>2, StepsLeave DEF Encoded
<1>3. CASE Predict \/ DecodeImage \/ UNCHANGED evalVars
  <2>1. /\ UNCHANGED <<objects, targets>>
        /\ pc' \in {"forward", "decode", "update"} => pc \in {"forward", "decode", "update"}
    BY <1>3 DEF Predict, DecodeImage, evalVars
  <2>. QED
    BY <2>1 DEF Encoded, Side
<1>. QED
  BY <1>1, <1>2, <1>3 DEF EvalNext

\* The slots of the objects of one class.
SlotsOf(cls) == {k \in DOMAIN targets.slot : objects[k].cls = cls}

\* The heat of a class: Top at the centers of its objects, which are its peaks.
LEMMA PositivesAre ==
    ASSUME DataTyped, Encodes(targets, objects, Classes, Side, MaxObjects), NEW cls \in Classes
    PROVE  /\ Positives(cls) = {targets.slot[k].ind : k \in SlotsOf(cls)}
           /\ {x \in DOMAIN targets.hm[cls] :
                  /\ targets.hm[cls][x] > 0
                  /\ \A d \in Near(x, Side) : HeatAt(targets.hm[cls], d) <= targets.hm[cls][x]} = Positives(cls)
           /\ Positives(cls) \subseteq Cells(Side)
<1>1. Side \in Nat \ {0}
  BY SideIs
<1>2. Shows(targets.hm[cls], SlotsOf(cls), targets.slot, Side)
  BY DEF Encodes, SlotsOf
<1>3. \A k \in SlotsOf(cls) : targets.slot[k] \in SlotState(Side)
  BY DEF DataTyped, TargetsLike, SlotsOf
<1>. DEFINE heat == targets.hm[cls]
            centers == {targets.slot[k].ind : k \in SlotsOf(cls)}
<1>. HIDE DEF heat
<1>4. /\ {x \in DOMAIN heat : heat[x] = Top} = centers
      /\ {x \in DOMAIN heat : heat[x] > 0 /\ \A d \in Near(x, Side) : HeatAt(heat, d) <= heat[x]} = centers
      /\ \A x \in DOMAIN heat : x \in Cells(Side)
  BY <1>1, <1>2, <1>3, PeaksOf DEF heat
<1>5. Positives(cls) = {x \in DOMAIN heat : heat[x] = Top}
  BY DEF Positives, heat
<1>. HIDE DEF centers
<1>. QED
  BY <1>4, <1>5 DEF heat, centers

\* The peaks of an ideal output are the positives.
LEMMA IdealPeaks ==
    ASSUME DataTyped, Encodes(targets, objects, Classes, Side, MaxObjects), NEW f
    PROVE  \A r : r \in PeakRows(Ideal(f), HeadSide(Size), Padded(HeadSide(Size))) <=>
                  \E cls \in Classes : \E c \in Positives(cls) : r = RowAt(Ideal(f), cls, c)
<1>. DEFINE h == Ideal(f)
            around == Padded(Side)
            peaks(cls) == {p \in DOMAIN h.hm[cls] :
                              h.hm[cls][p] > 0 /\ \A d \in around[p] : HeatAt(h.hm[cls], d) <= h.hm[cls][p]}
<1>1. h.hm = targets.hm /\ DOMAIN h.hm = Classes
  BY DEF Ideal, Encodes
<1>2. ASSUME NEW cls \in Classes PROVE peaks(cls) = Positives(cls)
  <2>1. targets.hm[cls] \in HeatMaps(Side)
    BY DEF Encodes, Shows
  <2>2. \A p \in DOMAIN targets.hm[cls] : p \in Cells(Side)
    BY <2>1 DEF HeatMaps
  <2>3. \A p \in DOMAIN targets.hm[cls] : around[p] = Near(p, Side)
    BY <2>2 DEF Padded
  <2>. HIDE DEF h, around
  <2>4. peaks(cls) = {x \in DOMAIN targets.hm[cls] :
                          /\ targets.hm[cls][x] > 0
                          /\ \A d \in Near(x, Side) : HeatAt(targets.hm[cls], d) <= targets.hm[cls][x]}
    BY <1>1, <2>3
  <2>. QED
    BY <2>4, PositivesAre
<1>3. PeakRows(h, HeadSide(Size), Padded(HeadSide(Size)))
        = UNION {{RowAt(h, cls, c) : c \in peaks(cls)} : cls \in Classes}
  <2>1. HeadSide(Size) = Side
    BY SideIs
  <2>. HIDE DEF h
  <2>. QED
    BY <1>1, <2>1 DEF PeakRows
<1>. HIDE DEF h, around, peaks
<1>4. ASSUME NEW r
      PROVE  r \in PeakRows(h, HeadSide(Size), Padded(HeadSide(Size))) <=>
                \E cls \in Classes : \E c \in Positives(cls) : r = RowAt(h, cls, c)
  BY <1>2, <1>3
<1>. QED
  BY <1>4 DEF h

\* A sum of natural numbers is 0 when they all are, and only then.
LEMMA SumIsZero ==
    ASSUME NEW n \in Nat, NEW v \in [1..n -> Nat]
    PROVE  LET f == CHOOSE g : SumsUp(g, n, v)
           IN  f[n] = 0 <=> \A i \in 1..n : v[i] = 0
<1>. DEFINE f == CHOOSE g : SumsUp(g, n, v)
            P == {m \in Nat : m <= n => (f[m] = 0 <=> \A i \in 1..m : v[i] = 0)}
<1>1. f[0] = 0 /\ (\A i \in 0..n : f[i] \in Nat) /\ \A i \in 1..n : f[i] = f[i - 1] + v[i]
  BY SumIs
<1>. HIDE DEF f
<1>2. 0 \in P
  BY <1>1
<1>3. ASSUME NEW m \in Nat, m \in P PROVE m + 1 \in P
  <2>. SUFFICES ASSUME m + 1 <= n PROVE f[m + 1] = 0 <=> \A i \in 1..m + 1 : v[i] = 0
    OBVIOUS
  <2>1. m + 1 \in 1..n /\ m \in 0..n /\ (m + 1) - 1 = m /\ (f[m] = 0 <=> \A i \in 1..m : v[i] = 0)
    BY <1>3
  <2>2. f[m + 1] = f[m] + v[m + 1] /\ f[m] \in Nat /\ v[m + 1] \in Nat
    BY <1>1, <2>1
  <2>3. f[m + 1] = 0 <=> f[m] = 0 /\ v[m + 1] = 0
    BY <2>2
  <2>4. \A i : i \in 1..m + 1 <=> i \in 1..m \/ i = m + 1
    OBVIOUS
  <2>. QED
    BY <2>1, <2>3, <2>4, Zenon
<1>4. Nat \subseteq P
  <2>. HIDE DEF P
  <2>. QED
    BY <1>2, <1>3, SetInduction
<1>. QED
  BY <1>4 DEF f

\* The regression loss of an ideal output, object by object: it is 0 when every
\* object sees its own size and offset at its center.
LEMMA LossIs ==
    ASSUME DataTyped, Encodes(targets, objects, Classes, Side, MaxObjects), NEW f \in Showings
    PROVE  RegressionLoss(Ideal(f)) = 0
              <=> \A k \in DOMAIN targets.slot : targets.slot[f[targets.slot[k].ind]] = targets.slot[k]
<1>. DEFINE D == DOMAIN targets.slot
            s(k) == targets.slot[k]
            h == Ideal(f)
            distance(a, b) == Greater(a[1] - b[1], b[1] - a[1]) + Greater(a[2] - b[2], b[2] - a[2])
            term(k) == distance(PairAt(h.wh, s(k).ind), s(k).wh) + distance(PairAt(h.offset, s(k).ind), s(k).offset)
            v == [k \in 1..MaxObjects |-> IF k \in D THEN term(k) ELSE 0]
            sum == CHOOSE g : SumsUp(g, MaxObjects, v)
<1>1. MaxObjects \in Nat /\ D \subseteq 1..MaxObjects
  <2>1. MaxObjects \in Nat /\ Len(objects) \in Nat
    BY EvaluationAssumption, LenProperties DEF DataTyped, ObjectsTyped
  <2>. QED
    BY <2>1 DEF Encodes, Lesser
<1>2. \A k \in D : s(k) \in SlotState(Side)
  BY DEF DataTyped, TargetsLike
<1>3. RegressionLoss(h) = sum[MaxObjects]
  <2>. DEFINE up == CHOOSE g : g = [k \in 0..MaxObjects |->
                        IF k = 0 THEN 0 ELSE g[k - 1] + (IF k \in D THEN term(k) ELSE 0)]
  <2>1. RegressionLoss(h) = up[MaxObjects]
    BY Zenon DEF RegressionLoss
  <2>2. ASSUME NEW g
        PROVE  [k \in 0..MaxObjects |-> IF k = 0 THEN 0 ELSE g[k - 1] + (IF k \in D THEN term(k) ELSE 0)]
             = [k \in 0..MaxObjects |-> IF k = 0 THEN 0 ELSE g[k - 1] + v[k]]
    <3>1. \A k \in 0..MaxObjects : k # 0 => v[k] = IF k \in D THEN term(k) ELSE 0
      BY <1>1
    <3>. HIDE DEF v, term, D
    <3>. QED
      BY <3>1
  <2>3. up = sum
    <3>. HIDE DEF v, term, D, h
    <3>. QED
      BY <2>2, Zenon DEF SumsUp
  <2>. HIDE DEF up, sum
  <2>. QED
    BY <2>1, <2>3
<1>4. ASSUME NEW k \in D
      PROVE  /\ f[s(k).ind] \in D /\ s(f[s(k).ind]).ind = s(k).ind
             /\ PairAt(h.wh, s(k).ind) = s(f[s(k).ind]).wh
             /\ PairAt(h.offset, s(k).ind) = s(f[s(k).ind]).offset
  <2>1. s(k).ind \in Centers
    BY DEF Centers
  <2>2. f[s(k).ind] \in D /\ s(f[s(k).ind]).ind = s(k).ind
    BY <2>1 DEF Showings
  <2>. QED
    BY <2>1, <2>2 DEF Ideal, PairAt
<1>5. ASSUME NEW a \in Int \X Int, NEW b \in Int \X Int
      PROVE  distance(a, b) \in Nat /\ (distance(a, b) = 0 <=> a = b)
  <2>1. a[1] \in Int /\ a[2] \in Int /\ b[1] \in Int /\ b[2] \in Int /\ a = <<a[1], a[2]>> /\ b = <<b[1], b[2]>>
    OBVIOUS
  <2>2. a[1] = b[1] /\ a[2] = b[2] <=> a = b
    BY <2>1, Zenon
  <2>3. distance(a, b) \in Nat /\ (distance(a, b) = 0 <=> a[1] = b[1] /\ a[2] = b[2])
    BY <2>1 DEF Greater
  <2>. QED
    BY <2>2, <2>3
<1>. HIDE DEF distance
<1>6. ASSUME NEW k \in D PROVE term(k) \in Nat /\ (term(k) = 0 <=> s(f[s(k).ind]) = s(k))
  <2>. DEFINE j == f[s(k).ind]
  <2>1. j \in D /\ s(j).ind = s(k).ind /\ PairAt(h.wh, s(k).ind) = s(j).wh /\ PairAt(h.offset, s(k).ind) = s(j).offset
    BY <1>4
  <2>2. s(j) \in SlotState(Side) /\ s(k) \in SlotState(Side)
    BY <1>2, <2>1
  <2>. HIDE DEF j, s, h
  <2>3. /\ s(j).wh \in Int \X Int /\ s(k).wh \in Int \X Int
        /\ s(j).offset \in Int \X Int /\ s(k).offset \in Int \X Int
    BY <2>2 DEF SlotState
  <2>4. term(k) = distance(s(j).wh, s(k).wh) + distance(s(j).offset, s(k).offset)
    BY <2>1
  <2>5. s(j) = s(k) <=> s(j).wh = s(k).wh /\ s(j).offset = s(k).offset
    <3>1. \A x \in SlotState(Side) : x = [ind |-> x.ind, wh |-> x.wh, offset |-> x.offset]
      BY DEF SlotState
    <3>2. /\ s(j) = [ind |-> s(j).ind, wh |-> s(j).wh, offset |-> s(j).offset]
          /\ s(k) = [ind |-> s(k).ind, wh |-> s(k).wh, offset |-> s(k).offset]
      BY <2>2, <3>1, Zenon
    <3>. QED
      BY <2>1, <3>2, Zenon
  <2>. DEFINE x == distance(s(j).wh, s(k).wh)
              y == distance(s(j).offset, s(k).offset)
  <2>6. x \in Nat /\ (x = 0 <=> s(j).wh = s(k).wh) /\ y \in Nat /\ (y = 0 <=> s(j).offset = s(k).offset)
    BY <1>5, <2>3
  <2>7. term(k) = x + y
    BY <2>4
  <2>. HIDE DEF x, y, term
  <2>8. term(k) \in Nat /\ (term(k) = 0 <=> s(j) = s(k))
    BY <2>5, <2>6, <2>7
  <2>. QED
    BY <2>8 DEF j
<1>. HIDE DEF term
<1>7. v \in [1..MaxObjects -> Nat]
  BY <1>6
<1>8. sum[MaxObjects] = 0 <=> \A k \in 1..MaxObjects : v[k] = 0
  <2>. HIDE DEF v
  <2>. QED
    BY <1>1, <1>7, SumIsZero
<1>9. (\A k \in 1..MaxObjects : v[k] = 0) <=> \A k \in D : term(k) = 0
  <2>. HIDE DEF D
  <2>. QED
    BY <1>1
<1>. HIDE DEF v, sum, h
<1>10. (\A k \in D : term(k) = 0) <=> \A k \in D : s(f[s(k).ind]) = s(k)
  BY <1>6, Zenon
<1>11. RegressionLoss(h) = 0 <=> \A k \in D : s(f[s(k).ind]) = s(k)
  BY <1>3, <1>8, <1>9, <1>10
<1>. QED
  BY <1>11, Zenon DEF h

\* Targets that encode the objects can be learned.
LEMMA LearnableLemma == DataTyped /\ Encoded => TargetsAreLearnable
<1>. SUFFICES ASSUME DataTyped, Encodes(targets, objects, Classes, Side, MaxObjects), pc = "forward"
              PROVE  TargetsAreLearnable
  BY DEF Encoded, TargetsAreLearnable
<1>1. ASSUME NEW cls \in Classes
      PROVE  Positives(cls) = {targets.slot[k].ind : k \in {j \in DOMAIN targets.slot : objects[j].cls = cls}}
  BY <1>1, PositivesAre DEF SlotsOf
<1>2. ASSUME NEW f \in Showings
      PROVE  {<<r.cls, r.cell>> : r \in PeakRows(Ideal(f), HeadSide(Size), Padded(HeadSide(Size)))}
                = UNION {{cls} \X Positives(cls) : cls \in Classes}
  <2>. DEFINE R == PeakRows(Ideal(f), HeadSide(Size), Padded(HeadSide(Size)))
  <2>1. \A r : r \in R <=> \E cls \in Classes : \E c \in Positives(cls) : r = RowAt(Ideal(f), cls, c)
    BY IdealPeaks
  <2>2. \A cls, c : RowAt(Ideal(f), cls, c).cls = cls /\ RowAt(Ideal(f), cls, c).cell = c
    BY DEF RowAt
  <2>. HIDE DEF R
  <2>3. ASSUME NEW r \in R PROVE <<r.cls, r.cell>> \in UNION {{cls} \X Positives(cls) : cls \in Classes}
    <3>1. PICK cls \in Classes : \E c \in Positives(cls) : r = RowAt(Ideal(f), cls, c)
      BY <2>1
    <3>2. r.cls = cls /\ r.cell \in Positives(cls)
      BY <2>2, <3>1
    <3>. QED
      BY <3>2
  <2>4. ASSUME NEW cls \in Classes, NEW p \in {cls} \X Positives(cls) PROVE p \in {<<r.cls, r.cell>> : r \in R}
    <3>1. PICK c \in Positives(cls) : p = <<cls, c>>
      OBVIOUS
    <3>2. RowAt(Ideal(f), cls, c) \in R
      BY <2>1
    <3>. QED
      BY <2>2, <3>1, <3>2
  <2>. QED
    BY <2>3, <2>4 DEF R
<1>3. ASSUME NEW f \in Showings
      PROVE  RegressionLoss(Ideal(f)) = 0
                <=> \A j, k \in DOMAIN targets.slot :
                       targets.slot[j].ind = targets.slot[k].ind => targets.slot[j] = targets.slot[k]
  <2>. DEFINE D == DOMAIN targets.slot
              s(k) == targets.slot[k]
  <2>1. RegressionLoss(Ideal(f)) = 0 <=> \A k \in D : s(f[s(k).ind]) = s(k)
    BY LossIs
  <2>2. \A k \in D : f[s(k).ind] \in D /\ s(f[s(k).ind]).ind = s(k).ind
    BY DEF Showings, Centers
  <2>. HIDE DEF D, s
  <2>3. (\A k \in D : s(f[s(k).ind]) = s(k)) <=> \A j, k \in D : s(j).ind = s(k).ind => s(j) = s(k)
    BY <2>2, Zenon
  <2>. QED
    BY <2>1, <2>3 DEF D, s
<1>. QED
  BY <1>1, <1>2, <1>3, Zenon DEF TargetsAreLearnable

\* The targets of an image can be learned and read back (TargetsAreLearnable of
\* Evaluation): every object has its own positive, no splat hides or adds one,
\* and a network without objects that share a center can bring the loss to 0.
THEOREM TargetsCanBeLearned == EvalSpec => []TargetsAreLearnable
<1>1. EvalInit => Encoded
  BY DEF EvalInit, Encoded
<1>. QED
  BY <1>1, DataHolds, EncodedNext, LearnableLemma, PTL DEF EvalSpec
-------------------------------------------------------------------------------
\* Boxes in the targets' units have four times the area, and so has what they
\* have in common.
LEMMA ScaledAreas ==
    ASSUME NEW a \in BoxState, NEW b \in BoxState
    PROVE  /\ Scaled(a) \in BoxState
           /\ Area(Scaled(a)) = 4 * Area(a)
           /\ Intersection(Scaled(a), Scaled(b)) = 4 * Intersection(a, b)
<1>1. ASSUME NEW w \in Int, NEW h \in Int
      PROVE  Greater(0, 2 * w) * Greater(0, 2 * h) = 4 * (Greater(0, w) * Greater(0, h))
  <2>. DEFINE p == Greater(0, w)
              q == Greater(0, h)
  <2>1. Greater(0, 2 * w) = 2 * p /\ Greater(0, 2 * h) = 2 * q /\ p \in Int /\ q \in Int
    BY DEF Greater
  <2>. HIDE DEF p, q
  <2>2. (2 * p) * (2 * q) = 4 * (p * q)
    BY <2>1
  <2>. QED
    BY <2>1, <2>2 DEF p, q
<1>2. ASSUME NEW x \in BoxState PROVE Scaled(x) \in BoxState /\ Area(Scaled(x)) = 4 * Area(x)
  <2>1. x.x1 \in Int /\ x.y1 \in Int /\ x.x2 \in Int /\ x.y2 \in Int
    BY DEF BoxState
  <2>2. Scaled(x) \in BoxState
    BY <2>1 DEF Scaled, Box, BoxState
  <2>3. /\ Scaled(x).x2 - Scaled(x).x1 = 2 * (x.x2 - x.x1)
        /\ Scaled(x).y2 - Scaled(x).y1 = 2 * (x.y2 - x.y1)
    BY <2>1 DEF Scaled, Box
  <2>4. x.x2 - x.x1 \in Int /\ x.y2 - x.y1 \in Int
    BY <2>1
  <2>. QED
    BY <1>1, <2>2, <2>3, <2>4 DEF Area
<1>3. Intersection(Scaled(a), Scaled(b)) = 4 * Intersection(a, b)
  <2>. DEFINE m == Box(Greater(a.x1, b.x1), Greater(a.y1, b.y1), Lesser(a.x2, b.x2), Lesser(a.y2, b.y2))
  <2>1. /\ a.x1 \in Int /\ a.y1 \in Int /\ a.x2 \in Int /\ a.y2 \in Int
        /\ b.x1 \in Int /\ b.y1 \in Int /\ b.x2 \in Int /\ b.y2 \in Int
    BY DEF BoxState
  <2>2. m \in BoxState
    BY <2>1 DEF BoxState, Box, Greater, Lesser
  <2>3. \A u, v \in Int : Greater(2 * u, 2 * v) = 2 * Greater(u, v) /\ Lesser(2 * u, 2 * v) = 2 * Lesser(u, v)
    BY DEF Greater, Lesser
  <2>4. Scaled(m) = Box(Greater(2 * a.x1, 2 * b.x1), Greater(2 * a.y1, 2 * b.y1),
                        Lesser(2 * a.x2, 2 * b.x2), Lesser(2 * a.y2, 2 * b.y2))
    BY <2>1, <2>3 DEF Scaled, Box
  <2>5. Intersection(Scaled(a), Scaled(b)) = Area(Scaled(m))
    BY <2>4 DEF Intersection, Scaled, Box
  <2>6. Intersection(a, b) = Area(m)
    BY DEF Intersection
  <2>. HIDE DEF m
  <2>. QED
    BY <1>2, <2>2, <2>5, <2>6
<1>. QED
  BY <1>2, <1>3

\* Objects of one class that a network can tell apart: each has area, and no
\* two would suppress one another.
Distinct(gt) ==
    /\ \A j \in 1..Len(gt) : HasArea(Scaled(gt[j].box))
    /\ \A i, j \in 1..Len(gt) : i # j => ~IouAbove(Scaled(gt[i].box), Scaled(gt[j].box), NmsNum, NmsDen)

\* A row with the box of such an object hits it.
LEMMA HitsItself ==
    ASSUME NEW gt \in Seq(ObjectState), Distinct(gt), NEW j \in 1..Len(gt)
    PROVE  Hits(gt[j].box, gt) /\ Nearest(gt[j].box, gt) = j
<1>. DEFINE b == gt[j].box
            m == Nearest(b, gt)
            y == gt[m].box
<1>1. Len(gt) \in Nat /\ \A i \in 1..Len(gt) : gt[i].box \in BoxState
  <2>1. \A i \in 1..Len(gt) : gt[i] \in ObjectState
    BY ElementOfSeq
  <2>. QED
    BY <2>1, LenProperties DEF ObjectState
<1>2. gt # << >>
  BY <1>1, EmptySeq
<1>3. b \in BoxState /\ m \in 1..Len(gt) /\ Nearer(b, y, b)
  <2>1. b \in BoxState
    BY <1>1
  <2>. HIDE DEF b
  <2>2. m \in 1..Len(gt) /\ \A i \in 1..Len(gt) : Nearer(b, y, gt[i].box)
    BY <1>2, <2>1, NearestIs
  <2>. QED
    BY <2>1, <2>2 DEF b
<1>4. y \in BoxState /\ HasArea(Scaled(b)) /\ (m # j => ~IouAbove(Scaled(b), Scaled(y), NmsNum, NmsDen))
  BY <1>1, <1>3 DEF Distinct
<1>5. m \in Int /\ j \in Int
  BY <1>1, <1>3
<1>. HIDE DEF b, y, m
<1>. DEFINE A == Area(b)
            i == Intersection(b, y)
            u == Union(b, y)
<1>6. /\ A \in Nat /\ Area(y) \in Nat /\ i \in Nat /\ i <= A /\ i <= Area(y)
  BY <1>3, <1>4, AreasAre
<1>7. Intersection(b, b) = A /\ A > 0
  <2>1. b.x1 \in Int /\ b.y1 \in Int /\ b.x2 \in Int /\ b.y2 \in Int
    BY <1>3 DEF BoxState
  <2>2. b.x2 - b.x1 > 0 /\ b.y2 - b.y1 > 0
    <3>1. \A p, q \in Int : 2 * p < 2 * q => q - p > 0
      OBVIOUS
    <3>2. 2 * b.x1 < 2 * b.x2 /\ 2 * b.y1 < 2 * b.y2
      BY <1>4, Zenon DEF HasArea, Scaled, Box
    <3>. QED
      BY <2>1, <3>1, <3>2, Zenon
  <2>3. Intersection(b, b) = A
    BY <2>1 DEF Intersection, Area, Box, Greater, Lesser
  <2>. DEFINE w == b.x2 - b.x1
              h == b.y2 - b.y1
  <2>4. A = w * h
    BY <2>1, <2>2 DEF Area, Greater
  <2>5. w \in Nat \ {0} /\ h \in Nat \ {0}
    BY <2>1, <2>2
  <2>. HIDE DEF w, h, A
  <2>6. w * h > 0
    BY <2>5
  <2>. QED
    BY <2>3, <2>4, <2>6
<1>8. Union(b, b) = A
  BY <1>6, <1>7 DEF Union
<1>9. u = A + Area(y) - i
  BY DEF Union
<1>10. i * A >= A * u
  BY <1>3, <1>7, <1>8 DEF Nearer
<1>. HIDE DEF A, i, u
<1>11. i >= u
  <2>1. u \in Int
    BY <1>6, <1>9
  <2>. SUFFICES ASSUME i < u PROVE FALSE
    BY <1>6, <2>1
  <2>2. A * u > A * i
    <3>1. u - i > 0 /\ u - i \in Int
      BY <1>6, <2>1
    <3>2. A * (u - i) > 0
      BY <1>6, <1>7, <3>1
    <3>3. A * (u - i) = A * u - A * i
      BY <1>6, <2>1
    <3>4. A * u \in Int /\ A * i \in Int
      BY <1>6, <2>1
    <3>. QED
      BY <3>2, <3>3, <3>4
  <2>3. i * A = A * i /\ A * u \in Int /\ A * i \in Int
    BY <1>6, <2>1
  <2>. QED
    BY <1>10, <2>2, <2>3
<1>12. i = u /\ i > 0
  BY <1>6, <1>7, <1>9, <1>11
<1>13. m = j
  <2>1. /\ Intersection(Scaled(b), Scaled(y)) = 4 * i
        /\ Area(Scaled(b)) = 4 * A /\ Area(Scaled(y)) = 4 * Area(y)
    BY <1>3, <1>4, ScaledAreas DEF A, i
  <2>2. Union(Scaled(b), Scaled(y)) = 4 * u
    BY <1>6, <1>9, <2>1 DEF Union
  <2>3. IouAbove(Scaled(b), Scaled(y), NmsNum, NmsDen)
    BY <1>6, <1>12, <2>1, <2>2 DEF IouAbove, NmsNum, NmsDen
  <2>. QED
    BY <1>4, <2>3
<1>14. IouAtLeast(b, y, IouNum, IouDen)
  BY <1>6, <1>12 DEF IouAtLeast, IouNum, IouDen, i, u
<1>15. Hits(b, gt)
  BY <1>2, <1>14, Zenon DEF Hits, y, m
<1>. QED
  BY <1>13, <1>15 DEF b, m

\* Rows that have just the objects' boxes, and each once.
Fits(mine, gt) ==
    /\ \A i \in 1..Len(mine) : \E j \in 1..Len(gt) : mine[i].box = gt[j].box
    /\ \A j \in 1..Len(gt) : \E i \in 1..Len(mine) : mine[i].box = gt[j].box
    /\ \A i, j \in 1..Len(mine) : mine[i].box = mine[j].box => i = j

\* Of an image that is got right every row is a true positive, and there are as
\* many rows as objects.
AllRight(mine, gt) ==
    /\ Len(mine) = Len(gt)
    /\ \A i \in 1..Len(mine) : Matches(mine, gt)[i].tp = 1

\* The metric counts rows that have just the objects' boxes as right.
LEMMA FittingIsRight ==
    ASSUME NEW mine \in Seq(RowState), NEW gt \in Seq(ObjectState), Fits(mine, gt), Distinct(gt)
    PROVE  AllRight(mine, gt)
<1>. DEFINE n == Len(mine)
            m == Len(gt)
            f == [i \in 1..n |-> Nearest(mine[i].box, gt)]
<1>1. n \in Nat /\ m \in Nat
  BY LenProperties
<1>2. ASSUME NEW i \in 1..n, NEW j \in 1..m, mine[i].box = gt[j].box
      PROVE  Hits(mine[i].box, gt) /\ Nearest(mine[i].box, gt) = j
  BY <1>2, HitsItself
<1>3. ASSUME NEW i \in 1..n
      PROVE  /\ Hits(mine[i].box, gt)
             /\ f[i] \in 1..m /\ mine[i].box = gt[f[i]].box
  <2>1. PICK j \in 1..m : mine[i].box = gt[j].box
    BY DEF Fits
  <2>. QED
    BY <1>2, <2>1
<1>4. ASSUME NEW i \in 1..n, NEW h \in 1..n, f[i] = f[h] PROVE i = h
  <2>1. mine[i].box = mine[h].box
    BY <1>3, <1>4
  <2>. QED
    BY <2>1 DEF Fits
<1>5. ASSUME NEW j \in 1..m PROVE \E i \in 1..n : f[i] = j
  <2>1. PICK i \in 1..n : mine[i].box = gt[j].box
    BY DEF Fits
  <2>. QED
    BY <1>2, <2>1
<1>6. n = m
  <2>1. \A k \in Nat : IsFiniteSet(1..k) /\ Cardinality(1..k) = k
    BY FS_Interval
  <2>2. f \in [1..n -> 1..m]
    BY <1>3
  <2>. HIDE DEF f
  <2>3. Cardinality(1..m) = Cardinality(1..n)
    BY <1>1, <1>4, <1>5, <2>1, <2>2, OneForOne, Zenon
  <2>. QED
    BY <1>1, <2>1, <2>3
<1>7. ASSUME NEW i \in 1..n PROVE Matches(mine, gt)[i].tp = 1
  <2>. DEFINE matched(k) == \E h \in 1..k - 1 :
                  Hits(mine[h].box, gt) /\ Nearest(mine[h].box, gt) = Nearest(mine[k].box, gt)
  <2>1. Matches(mine, gt) = [k \in 1..n |->
            [score |-> mine[k].score, tp |-> IF Hits(mine[k].box, gt) /\ ~matched(k) THEN 1 ELSE 0]]
    BY Zenon DEF Matches
  <2>2. ~matched(i)
    <3>1. ASSUME NEW h \in 1..i - 1, Nearest(mine[h].box, gt) = Nearest(mine[i].box, gt) PROVE FALSE
      <4>1. h \in 1..n /\ h # i
        BY <1>1
      <4>2. f[h] = f[i]
        BY <3>1, <4>1
      <4>. QED
        BY <1>4, <4>1, <4>2
    <3>. QED
      BY <3>1
  <2>. HIDE DEF matched
  <2>. QED
    BY <1>3, <2>1, <2>2
<1>. QED
  BY <1>6, <1>7 DEF AllRight
-------------------------------------------------------------------------------
\* A box within the bounds is not clipped.
LEMMA ClipLeaves ==
    ASSUME NEW b \in BoxState, NEW l \in Nat, Inside(Scaled(b), l, l)
    PROVE  ClipBox(Scaled(b), l, l) = Scaled(b)
<1>1. b.x1 \in Int /\ b.y1 \in Int /\ b.x2 \in Int /\ b.y2 \in Int
  BY DEF BoxState
<1>2. \A v \in Int : 0 <= v /\ v <= l => Clamp(v, 0, l) = v
  BY DEF Clamp, Lesser, Greater
<1>. DEFINE p == 2 * b.x1
            q == 2 * b.y1
            u == 2 * b.x2
            v == 2 * b.y2
<1>3. Scaled(b) = Box(p, q, u, v) /\ p \in Int /\ q \in Int /\ u \in Int /\ v \in Int
  BY <1>1 DEF Scaled
<1>. HIDE DEF p, q, u, v
<1>4. p <= l /\ 0 <= p /\ q <= l /\ 0 <= q /\ u <= l /\ 0 <= u /\ v <= l /\ 0 <= v
  BY <1>3 DEF Inside, Box
<1>5. ClipBox(Box(p, q, u, v), l, l) = Box(Clamp(p, 0, l), Clamp(q, 0, l), Clamp(u, 0, l), Clamp(v, 0, l))
  BY DEF ClipBox, Box
<1>. QED
  BY <1>2, <1>3, <1>4, <1>5

\* What is stored for an object within the range the targets can express, and
\* that it says where the object is.
LEMMA SlotTellsBox ==
    ASSUME NEW side \in Nat \ {0}, NEW b \in BoxState, NEW h,
           Inside(Scaled(b), Cell * (side - 1), Cell * (side - 1)), HasArea(Scaled(b)),
           PairAt(h.wh, Slot(Scaled(b), side).ind) = Slot(Scaled(b), side).wh,
           PairAt(h.offset, Slot(Scaled(b), side).ind) = Slot(Scaled(b), side).offset
    PROVE  OutputBox(b, side) = Scaled(b) /\ BoxAt(h, Slot(Scaled(b), side).ind) = Scaled(b)
<1>. DEFINE x == Scaled(b)
            c == CenterCell(x, side)
            l == Cell * (side - 1)
<1>1. b.x1 \in Int /\ b.y1 \in Int /\ b.x2 \in Int /\ b.y2 \in Int /\ l \in Nat
  BY DEF BoxState, Cell
<1>2. x = Box(2 * b.x1, 2 * b.y1, 2 * b.x2, 2 * b.y2)
  BY DEF Scaled
<1>3. /\ x.x1 = 2 * b.x1 /\ x.y1 = 2 * b.y1 /\ x.x2 = 2 * b.x2 /\ x.y2 = 2 * b.y2
  BY <1>2 DEF Box
<1>4. Inside(x, l, l) /\ HasArea(x)
  OBVIOUS
<1>. HIDE DEF l
<1>5. OutputBox(b, side) = x
  BY <1>1, <1>4, ClipLeaves DEF OutputBox, l
<1>6. c \in Cells(side)
  <2>1. Middle(x)[1] \in Nat /\ Middle(x)[2] \in Nat
    BY <1>1, <1>3, <1>4 DEF Middle, Inside
  <2>2. \A m \in Nat : Lesser(m \div Cell, side - 1) \in 0..side - 1
    BY DEF Cell, Lesser
  <2>. HIDE DEF x
  <2>. QED
    BY <2>1, <2>2 DEF CenterCell, Cells
<1>7. Slot(x, side) = [ind |-> c, wh |-> <<x.x2 - x.x1, x.y2 - x.y1>>,
                       offset |-> <<Middle(x)[1] - Cell * c[1], Middle(x)[2] - Cell * c[2]>>]
  BY DEF Slot
<1>. DEFINE s == Slot(x, side)
<1>8. PairAt(h.wh, s.ind) = s.wh /\ PairAt(h.offset, s.ind) = s.offset
  OBVIOUS
<1>. HIDE DEF c, x, s
<1>9. /\ s.ind = c /\ s.wh[1] = x.x2 - x.x1 /\ s.wh[2] = x.y2 - x.y1
      /\ s.offset[1] = Middle(x)[1] - Cell * c[1] /\ s.offset[2] = Middle(x)[2] - Cell * c[2]
  BY <1>7 DEF s
<1>10. Middle(x)[1] = b.x1 + b.x2 /\ Middle(x)[2] = b.y1 + b.y2
  <2>1. \A p, q \in Int : (2 * p + 2 * q) \div 2 = p + q
    OBVIOUS
  <2>. QED
    BY <1>1, <1>3, <2>1 DEF Middle
<1>11. (x.x2 - x.x1) \div 2 = b.x2 - b.x1 /\ (x.y2 - x.y1) \div 2 = b.y2 - b.y1
  BY <1>1, <1>3
<1>12. c[1] \in Int /\ c[2] \in Int
  BY <1>6 DEF Cells
<1>13. BoxAt(h, c) = x
  <2>. DEFINE u == Cell * c[1] + s.offset[1]
              v == Cell * c[2] + s.offset[2]
  <2>1. u = b.x1 + b.x2 /\ v = b.y1 + b.y2
    BY <1>1, <1>9, <1>10, <1>12 DEF Cell
  <2>. HIDE DEF u, v
  <2>2. BoxAt(h, c) = Box(u - (s.wh[1] \div 2), v - (s.wh[2] \div 2), u + (s.wh[1] \div 2), v + (s.wh[2] \div 2))
    BY <1>8, <1>9 DEF BoxAt, u, v
  <2>3. s.wh[1] \div 2 = b.x2 - b.x1 /\ s.wh[2] \div 2 = b.y2 - b.y1
    BY <1>9, <1>11
  <2>. DEFINE p == s.wh[1] \div 2
              q == s.wh[2] \div 2
  <2>. HIDE DEF p, q
  <2>4. u - p = 2 * b.x1 /\ v - q = 2 * b.y1 /\ u + p = 2 * b.x2 /\ v + q = 2 * b.y2
    BY <1>1, <2>1, <2>3 DEF p, q
  <2>. QED
    BY <1>2, <2>2, <2>4 DEF p, q
<1>. QED
  BY <1>5, <1>9, <1>13 DEF x, s

\* Of an image that targets can express every object has a slot of its own.
LEMMA SlotsAreOwn ==
    ASSUME DataTyped, Len(objects) <= MaxObjects, Encodes(targets, objects, Classes, Side, MaxObjects), Expressible
    PROVE  LET s(k) == Slot(Scaled(objects[k].box), Side)
           IN  /\ DOMAIN targets.slot = 1..Len(objects)
               /\ \A k \in 1..Len(objects) :
                    /\ objects[k] \in ObjectState
                    /\ Inside(Scaled(objects[k].box), Cell * (Side - 1), Cell * (Side - 1))
                    /\ HasArea(Scaled(objects[k].box))
                    /\ targets.slot[k] = s(k)
               /\ \A j, k \in 1..Len(objects) : targets.slot[j].ind = targets.slot[k].ind => j = k
<1>. DEFINE n == Len(objects)
            x(k) == Scaled(objects[k].box)
            l == Cell * (Side - 1)
<1>1. n \in Nat /\ MaxObjects \in Nat /\ Lesser(n, MaxObjects) = n /\ Side \in Nat \ {0}
  BY LenProperties, EvaluationAssumption, SideIs DEF DataTyped, ObjectsTyped, Lesser
<1>2. ASSUME NEW k \in 1..n PROVE objects[k] \in ObjectState
  BY ElementOfSeq DEF DataTyped, ObjectsTyped
<1>3. ASSUME NEW k \in 1..n PROVE Inside(x(k), l, l) /\ HasArea(x(k))
  BY DEF Expressible, Side
<1>4. ASSUME NEW j \in 1..n, NEW k \in 1..n, CenterCell(x(j), Side) = CenterCell(x(k), Side) PROVE j = k
  BY <1>4 DEF Expressible, Side
<1>. HIDE DEF n
<1>5. ASSUME NEW k \in 1..n PROVE OutputBox(objects[k].box, Side) = x(k)
  <2>. DEFINE b == objects[k].box
  <2>1. b \in BoxState /\ Inside(Scaled(b), l, l)
    BY <1>2, <1>3 DEF ObjectState
  <2>2. l \in Nat
    BY <1>1 DEF Cell
  <2>. HIDE DEF b, l
  <2>3. ClipBox(Scaled(b), l, l) = Scaled(b)
    BY <2>1, <2>2, ClipLeaves
  <2>. QED
    BY <2>3 DEF OutputBox, b, l
<1>6. DOMAIN targets.slot = 1..n
  <2>1. DOMAIN targets.slot = {k \in 1..n : HasArea(OutputBox(objects[k].box, Side))}
    BY <1>1 DEF Encodes, n
  <2>. QED
    BY <1>3, <1>5, <2>1
<1>7. \A k \in 1..n : targets.slot[k] = Slot(x(k), Side)
  BY <1>5, <1>6 DEF Encodes
<1>8. \A k \in 1..n : targets.slot[k].ind = CenterCell(x(k), Side)
  <2>1. \A y : Slot(y, Side).ind = CenterCell(y, Side)
    BY DEF Slot
  <2>. HIDE DEF x
  <2>. QED
    BY <1>7, <2>1
<1>9. \A j, k \in 1..n : targets.slot[j].ind = targets.slot[k].ind => j = k
  BY <1>4, <1>8
<1>. QED
  BY <1>2, <1>3, <1>6, <1>7, <1>9 DEF n

\* The objects a network is asked for, and the rows it answers with: the same
\* boxes, in units and in pixels.
Known == {k \in 1..Len(objects) : objects[k].cls \in Classes}
RowOf(k) == RowAt(heads, objects[k].cls, targets.slot[k].ind)

LEMMA IdealRowsAre ==
    ASSUME DataTyped, Len(objects) <= MaxObjects, Encodes(targets, objects, Classes, Side, MaxObjects), Expressible,
           NEW f \in Showings, heads = Ideal(f)
    PROVE  /\ PeakRows(heads, HeadSide(Size), Padded(HeadSide(Size))) = {RowOf(k) : k \in Known}
           /\ \A k \in Known :
                /\ RowOf(k).cls = objects[k].cls /\ RowOf(k).score = Top
                /\ RowOf(k).box = Scaled(objects[k].box)
                /\ InPixels(RowOf(k)).box = objects[k].box
                /\ InPixels(RowOf(k)).cls = objects[k].cls
                /\ InPixels(RowOf(k)).cell = targets.slot[k].ind
           /\ \A j, k \in Known : targets.slot[j].ind = targets.slot[k].ind => j = k
           /\ \A j, k \in Known : objects[j].box = objects[k].box => j = k
<1>. DEFINE n == Len(objects)
            s(k) == Slot(Scaled(objects[k].box), Side)
<1>1. /\ DOMAIN targets.slot = 1..n
      /\ \A k \in 1..n :
            /\ objects[k] \in ObjectState
            /\ Inside(Scaled(objects[k].box), Cell * (Side - 1), Cell * (Side - 1))
            /\ HasArea(Scaled(objects[k].box))
            /\ targets.slot[k] = s(k)
      /\ \A j, k \in 1..n : targets.slot[j].ind = targets.slot[k].ind => j = k
  BY SlotsAreOwn
<1>2. Side \in Nat \ {0}
  BY SideIs
<1>3. ASSUME NEW k \in 1..n
      PROVE  /\ PairAt(heads.wh, targets.slot[k].ind) = targets.slot[k].wh
             /\ PairAt(heads.offset, targets.slot[k].ind) = targets.slot[k].offset
  <2>1. targets.slot[k].ind \in Centers
    BY <1>1 DEF Centers
  <2>2. f[targets.slot[k].ind] \in 1..n /\ targets.slot[f[targets.slot[k].ind]].ind = targets.slot[k].ind
    BY <1>1, <2>1 DEF Showings
  <2>3. f[targets.slot[k].ind] = k
    BY <1>1, <2>2
  <2>. QED
    BY <2>1, <2>3 DEF Ideal, PairAt
<1>4. ASSUME NEW k \in 1..n PROVE BoxAt(heads, targets.slot[k].ind) = Scaled(objects[k].box)
  <2>. DEFINE b == objects[k].box
  <2>1. /\ b \in BoxState /\ targets.slot[k] = Slot(Scaled(b), Side)
        /\ Inside(Scaled(b), Cell * (Side - 1), Cell * (Side - 1)) /\ HasArea(Scaled(b))
    BY <1>1 DEF ObjectState
  <2>2. /\ PairAt(heads.wh, Slot(Scaled(b), Side).ind) = Slot(Scaled(b), Side).wh
        /\ PairAt(heads.offset, Slot(Scaled(b), Side).ind) = Slot(Scaled(b), Side).offset
    BY <1>3, <2>1
  <2>. HIDE DEF b
  <2>3. BoxAt(heads, Slot(Scaled(b), Side).ind) = Scaled(b)
    BY <1>2, <2>1, <2>2, SlotTellsBox
  <2>. QED
    BY <2>1, <2>3 DEF b
<1>5. \A k \in Known : k \in 1..n /\ objects[k].cls \in Classes
  BY DEF Known
<1>6. ASSUME NEW k \in Known PROVE targets.slot[k].ind \in Positives(objects[k].cls)
  <2>1. k \in SlotsOf(objects[k].cls)
    BY <1>1, <1>5 DEF SlotsOf
  <2>. QED
    BY <1>5, <2>1, PositivesAre
<1>7. ASSUME NEW k \in Known
      PROVE  /\ RowOf(k).cls = objects[k].cls /\ RowOf(k).score = Top
             /\ RowOf(k).box = Scaled(objects[k].box)
             /\ InPixels(RowOf(k)).box = objects[k].box
             /\ InPixels(RowOf(k)).cls = objects[k].cls
             /\ InPixels(RowOf(k)).cell = targets.slot[k].ind
  <2>1. heads.hm[objects[k].cls][targets.slot[k].ind] = Top
    BY <1>6 DEF Ideal, Positives
  <2>2. RowOf(k) = [cls |-> objects[k].cls, score |-> Top,
                    box |-> Scaled(objects[k].box), cell |-> targets.slot[k].ind]
    BY <1>4, <1>5, <2>1 DEF RowOf, RowAt
  <2>. DEFINE b == objects[k].box
              r == RowOf(k)
  <2>3. b \in BoxState /\ r.box = Scaled(b)
    BY <1>1, <1>5, <2>2 DEF ObjectState
  <2>. HIDE DEF b, r
  <2>4. Box(r.box.x1 \div 2, r.box.y1 \div 2, r.box.x2 \div 2, r.box.y2 \div 2) = b
    <3>1. \A v \in Int : (2 * v) \div 2 = v
      OBVIOUS
    <3>2. b.x1 \in Int /\ b.y1 \in Int /\ b.x2 \in Int /\ b.y2 \in Int /\ b = Box(b.x1, b.y1, b.x2, b.y2)
      BY <2>3 DEF BoxState, Box
    <3>3. r.box.x1 = 2 * b.x1 /\ r.box.y1 = 2 * b.y1 /\ r.box.x2 = 2 * b.x2 /\ r.box.y2 = 2 * b.y2
      BY <2>3 DEF Scaled, Box
    <3>. QED
      BY <3>1, <3>2, <3>3
  <2>5. InPixels(r) = [r EXCEPT !.box = b]
    BY <2>4 DEF InPixels
  <2>. QED
    BY <2>2, <2>5 DEF b, r
<1>8. ASSUME NEW r
      PROVE  r \in PeakRows(heads, HeadSide(Size), Padded(HeadSide(Size))) <=> r \in {RowOf(k) : k \in Known}
  <2>1. r \in PeakRows(heads, HeadSide(Size), Padded(HeadSide(Size))) <=>
            \E cls \in Classes : \E c \in Positives(cls) : r = RowAt(heads, cls, c)
    BY IdealPeaks
  <2>2. ASSUME NEW cls \in Classes, NEW c \in Positives(cls) PROVE \E k \in Known : RowAt(heads, cls, c) = RowOf(k)
    <3>1. PICK k \in SlotsOf(cls) : c = targets.slot[k].ind
      BY PositivesAre
    <3>2. k \in Known /\ objects[k].cls = cls
      BY <1>1 DEF SlotsOf, Known
    <3>. QED
      BY <3>1, <3>2 DEF RowOf
  <2>3. ASSUME NEW k \in Known
        PROVE  \E cls \in Classes : \E c \in Positives(cls) : RowOf(k) = RowAt(heads, cls, c)
    BY <1>5, <1>6 DEF RowOf
  <2>. QED
    BY <2>1, <2>2, <2>3
<1>9. \A j, k \in Known : targets.slot[j].ind = targets.slot[k].ind => j = k
  BY <1>1, <1>5
<1>10. \A j, k \in Known : objects[j].box = objects[k].box => j = k
  BY <1>1, <1>5, <1>9
<1>11. PeakRows(heads, HeadSide(Size), Padded(HeadSide(Size))) = {RowOf(k) : k \in Known}
  BY <1>8
<1>. QED
  BY <1>7, <1>9, <1>10, <1>11
-------------------------------------------------------------------------------
\* The objects of a class, of an image that targets can express.
LEMMA ObjectsAreDistinct ==
    ASSUME DataTyped, Expressible, NEW c
    PROVE  LET gt == OfClassIn(objects, c)
           IN  /\ gt \in Seq(ObjectState) /\ Distinct(gt)
               /\ \A j \in 1..Len(gt) : \E k \in 1..Len(objects) : gt[j] = objects[k] /\ objects[k].cls = c
               /\ \A k \in 1..Len(objects) : objects[k].cls = c => \E j \in 1..Len(gt) : gt[j] = objects[k]
<1>. DEFINE gt == OfClassIn(objects, c)
            n == Len(objects)
            mine == {o \in Range(objects) : o.cls = c}
<1>1. objects \in Seq(ObjectState) /\ n \in Nat /\ DOMAIN objects = 1..n
  BY LenProperties DEF DataTyped, ObjectsTyped
<1>2. gt \in Seq(ObjectState) /\ Picks(gt, objects, n) /\ Range(gt) = Range(objects) \cap mine
  BY <1>1, OnlyIs DEF OfClassIn
<1>3. DOMAIN gt = 1..Len(gt) /\ Len(gt) \in Nat
  BY <1>2, LenProperties
<1>. HIDE DEF gt
<1>4. PICK h : Places(gt, objects, n, h)
  BY <1>2 DEF Picks
<1>5. /\ \A j \in 1..Len(gt) : h[j] \in 1..n /\ gt[j] = objects[h[j]]
      /\ \A i, j \in 1..Len(gt) : i < j => h[i] < h[j]
  BY <1>4 DEF Places
<1>6. ASSUME NEW j \in 1..Len(gt) PROVE gt[j].cls = c
  <2>1. gt[j] \in Range(gt)
    BY <1>3 DEF Range
  <2>. QED
    BY <1>2, <2>1
<1>7. ASSUME NEW i \in 1..Len(gt), NEW j \in 1..Len(gt), i # j PROVE h[i] # h[j]
  <2>1. i < j \/ j < i
    BY <1>3, <1>7
  <2>2. h[i] \in Int /\ h[j] \in Int
    BY <1>1, <1>5
  <2>. QED
    BY <1>5, <2>1, <2>2
<1>8. Distinct(gt)
  <2>1. \A k \in 1..n : HasArea(Scaled(objects[k].box))
    BY DEF Expressible
  <2>2. \A i, j \in 1..n : i # j /\ objects[i].cls = objects[j].cls =>
            ~IouAbove(Scaled(objects[i].box), Scaled(objects[j].box), NmsNum, NmsDen)
    BY DEF Expressible
  <2>3. ASSUME NEW j \in 1..Len(gt) PROVE HasArea(Scaled(gt[j].box))
    BY <1>5, <2>1
  <2>4. ASSUME NEW i \in 1..Len(gt), NEW j \in 1..Len(gt), i # j
        PROVE  ~IouAbove(Scaled(gt[i].box), Scaled(gt[j].box), NmsNum, NmsDen)
    <3>1. h[i] \in 1..n /\ h[j] \in 1..n /\ h[i] # h[j] /\ gt[i] = objects[h[i]] /\ gt[j] = objects[h[j]]
      BY <1>5, <1>7, <2>4
    <3>2. gt[i].cls = c /\ gt[j].cls = c
      BY <1>6
    <3>. QED
      BY <2>2, <3>1, <3>2
  <2>. QED
    BY <2>3, <2>4, Zenon DEF Distinct
<1>9. ASSUME NEW k \in 1..n, objects[k].cls = c PROVE \E j \in 1..Len(gt) : gt[j] = objects[k]
  <2>1. objects[k] \in Range(objects)
    BY <1>1 DEF Range
  <2>2. objects[k] \in Range(gt)
    BY <1>2, <1>9, <2>1
  <2>. QED
    BY <1>3, <2>2 DEF Range
<1>. QED
  BY <1>2, <1>5, <1>6, <1>8, <1>9 DEF gt

\* decode_detections finds what an ideal network shows: each object once.
LEMMA AllAreFound ==
    ASSUME DataTyped, HeadsLike(heads), Len(objects) <= MaxObjects, MaxObjects <= TopK,
           Encodes(targets, objects, Classes, Side, MaxObjects), Expressible,
           NEW f \in Showings, heads = Ideal(f), DecodeImage
    PROVE  /\ rows' \in Seq(RowState) /\ IsInjective(rows')
           /\ Range(rows') = {InPixels(RowOf(k)) : k \in Known}
<1>. DEFINE peaks == PeakRows(heads, HeadSide(Size), Padded(HeadSide(Size)))
            found(ranking) == DecodeTorch(ranking, TopK, Threshold, NmsNum, NmsDen)
            n == Len(objects)
            mine(k) == InPixels(RowOf(k))
<1>1. PICK ranking \in Rankings(peaks) : rows' = [i \in 1..Len(found(ranking)) |-> InPixels(found(ranking)[i])]
  BY DEF DecodeImage
<1>2. IsFiniteSet(peaks) /\ peaks \subseteq RowState
  BY SideIs, PeakRowsAre
<1>3. /\ peaks = {RowOf(k) : k \in Known}
      /\ \A k \in Known :
           /\ RowOf(k).cls = objects[k].cls /\ RowOf(k).score = Top
           /\ RowOf(k).box = Scaled(objects[k].box)
           /\ mine(k).cell = targets.slot[k].ind
      /\ \A j, k \in Known : targets.slot[j].ind = targets.slot[k].ind => j = k
  BY IdealRowsAre
<1>. HIDE DEF peaks
<1>4. RowsTyped(peaks)
  BY <1>2 DEF RowsTyped, RowState
<1>5. TopK \in Nat /\ Threshold \in Int /\ Top >= Threshold
  BY DecodeAssumption, EvaluationAssumption, HeatAssumption
<1>6. n \in Nat /\ n <= TopK
  BY <1>5, LenProperties, EvaluationAssumption DEF DataTyped, ObjectsTyped
<1>7. Cardinality(peaks) <= TopK
  <2>1. IsFiniteSet(Known) /\ Cardinality(Known) <= n /\ Cardinality(Known) \in Nat
    BY <1>6, PlacesAreFinite DEF Known
  <2>. DEFINE g == [k \in Known |-> RowOf(k)]
  <2>2. g \in Surjection(Known, peaks)
    <3>1. g \in [Known -> peaks]
      BY <1>3
    <3>2. \A r \in peaks : \E k \in Known : g[k] = r
      BY <1>3
    <3>. HIDE DEF g
    <3>. QED
      BY <3>1, <3>2 DEF Surjection
  <2>3. Cardinality(peaks) <= Cardinality(Known)
    <3>. HIDE DEF g
    <3>. QED
      BY <2>1, <2>2, FS_Surjection
  <2>4. Cardinality(peaks) \in Nat
    BY <1>2, FS_CardinalityType
  <2>. QED
    BY <1>5, <1>6, <2>1, <2>3, <2>4
<1>. DEFINE t == found(ranking)
            u == {r \in Range(FirstOf(ranking, TopK)) : r.score >= Threshold}
<1>8. u = peaks
  <2>1. \A r \in peaks : r.score = Top
    BY <1>3
  <2>2. ASSUME NEW r \in peaks PROVE r \in Range(FirstOf(ranking, TopK))
    <3>1. {q \in peaks : q.score >= r.score} \subseteq peaks
      OBVIOUS
    <3>2. Cardinality({q \in peaks : q.score >= r.score}) <= Cardinality(peaks)
      BY <1>2, <3>1, FS_Subset
    <3>3. Cardinality(peaks) \in Nat /\ Cardinality({q \in peaks : q.score >= r.score}) \in Nat
      BY <1>2, <3>1, FS_Subset, FS_CardinalityType
    <3>4. Cardinality({q \in peaks : q.score >= r.score}) <= TopK
      BY <1>5, <1>7, <3>2, <3>3
    <3>. QED
      BY <1>2, <1>4, <1>5, <3>4, BestComeFirst
  <2>3. Range(FirstOf(ranking, TopK)) \subseteq peaks
    <3>1. ranking \in Seq(peaks)
      BY <1>2, RankingIs
    <3>. DEFINE o == FirstOf(ranking, TopK)
    <3>2. o \in Seq(peaks)
      BY <1>5, <3>1, FirstIs
    <3>. HIDE DEF o
    <3>3. DOMAIN o = 1..Len(o) /\ \A i \in 1..Len(o) : o[i] \in peaks
      BY <3>2, LenProperties, ElementOfSeq
    <3>. QED
      BY <3>3 DEF Range, o
  <2>. QED
    BY <1>5, <2>1, <2>2, <2>3
<1>9. /\ t \in Seq(peaks) /\ IsInjective(t) /\ Range(t) \subseteq peaks
      /\ \A cls : Greedy(Class(Range(t), cls), Class(peaks, cls), NmsNum, NmsDen)
  <2>. HIDE DEF t
  <2>1. /\ t \in Seq(peaks) /\ IsInjective(t) /\ Range(t) \subseteq u
        /\ \A cls : Greedy(Class(Range(t), cls), Class(u, cls), NmsNum, NmsDen)
    BY <1>2, <1>4, <1>5, DecodeTorchIs DEF t
  <2>. HIDE DEF u
  <2>. QED
    BY <1>8, <2>1
<1>10. rows' = [i \in 1..Len(t) |-> InPixels(t[i])]
  BY <1>1
<1>. HIDE DEF found, t, u
<1>11. Range(t) = peaks
  <2>. SUFFICES ASSUME NEW r \in peaks, r \notin Range(t) PROVE FALSE
    BY <1>9
  <2>1. r \in Class(peaks, r.cls) /\ r \notin Class(Range(t), r.cls)
    BY DEF Class
  <2>2. PICK q \in Class(Range(t), r.cls) : IouAbove(q.box, r.box, NmsNum, NmsDen)
    BY <1>9, <2>1 DEF Greedy
  <2>3. q \in peaks /\ q.cls = r.cls /\ q # r
    BY <1>9, <2>1, <2>2 DEF Class
  <2>4. PICK i \in Known : q = RowOf(i)
    BY <1>3, <2>3
  <2>5. PICK j \in Known : r = RowOf(j)
    BY <1>3
  <2>6. i # j /\ objects[i].cls = objects[j].cls /\ q.box = Scaled(objects[i].box) /\ r.box = Scaled(objects[j].box)
    BY <1>3, <2>3, <2>4, <2>5
  <2>7. i \in 1..n /\ j \in 1..n
    BY DEF Known
  <2>8. ~IouAbove(Scaled(objects[i].box), Scaled(objects[j].box), NmsNum, NmsDen)
    BY <2>6, <2>7 DEF Expressible
  <2>. QED
    BY <2>2, <2>6, <2>8
<1>12. DOMAIN t = 1..Len(t) /\ Len(t) \in Nat /\ \A i \in 1..Len(t) : t[i] \in peaks
  BY <1>9, LenProperties, ElementOfSeq
<1>13. ASSUME NEW i \in 1..Len(t), NEW j \in 1..Len(t), InPixels(t[i]) = InPixels(t[j]) PROVE i = j
  <2>1. PICK k \in Known : t[i] = RowOf(k)
    BY <1>3, <1>12
  <2>2. PICK l \in Known : t[j] = RowOf(l)
    BY <1>3, <1>12
  <2>3. targets.slot[k].ind = targets.slot[l].ind
    BY <1>3, <1>13, <2>1, <2>2
  <2>4. t[i] = t[j]
    BY <1>3, <2>1, <2>2, <2>3
  <2>. QED
    BY <1>9, <1>12, <2>4 DEF IsInjective
<1>14. IsInjective(rows')
  <2>1. DOMAIN rows' = 1..Len(t) /\ \A i \in 1..Len(t) : rows'[i] = InPixels(t[i])
    BY <1>10
  <2>. QED
    BY <1>13, <2>1 DEF IsInjective
<1>15. Range(rows') = {mine(k) : k \in Known}
  <2>1. DOMAIN rows' = 1..Len(t) /\ \A i \in 1..Len(t) : rows'[i] = InPixels(t[i])
    BY <1>10
  <2>2. ASSUME NEW i \in 1..Len(t) PROVE \E k \in Known : rows'[i] = mine(k)
    <3>1. PICK k \in Known : t[i] = RowOf(k)
      BY <1>3, <1>12
    <3>. QED
      BY <2>1, <3>1
  <2>3. ASSUME NEW k \in Known PROVE \E i \in 1..Len(t) : rows'[i] = mine(k)
    <3>1. RowOf(k) \in Range(t)
      BY <1>3, <1>11
    <3>2. PICK i \in 1..Len(t) : t[i] = RowOf(k)
      BY <1>12, <3>1 DEF Range
    <3>. QED
      BY <2>1, <3>2
  <2>. HIDE DEF mine
  <2>. QED
    BY <2>1, <2>2, <2>3 DEF Range
<1>16. rows' \in Seq(RowState)
  BY DecodedIs
<1>. QED
  BY <1>14, <1>15, <1>16

\* So each row of each class is right, and no object is missing.
LEMMA PerfectRows ==
    ASSUME DataTyped, HeadsLike(heads), Len(objects) <= MaxObjects, MaxObjects <= TopK,
           Encodes(targets, objects, Classes, Side, MaxObjects), Expressible,
           NEW f \in Showings, heads = Ideal(f), DecodeImage, NEW c \in Classes
    PROVE  AllRight(OfClass(rows', c), OfClassIn(objects, c))
<1>. DEFINE rs == rows'
            mine == OfClass(rs, c)
            gt == OfClassIn(objects, c)
            row(k) == InPixels(RowOf(k))
<1>1. rs \in Seq(RowState) /\ IsInjective(rs) /\ Range(rs) = {row(k) : k \in Known}
  BY AllAreFound
<1>2. /\ \A k \in Known : row(k).box = objects[k].box /\ row(k).cls = objects[k].cls
      /\ \A j, k \in Known : objects[j].box = objects[k].box => j = k
  BY IdealRowsAre
<1>3. /\ gt \in Seq(ObjectState) /\ Distinct(gt)
      /\ \A j \in 1..Len(gt) : \E k \in 1..Len(objects) : gt[j] = objects[k] /\ objects[k].cls = c
      /\ \A k \in 1..Len(objects) : objects[k].cls = c => \E j \in 1..Len(gt) : gt[j] = objects[k]
  BY ObjectsAreDistinct
<1>. HIDE DEF rs, gt, row
<1>4. /\ mine \in Seq(RowState) /\ Picks(mine, rs, Len(rs))
      /\ Range(mine) = Range(rs) \cap {r \in Range(rs) : r.cls = c}
  BY <1>1, OnlyIs DEF OfClass
<1>. HIDE DEF mine
<1>5. IsInjective(mine)
  BY <1>1, <1>4, PickedIs
<1>6. DOMAIN mine = 1..Len(mine)
  BY <1>4, LenProperties
<1>7. ASSUME NEW i \in 1..Len(mine) PROVE \E k \in Known : mine[i] = row(k) /\ objects[k].cls = c
  <2>1. mine[i] \in Range(rs) /\ mine[i].cls = c
    <3>1. mine[i] \in Range(mine)
      BY <1>6 DEF Range
    <3>. QED
      BY <1>4, <3>1
  <2>2. PICK k \in Known : mine[i] = row(k)
    BY <1>1, <2>1
  <2>. QED
    BY <1>2, <2>1, <2>2
<1>8. ASSUME NEW k \in Known, objects[k].cls = c PROVE \E i \in 1..Len(mine) : mine[i] = row(k)
  <2>1. row(k) \in Range(rs) /\ row(k).cls = c
    BY <1>1, <1>2, <1>8
  <2>2. row(k) \in Range(mine)
    BY <1>4, <2>1
  <2>. QED
    BY <1>6, <2>2 DEF Range
<1>9. Fits(mine, gt)
  <2>1. ASSUME NEW i \in 1..Len(mine) PROVE \E j \in 1..Len(gt) : mine[i].box = gt[j].box
    <3>1. PICK k \in Known : mine[i] = row(k) /\ objects[k].cls = c
      BY <1>7
    <3>2. k \in 1..Len(objects)
      BY DEF Known
    <3>3. PICK j \in 1..Len(gt) : gt[j] = objects[k]
      BY <1>3, <3>1, <3>2
    <3>. QED
      BY <1>2, <3>1, <3>3
  <2>2. ASSUME NEW j \in 1..Len(gt) PROVE \E i \in 1..Len(mine) : mine[i].box = gt[j].box
    <3>1. PICK k \in 1..Len(objects) : gt[j] = objects[k] /\ objects[k].cls = c
      BY <1>3
    <3>2. k \in Known
      BY <3>1 DEF Known
    <3>3. PICK i \in 1..Len(mine) : mine[i] = row(k)
      BY <1>8, <3>1, <3>2
    <3>. QED
      BY <1>2, <3>1, <3>2, <3>3
  <2>3. ASSUME NEW i \in 1..Len(mine), NEW j \in 1..Len(mine), mine[i].box = mine[j].box PROVE i = j
    <3>1. PICK k \in Known : mine[i] = row(k)
      BY <1>7
    <3>2. PICK l \in Known : mine[j] = row(l)
      BY <1>7
    <3>3. objects[k].box = objects[l].box
      BY <1>2, <2>3, <3>1, <3>2
    <3>4. mine[i] = mine[j]
      BY <1>2, <3>1, <3>2, <3>3
    <3>. QED
      BY <1>5, <1>6, <3>4 DEF IsInjective
  <2>. QED
    BY <2>1, <2>2, <2>3, Zenon DEF Fits
<1>10. AllRight(mine, gt)
  BY <1>3, <1>4, <1>9, FittingIsRight
<1>. QED
  BY <1>10 DEF mine, gt, rs
-------------------------------------------------------------------------------
\* Entries of which every one is a true positive, as many as there are objects.
AllFound(s, n) == Len(s) = n /\ \A i \in 1..Len(s) : s[i].tp = 1

\* Their precision is 1 at every rank, so they add up to the whole area.
LEMMA WholeArea ==
    ASSUME NEW e \in Seq(EntryState), \A i \in 1..Len(e) : e[i].tp = 1
    PROVE  AveragePrecision(e) = Whole * Len(e)
<1>. DEFINE n == Len(e)
            T(i) == TpCum(e, i)
            P == {i \in Nat : i <= n => T(i) = i}
<1>1. n \in Nat
  BY LenProperties
<1>2. T(0) = 0 /\ \A i \in 1..n : T(i) = T(i - 1) + e[i].tp
  BY TpStep
<1>. HIDE DEF T
<1>3. \A i \in 0..n : T(i) = i
  <2>1. 0 \in P
    BY <1>2
  <2>2. ASSUME NEW i \in Nat, i \in P PROVE i + 1 \in P
    <3>. SUFFICES ASSUME i + 1 <= n PROVE T(i + 1) = i + 1
      OBVIOUS
    <3>1. i + 1 \in 1..n /\ (i + 1) - 1 = i /\ T(i) = i
      BY <1>1, <2>2
    <3>2. T(i + 1) = T((i + 1) - 1) + e[i + 1].tp /\ e[i + 1].tp = 1
      BY <1>2, <3>1
    <3>. QED
      BY <3>1, <3>2
  <2>3. Nat \subseteq P
    <3>. HIDE DEF P
    <3>. QED
      BY <2>1, <2>2, SetInduction
  <2>. QED
    BY <1>1, <2>3
<1>4. \A i \in 1..n : Precision(e, i) = 60
  <2>1. \A i \in Nat \ {0} : (60 * i) \div i = 60
    BY DivIs
  <2>2. \A i \in 1..n : T(i) = i /\ i \in Nat \ {0}
    BY <1>1, <1>3
  <2>. QED
    BY <2>1, <2>2 DEF Precision, Whole, T
<1>5. \A i \in 1..n : Envelope(e)[i] = 60
  <2>. SUFFICES ASSUME NEW i \in 1..n PROVE Envelope(e)[i] = 60
    OBVIOUS
  <2>1. BestFrom(Envelope(e)[i], e, i)
    BY EnvelopeIs
  <2>2. PICK j \in i..n : Envelope(e)[i] = Precision(e, j)
    BY <2>1 DEF BestFrom
  <2>3. j \in 1..n
    BY <1>1
  <2>. QED
    BY <1>4, <2>2, <2>3
<1>6. PICK a : /\ a[0] = 0 /\ AveragePrecision(e) = a[n]
               /\ \A i \in 1..n : a[i] = a[i - 1] + IF e[i].tp = 1 THEN Envelope(e)[i] ELSE 0
  BY ApSums, Zenon
<1>7. \A i \in 1..n : a[i] = a[i - 1] + 60
  BY <1>5, <1>6
<1>. DEFINE Q == {i \in Nat : i <= n => a[i] = 60 * i}
<1>8. 0 \in Q
  BY <1>6
<1>9. ASSUME NEW i \in Nat, i \in Q PROVE i + 1 \in Q
  <2>. SUFFICES ASSUME i + 1 <= n PROVE a[i + 1] = 60 * (i + 1)
    OBVIOUS
  <2>1. i + 1 \in 1..n /\ (i + 1) - 1 = i /\ a[i] = 60 * i
    BY <1>1, <1>9
  <2>2. a[i + 1] = a[(i + 1) - 1] + 60
    BY <1>7, <2>1
  <2>. QED
    BY <2>1, <2>2
<1>10. n \in Q
  <2>. HIDE DEF Q
  <2>. QED
    BY <1>1, <1>8, <1>9, SetInduction
<1>. QED
  BY <1>1, <1>6, <1>10 DEF Whole

\* What a network that outputs its targets goes through: its output shows one
\* object at each center, its rows are right, and so are all the accumulators.
Perfect ==
    /\ (pc = "decode" /\ defect = "none") => \E f \in Showings : heads = Ideal(f)
    /\ (pc = "update" /\ defect = "none" /\ Expressible) =>
          \A c \in Classes : AllRight(OfClass(rows, c), OfClassIn(objects, c))
    /\ flawless => \A c \in Classes : AllFound(scores[c], nGt[c])
    /\ PerfectNetworkScoresOne

\* update appends true positives only, one for each object.
LEMMA UpdateKeepsAll ==
    ASSUME LoopTyped, Perfect, Update, flawless', NEW c \in Classes
    PROVE  AllFound(scores'[c], nGt'[c])
<1>. DEFINE mine == OfClass(rows, c)
            gt == OfClassIn(objects, c)
            old == scores[c]
            new == Matches(mine, gt)
<1>1. pc = "update" /\ defect = "none" /\ Expressible /\ flawless
  BY DEF Update
<1>2. AllRight(mine, gt) /\ AllFound(old, nGt[c])
  BY <1>1 DEF Perfect
<1>3. scores'[c] = old \o new /\ nGt'[c] = nGt[c] + Len(gt)
  BY DEF Update
<1>4. mine \in Seq(RowState) /\ old \in Seq(EntryState) /\ \A r \in RowState : r.score \in Int
  BY OfClassIs DEF LoopTyped, AccumulatorsTyped, RowState
<1>. HIDE DEF mine, gt, old
<1>5. new \in Seq(EntryState) /\ Len(new) = Len(mine)
  <2>1. new \in Seq(EntryState)
    BY <1>4, MatchesIs
  <2>2. DOMAIN new = 1..Len(mine)
    BY Zenon DEF Matches
  <2>. HIDE DEF new
  <2>. QED
    BY <1>4, <2>1, <2>2, LenProperties
<1>6. \A i \in 1..Len(new) : new[i].tp = 1
  BY <1>2, <1>5 DEF AllRight
<1>. HIDE DEF new
<1>7. /\ Len(old) \in Nat /\ Len(new) \in Nat /\ Len(old \o new) = Len(old) + Len(new)
      /\ \A i \in 1..Len(old) + Len(new) : (old \o new)[i] = IF i <= Len(old) THEN old[i] ELSE new[i - Len(old)]
  BY <1>4, <1>5, LenProperties, ConcatProperties
<1>8. \A i \in 1..Len(old) + Len(new) : (old \o new)[i].tp = 1
  <2>1. \A i \in 1..Len(old) + Len(new) :
            IF i <= Len(old) THEN i \in 1..Len(old) ELSE i - Len(old) \in 1..Len(new)
    BY <1>7
  <2>. QED
    BY <1>2, <1>6, <1>7, <2>1 DEF AllFound
<1>. QED
  BY <1>2, <1>3, <1>5, <1>7, <1>8 DEF AllFound, AllRight

\* compute makes a whole area of them in whatever order.
LEMMA ComputeIsPerfect ==
    ASSUME LoopTyped, Perfect, Compute
    PROVE  PerfectNetworkScoresOne'
<1>1. PICK order \in [Classes -> UNION {EntryRankings(c) : c \in Classes}] :
          /\ \A c \in Classes : order[c] \in EntryRankings(c)
          /\ aps' = [c \in {d \in Classes : nGt[d] > 0} |->
                       [entries |-> order[c], ap |-> AveragePrecision(order[c])]]
  BY DEF Compute
<1>2. ASSUME flawless, NEW c \in DOMAIN aps' PROVE aps'[c].ap = Whole * nGt[c]
  <2>1. c \in Classes /\ order[c] \in EntryRankings(c) /\ aps'[c].ap = AveragePrecision(order[c])
    BY <1>1
  <2>2. AllFound(scores[c], nGt[c])
    BY <1>2, <2>1 DEF Perfect
  <2>. DEFINE e == order[c]
  <2>3. /\ e \in Seq(EntryState) /\ Len(e) = Len(scores[c])
        /\ \A i \in 1..Len(e) : \E k \in 1..Len(e) : e[i].tp = scores[c][k].tp
    BY <2>1, EntriesAre DEF LoopTyped
  <2>. HIDE DEF e
  <2>4. \A i \in 1..Len(e) : e[i].tp = 1
    BY <2>2, <2>3 DEF AllFound
  <2>5. AveragePrecision(e) = Whole * Len(e)
    BY <2>3, <2>4, WholeArea
  <2>. QED
    BY <2>1, <2>2, <2>3, <2>5 DEF AllFound, e
<1>3. UNCHANGED <<flawless, nGt>>
  BY DEF Compute
<1>. QED
  BY <1>2, <1>3 DEF PerfectNetworkScoresOne

\* Every step keeps it so.
LEMMA PerfectNext ==
    MaxObjects <= TopK /\ LoopTyped /\ Encoded /\ Perfect /\ [EvalNext]_evalVars => Perfect'
<1>. SUFFICES ASSUME MaxObjects <= TopK, LoopTyped, Encoded, Perfect, [EvalNext]_evalVars PROVE Perfect'
  OBVIOUS
<1>1. CASE Predict
  <2>1. defect' = "none" => \E f \in Showings : heads' = Ideal(f)
    BY <1>1 DEF Predict
  <2>2. UNCHANGED targets
    BY <1>1 DEF Predict
  <2>3. Showings' = Showings
    BY <2>2 DEF Showings, Centers
  <2>4. \A f : Ideal(f)' = Ideal(f)
    BY <2>2 DEF Ideal, Centers
  <2>5. defect' = "none" => (\E f \in Showings : heads = Ideal(f))'
    BY <2>1, <2>3, <2>4
  <2>6. pc' = "decode" /\ UNCHANGED <<scores, nGt, flawless>>
    BY <1>1 DEF Predict
  <2>. QED
    BY <2>5, <2>6 DEF Perfect, PerfectNetworkScoresOne
<1>2. CASE DecodeImage
  <2>1. pc = "decode" /\ pc' = "update" /\ UNCHANGED <<objects, targets, heads, defect, scores, nGt, flawless>>
    BY <1>2 DEF DecodeImage
  <2>2. Expressible' = Expressible
    BY <2>1 DEF Expressible
  <2>3. ASSUME defect = "none", Expressible, NEW c \in Classes
        PROVE  AllRight(OfClass(rows', c), OfClassIn(objects, c))
    <3>1. PICK f \in Showings : heads = Ideal(f)
      BY <2>1, <2>3 DEF Perfect
    <3>. QED
      BY <1>2, <2>1, <2>3, <3>1, PerfectRows DEF LoopTyped, Encoded
  <2>. QED
    BY <2>1, <2>2, <2>3 DEF Perfect, PerfectNetworkScoresOne
<1>3. CASE Update
  <2>1. pc' = "load"
    BY <1>3 DEF Update
  <2>2. flawless' => \A c \in Classes : AllFound(scores'[c], nGt'[c])
    BY <1>3, UpdateKeepsAll
  <2>. QED
    BY <2>1, <2>2 DEF Perfect, PerfectNetworkScoresOne
<1>4. CASE Compute
  <2>1. pc' = "done" /\ UNCHANGED <<scores, nGt, flawless>>
    BY <1>4 DEF Compute
  <2>. QED
    BY <1>4, <2>1, ComputeIsPerfect DEF Perfect
<1>5. CASE RenderShapes \/ ReadAnnotated \/ Augment \/ Encode
  <2>1. pc' \in {"augment", "encode", "forward"} /\ UNCHANGED <<scores, nGt, flawless>>
    BY <1>5, StepsLeave
  <2>. QED
    BY <2>1 DEF Perfect, PerfectNetworkScoresOne
<1>6. CASE UNCHANGED evalVars
  <2>1. UNCHANGED <<pc, objects, targets, heads, defect, rows, scores, nGt, flawless, aps>>
    BY <1>6 DEF evalVars
  <2>2. Showings' = Showings /\ \A f : Ideal(f)' = Ideal(f)
    BY <2>1 DEF Showings, Ideal, Centers
  <2>3. (\E f \in Showings : heads = Ideal(f)) => (\E f \in Showings : heads = Ideal(f))'
    BY <2>1, <2>2
  <2>4. Expressible' = Expressible
    BY <2>1 DEF Expressible
  <2>5. PerfectNetworkScoresOne'
    BY <2>1 DEF Perfect, PerfectNetworkScoresOne
  <2>. QED
    BY <2>1, <2>3, <2>4, <2>5 DEF Perfect
<1>. QED
  BY <1>1, <1>2, <1>3, <1>4, <1>5, <1>6 DEF EvalNext

\* At the start there is nothing to be wrong.
LEMMA PerfectInit == EvalInit => Perfect
<1>. SUFFICES ASSUME EvalInit PROVE Perfect
  OBVIOUS
<1>1. pc = "load" /\ \A c \in Classes : scores[c] = << >> /\ nGt[c] = 0
  BY DEF EvalInit
<1>2. AllFound(<< >>, 0)
  BY EmptySeq DEF AllFound
<1>. QED
  BY <1>1, <1>2 DEF Perfect, PerfectNetworkScoresOne

\* Encoding, decoding and the metric fit together.  As long as a decoder keeps
\* as many rows as an image may have objects, a network that outputs its
\* targets has the average precision 1 in every class, on any number of images
\* of any objects the targets can express, however equal scores are ordered.
THEOREM PerfectScoresOne ==
    ASSUME MaxObjects <= TopK
    PROVE  EvalSpec => []PerfectNetworkScoresOne
<1>1. Encoded /\ Perfect /\ LoopTyped /\ [EvalNext]_evalVars => (Encoded /\ Perfect)'
  BY EncodedNext, PerfectNext DEF LoopTyped
<1>2. EvalInit => Encoded /\ Perfect
  BY PerfectInit DEF EvalInit, Encoded
<1>3. Perfect => PerfectNetworkScoresOne
  BY DEF Perfect
<1>. QED
  BY <1>1, <1>2, <1>3, LoopHolds, PTL DEF EvalSpec
===============================================================================
