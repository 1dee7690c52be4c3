-------------------------------- MODULE Network --------------------------------
(***************************************************************************)
(* The shapes of CenterNet's feature maps                                  *)
(* (src/visionforge/models/centernet/model.py): what tensors its parts     *)
(* take and give, and which of them the code adds, compares or indexes     *)
(* together.  Weights and values are left out.                             *)
(*                                                                         *)
(* A feature map is square: its side and its number of channels.           *)
(***************************************************************************)
EXTENDS Integers, Sequences

Feature(side, ch) == [side |-> side, ch |-> ch]

\* nn.Conv2d and nn.MaxPool2d: kernel k, stride s, padding p.
ConvSide(n, k, s, p) == ((n + 2 * p - k) \div s) + 1

Conv3x3(f, out, stride) == Feature(ConvSide(f.side, 3, stride, 1), out)
Conv1x1(f, out, stride) == Feature(ConvSide(f.side, 1, stride, 0), out)

\* nn.ConvTranspose2d(kernel_size=4, stride=2, padding=1).
Deconv(f) == Feature((f.side - 1) * 2 - 2 + 4, f.ch)

\* BasicBlock: two convolutions, and the shortcut around them.
BlockMain(f, out, stride) == Conv3x3(Conv3x3(f, out, stride), out, 1)
BlockShortcut(f, out, stride) ==
    IF stride # 1 \/ f.ch # out THEN Conv1x1(f, out, stride) ELSE f

\* _make_stage: the first block has the stride, the others keep the shape.
Stage(f, out, stride) == BlockMain(f, out, stride)

\* The channel counts of ResNetBackbone(width): whole for the widths the
\* factory uses, given here in halves.
Channels(i, halfWidths) == (<<64, 64, 128, 256, 512>>[i] * halfWidths) \div 2

Stem(side, w) == Feature(ConvSide(ConvSide(side, 7, 2, 3), 3, 2, 1), Channels(1, w))

Backbone(side, w) ==
    Stage(Stage(Stage(Stage(Stem(side, w), Channels(2, w), 1),
                      Channels(3, w), 2),
                Channels(4, w), 2),
          Channels(5, w), 2)

\* UpsampleNeck: three times a convolution and a deconvolution.
Neck(f, chs) == Deconv(Conv3x3(Deconv(Conv3x3(Deconv(Conv3x3(f, chs[1], 1)), chs[2], 1)), chs[3], 1))

\* Head: a 3x3 and a 1x1 convolution.
OutputHead(f, out) == Conv1x1(Conv3x3(f, 64, 1), out, 1)

\* build_centernet.
Variants == {"lite", "r18", "r34"}
HalfWidths(variant) == IF variant = "lite" THEN 1 ELSE 2
NeckChannels(variant) == IF variant = "lite" THEN <<128, 64, 64>> ELSE <<256, 128, 64>>

\* CenterNet.forward: the shapes of hm (for the number of classes), wh and
\* offset, for a square input.
ForwardShapes(side, variant, classes) ==
    LET feat == Neck(Backbone(side, HalfWidths(variant)), NeckChannels(variant))
    IN [hm |-> OutputHead(feat, classes), wh |-> OutputHead(feat, 2), offset |-> OutputHead(feat, 2)]

\* The side of the three heads.
HeadSide(side) == Neck(Backbone(side, 2), <<256, 128, 64>>).side

DownRatio == 4

\* The side of the targets, input_size // down_ratio.
TargetSide(side) == side \div DownRatio

\* CenterNetLoss compares hm with its target element by element.  They have
\* the same shape, or the target is one cell and is broadcast, or it raises.
LossIsDefined(side) == HeadSide(side) = TargetSide(side) \/ TargetSide(side) = 1
===============================================================================
