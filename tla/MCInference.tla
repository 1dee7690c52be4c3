----------------------------- MODULE MCInference -----------------------------
\* Values for the constants of Inference: a network input of 32 pixels, 8 cells
\* a side.
EXTENDS Inference

MCImages == {[w |-> 32, h |-> 32], [w |-> 21, h |-> 50], [w |-> 70, h |-> 1], [w |-> 33, h |-> 40]}

Blob(cls, x, y, score, w, h) ==
    [cls |-> cls, cell |-> <<x, y>>, score |-> score, wh |-> <<w, h>>, offset |-> <<2, 4>>]

\* Neighbours, one of another class in the same cell, three in a row of which
\* the outer two are far enough apart, two at opposite borders, one whose box
\* has no area and one below the threshold.
MCBlobs ==
    {Blob(0, 2, 2, 900, 32, 32), Blob(1, 2, 2, 800, 32, 32), Blob(0, 3, 2, 700, 24, 40),
     Blob(0, 4, 3, 850, 32, 32), Blob(0, 5, 2, 650, 32, 32),
     Blob(1, 0, 4, 600, 20, 12), Blob(1, 7, 4, 750, 24, 20),
     Blob(0, 6, 6, 500, 0, 16), Blob(0, 6, 1, 100, 16, 16)}

Object(cls, x1, y1, x2, y2, score, mask) ==
    [cls |-> cls, box |-> Box(x1, y1, x2, y2), score |-> score, mask |-> mask, pose |-> <<"pose", x1, y1>>]

\* Three in a row again, one of another class, one as large as an image, and
\* one that a flat image has room for.
MCObjects ==
    {Object(0, 1, 2, 9, 27, 900, "left"), Object(0, 4, 2, 12, 27, 800, "malformed"),
     Object(0, 6, 2, 14, 28, 700, "right"), Object(1, 4, 1, 13, 29, 850, "other"),
     Object(0, 0, 0, 21, 30, 300, "large"), Object(1, 12, 0, 20, 1, 500, "flat")}

\* A row in the padding of a tall image, and one that overlaps an object.
MCStray == {[cls |-> 0, x |-> 8, y |-> 64, w |-> 8, h |-> 16, score |-> 950],
            [cls |-> 1, x |-> 40, y |-> 4, w |-> 40, h |-> 4, score |-> 600]}
===============================================================================
