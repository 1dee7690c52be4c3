----------------------------- MODULE MCEvaluation -----------------------------
\* Values for the constants of Evaluation: images of 128 pixels, 32 cells a side.
EXTENDS Evaluation

Shape(cls, s, cx, cy) == [cls |-> cls, s |-> s, cx |-> cx, cy |-> cy]

\* Two shapes that share a center, two a cell away, and one at the far border;
\* one has a side for which only the shrinking box decides the radius.
MCShapes == {Shape(0, 16, 40, 40), Shape(1, 23, 41, 40), Shape(0, 16, 45, 42), Shape(1, 18, 45, 41),
             Shape(0, 18, 109, 80)}

Object(cls, x1, y1, x2, y2) == [cls |-> cls, box |-> Box(x1, y1, x2, y2)]

\* Large objects whose splats meet; more objects than slots after an unknown
\* one, the first cut in three by the clipping; one that clipping flattens.
MCAnnotations ==
    {[w |-> 64, h |-> 128, objects |-> <<Object(0, 0, 0, 56, 112), Object(0, 2, 4, 60, 120)>>],
     [w |-> 64, h |-> 64, objects |-> <<Object(7, 0, 0, 8, 8), Object(1, 61, 10, 64, 30),
                                        Object(1, 24, 10, 40, 30), Object(0, 2, 4, 10, 20)>>],
     [w |-> 32, h |-> 64, objects |-> <<Object(0, 31, 8, 32, 20)>>]}

\* One below the threshold, one on an empty spot, and one that is half of the
\* first shape: too little overlap to be suppressed, enough to be a hit.
MCGhosts ==
    {[cls |-> 0, cell |-> <<20, 6>>, wh |-> <<40, 40>>, score |-> 3000],
     [cls |-> 1, cell |-> <<24, 24>>, wh |-> <<60, 80>>, score |-> 4500],
     [cls |-> 0, cell |-> <<8, 10>>, wh |-> <<32, 64>>, score |-> 4900]}
===============================================================================
