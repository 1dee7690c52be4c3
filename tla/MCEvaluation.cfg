\* Two images, each with up to two shapes or one of two annotated ones, seen
\* by a network that is right, misses an object or sees one too many.  1, 9, 25
\* and 49 divide Spread; Threshold is a score of 0.2.
CONSTANTS
    Size = 128
    NumClasses = 2
    Shapes <- MCShapes
    Annotations <- MCAnnotations
    MaxShapes = 2
    MaxObjects = 2
    TopK = 3
    MaxRadius = 3
    Spread = 11025
    Top = 5000
    Threshold = 4015
    Ghosts <- MCGhosts
    MaxImages = 2
SPECIFICATION EvalSpec
INVARIANTS RadiusKeepsOverlap TargetsAreLearnable PerfectNetworkScoresOne ApIsArea
PROPERTY ObjectsFoundOnce
CHECK_DEADLOCK FALSE
