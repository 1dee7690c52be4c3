\* Four shapes of image, one too flat to letterbox; up to three things in each
\* out of those that can suppress, hide or outlast each other.  No targets are
\* drawn here, so any radius and heats will do.
CONSTANTS
    Size = 32
    Images <- MCImages
    NumClasses = 3
    Blobs <- MCBlobs
    MaxBlobs = 3
    Objects <- MCObjects
    MaxSeen = 3
    Stray <- MCStray
    TopK = 2
    MaxRadius = 3
    Spread = 11025
    Top = 5000
    Conf = 250
    None = None
SPECIFICATION Spec
INVARIANTS ResultsWellFormed PathsAgree SeenWhereItIs SuppressionJustified
CHECK_DEADLOCK FALSE
