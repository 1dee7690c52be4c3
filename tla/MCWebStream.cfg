\* Three clicks on Start: two sessions one after the other, or overlapping,
\* and one more.
CONSTANT
    MaxStarts = 3
SPECIFICATION FairSpec
INVARIANTS OneFrameOut NothingLeaks
PROPERTY StreamsUnlessLost
CHECK_DEADLOCK FALSE
