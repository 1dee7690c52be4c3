\* Two requests in the life of a process, at once or one after the other, from
\* holders of an environment key, a database key, a made-up key or none; one
\* request a tick for each; batches of up to two; one stream.
CONSTANTS
    None = None
    DefaultDetector = "centernet"
    Slots = {p1, p2}
    Sockets = {s1}
    EnvKeys = {"e1"}
    DbKeys = {"k1"}
    StrangeKeys = {"x1"}
    Hosts = {"h1"}
    Settings <- MCSettings
    Requests <- MCRequests
    Frames <- MCFrames
    MaxBytes = 1
    MaxSide = 1
    BatchLimit = 2
    Rate = 1
    MaxServed = 2
SPECIFICATION Spec
CONSTRAINT Apart
INVARIANTS RejectedLeavesNoTrace CountersBalance
PROPERTIES GateIsFair EveryoneAnswered
