CONSTANTS
    w1 = w1
    w2 = w2
    Names <- MCNames
    Workers <- MCReadWorkers
    Reqs <- MCReadReqs
    MaxSize <- MCReadMaxSize
SPECIFICATION Spec
INVARIANT FuseReadShort
