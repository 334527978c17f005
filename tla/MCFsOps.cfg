CONSTANTS
    w1 = w1
    w2 = w2
    Names <- MCNames
    Workers <- MCWorkers
    Reqs <- MCReqs
    MaxSize <- MCMaxSize
SPECIFICATION Spec
SYMMETRY Symm
INVARIANT FsSerializable
