CONSTANTS
    NumFrames = 3
    PayloadLens = {1, 2, 3, 4}
    HeaderLen = 2
    MaxRecord = 3
    Layouts = {"stream"}
SPECIFICATION Spec
INVARIANT FramesIntact
