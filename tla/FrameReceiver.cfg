CONSTANTS
    NumFrames = 3
    PayloadLens = {1, 2, 3, 4}
    HeaderLen = 2
    MaxRecord = 3
    Layouts = {"per_frame", "byte"}
SPECIFICATION Spec
INVARIANT TypeOK
PROPERTY InboundSafe
PROPERTY InboundLive
