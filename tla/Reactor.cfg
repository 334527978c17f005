CONSTANTS
    Senders = {s1, s2}
    MsgsPerSender = 2
    FrameLen = 2
    PipeCap = 5
    MaxInbound = 1
    Congestion = TRUE
SPECIFICATION Spec
INVARIANT PipeBacklogBounded
PROPERTY ChannelSafe
PROPERTY StopWakesReactor
