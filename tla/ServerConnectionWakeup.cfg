CONSTANTS
    MaxFrames = 1
SPECIFICATION Spec
PROPERTY FailureEndsConnection
